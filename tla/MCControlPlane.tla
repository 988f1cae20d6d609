--------------------------- MODULE MCControlPlane ---------------------------
(* Instances of ControlPlane for TLC: the model values the configurations  *)
(* build their sets of clusters, CLI slots and manifests from, and what    *)
(* the manifests ask for: m2 is m1 with another image, bad asks for        *)
(* another InstanceSpec.                                                   *)
EXTENDS ControlPlane, TLC

CONSTANTS c1, c2, p1, p2, m1, m2, bad

AsksFor == [m \in Manifest |-> IF m = bad THEN "unbootable" ELSE "plain"]
Images  == [m \in Manifest |-> m]

\* m1 and m2 may be exchanged: each is the other with another image.
Exchanged == Permutations({m1, m2})

=============================================================================
