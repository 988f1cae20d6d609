----------------------------- MODULE MCPoolers -----------------------------
(* Instances of Poolers for TLC: two clusters; a pooler in front of one,   *)
(* one that may front either or both.  `moved` is `one` with another host  *)
(* port.                                                                   *)
EXTENDS Poolers, TLC

CONSTANTS c1, c2, p1, p2, one, moved, both, i1, i2

FrontsOf == one :> {c1} @@ moved :> {c1} @@ both :> {c1, c2}
AsksFor  == one :> one @@ moved :> one @@ both :> both
=============================================================================
