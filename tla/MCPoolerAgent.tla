---------------------------- MODULE MCPoolerAgent ----------------------------
(* Instances of PoolerAgent for TLC: a pooler in front of two clusters, two *)
(* databases of the first and one of the second.                            *)
EXTENDS PoolerAgent, TLC

CONSTANTS c1, c2, a1, a2, b1, r1, r2, r3

LeadsTo == a1 :> c1 @@ a2 :> c1 @@ b1 :> c2

RequestSymmetry == Permutations(Request)

=============================================================================
