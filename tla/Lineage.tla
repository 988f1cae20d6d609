------------------------------ MODULE Lineage ------------------------------
(***************************************************************************)
(* What a cluster promises about the database it holds: it is created      *)
(* once, and from then on it is only ever replaced by itself at a later    *)
(* major version.  It is never replaced by another database, an empty one  *)
(* included, and never goes back to an earlier version.                    *)
(***************************************************************************)
EXTENDS Naturals

CONSTANT Version     \* major versions of PostgreSQL

VARIABLE database    \* which database (1 is the first ever made), at which version

None == [origin |-> 0, version |-> 0]

Init == database = None

Born ==
    /\ database = None
    /\ \E v \in Version : database' = [origin |-> 1, version |-> v]

Upgraded ==
    /\ database # None
    /\ \E v \in Version :
         /\ v > database.version
         /\ database' = [database EXCEPT !.version = v]

Next == Born \/ Upgraded

Spec == Init /\ [][Next]_database
=============================================================================
