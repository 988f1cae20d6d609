----------------------------- MODULE MCBackups -----------------------------
(* Instances of Backups for TLC: two clusters, each of which may be        *)
(* restored into the other's name, and two versions.                       *)
EXTENDS Backups, TLC

CONSTANTS c1, c2

Alike   == Permutations({c1, c2})
OneRole == {"superuser"}
=============================================================================
