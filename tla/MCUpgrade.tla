----------------------------- MODULE MCUpgrade -----------------------------
(* Instances of Upgrade for TLC.                                           *)
EXTENDS Upgrade

TwoVersions   == {1, 2}
ThreeVersions == {1, 2, 3}

\* What the promises of an upgrade are made to survive.
Mishaps == {"step", "kill", "reboot"}

\* With a kill between the two renames of a swap.
SwapCut == Mishaps \cup {"swap-kill"}
=============================================================================
