----------------------------- MODULE MCAlgorithms -----------------------------
(* The five modules about what is computed, side by side: each goes its way *)
(* while the others have not begun.                                         *)
EXTENDS MCManifests, MCStaging, MCNames, MCPoolerManifests, MCConsole
AlgorithmsInit ==
    ManifestsInit /\ StagingInit /\ NamesInit /\ PoolerManifestsInit /\ ConsoleInit
AlgorithmsNext ==
    \/ /\ StagingInit /\ NamesInit /\ PoolerManifestsInit /\ ConsoleInit
       /\ ManifestsNext
       /\ UNCHANGED <<stagingVars, objects, poolerVars, consoleVars>>
    \/ /\ ManifestsInit /\ NamesInit /\ PoolerManifestsInit /\ ConsoleInit
       /\ StagingNext
       /\ UNCHANGED <<manifestVars, objects, poolerVars, consoleVars>>
    \/ /\ ManifestsInit /\ StagingInit /\ PoolerManifestsInit /\ ConsoleInit
       /\ NamesNext
       /\ UNCHANGED <<manifestVars, stagingVars, poolerVars, consoleVars>>
    \/ /\ ManifestsInit /\ StagingInit /\ NamesInit /\ ConsoleInit
       /\ PoolerManifestsNext
       /\ UNCHANGED <<manifestVars, stagingVars, objects, consoleVars>>
    \/ /\ ManifestsInit /\ StagingInit /\ NamesInit /\ PoolerManifestsInit
       /\ ConsoleNext
       /\ UNCHANGED <<manifestVars, stagingVars, objects, poolerVars>>
AlgorithmsSpec ==
    AlgorithmsInit /\
    [][AlgorithmsNext]_<<manifestVars, stagingVars, objects, poolerVars, consoleVars>>
=============================================================================
