SPECIFICATION Spec
CONSTANTS
    Version <- TwoVersions
    Faults <- SwapCut
    Links = {TRUE, FALSE}
    MaxCommands = 2
    MaxKills = 1
INVARIANT
    ServesTheDatabase
CHECK_DEADLOCK FALSE
