SPECIFICATION Spec
CONSTANTS
    Version <- TwoVersions
    Faults <- FaultKind
    Links = {FALSE}
    MaxCommands = 3
    MaxKills = 2
INVARIANT
    DataKept
CHECK_DEADLOCK FALSE
