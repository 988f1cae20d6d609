SPECIFICATION Spec
CONSTANTS
    Version <- ThreeVersions
    Faults <- Mishaps
    Links = {TRUE, FALSE}
    MaxCommands = 4
    MaxKills = 2
INVARIANTS
    TypeOK
    OneWriter
    ImageFitsData
    ManagedAndReachable
    RecordFitsData
    ServesTheDatabase
PROPERTY
    KeepsItsLineage
CHECK_DEADLOCK FALSE
