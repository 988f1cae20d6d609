SPECIFICATION Spec
CONSTANTS
    c1 = c1
    c2 = c2
    Cluster = {c1, c2}
    NoCluster = NoCluster
    Role <- OneRole
    Version = {1, 2}
    Cli = {1}
    Overlap = FALSE
    Accidents = {"podman", "patience", "hasty", "secrets", "kill"}
    MaxOps = 4
    MaxKills = 1
SYMMETRY Alike
INVARIANTS
    TypeOK
    ReportsOwnBackup
    RestoredAsAsked
    ImageReadsBackup
    Reachable
CHECK_DEADLOCK FALSE
