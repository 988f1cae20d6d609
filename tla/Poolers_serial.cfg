SPECIFICATION Spec
CONSTANTS
    c1 = c1
    c2 = c2
    p1 = p1
    p2 = p2
    one = one
    moved = moved
    both = both
    Cluster = {c1, c2}
    Pooler = {p1, p2}
    Manifest = {one, moved, both}
    Fronts <- FrontsOf
    SpecOf <- AsksFor
    NoManifest = NoManifest
    Cli = {i1}
    i1 = i1
    i2 = i2
    Overlap = FALSE
    Accidents = {"podman", "console", "kill"}
    MaxOps = 5
    MaxKills = 1
INVARIANTS
    TypeOK
    SecretMeansRole
    PoolersCanLogIn
    RowDescribesPooler
    HeldThroughout
CHECK_DEADLOCK FALSE
