SPECIFICATION Spec
CONSTANTS
    c1 = c1
    c2 = c2
    p1 = p1
    p2 = p2
    m1 = m1
    m2 = m2
    bad = bad
    Cluster = {c1}
    Cli = {p1}
    Manifest = {m1, m2, bad}
    SpecOf <- AsksFor
    ImageOf <- Images
    BadManifest = {bad}
    NoManifest = NoManifest
    Port = {5001}
    NoPort = NoPort
    Overlap = FALSE
    Faults = TRUE
    MaxOps = 3
    MaxCrashes = 1
SYMMETRY Exchanged
INVARIANTS
    TypeOK
    StoppedMeansDown
    NoOrphanContainer
    DataReachable
    ManifestHonoured
