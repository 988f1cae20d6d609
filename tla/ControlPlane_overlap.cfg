SPECIFICATION Spec
CONSTANTS
    c1 = c1
    c2 = c2
    p1 = p1
    p2 = p2
    m1 = m1
    m2 = m2
    bad = bad
    Cluster = {c1}
    Cli = {p1, p2}
    Manifest = {m1}
    SpecOf <- AsksFor
    ImageOf <- Images
    BadManifest = {}
    NoManifest = NoManifest
    Port = {5001}
    NoPort = NoPort
    Overlap = TRUE
    Faults = TRUE
    MaxOps = 2
    MaxCrashes = 0
INVARIANTS
    ApplyingHasAnOwner
