SPECIFICATION FairSpec
CONSTANTS
    c1 = c1
    c2 = c2
    p1 = p1
    p2 = p2
    m1 = m1
    m2 = m2
    bad = bad
    Cluster = {c1, c2}
    Cli = {p1}
    Manifest = {m1}
    SpecOf <- AsksFor
    ImageOf <- Images
    BadManifest = {}
    NoManifest = NoManifest
    Port = {5001, 5002}
    NoPort = NoPort
    Overlap = FALSE
    Faults = FALSE
    MaxOps = 2
    MaxCrashes = 1
PROPERTIES
    BootRestores
