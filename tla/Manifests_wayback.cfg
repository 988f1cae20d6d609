SPECIFICATION ManifestsSpec
CONSTANTS
    Manifest <- AllManifests
    NoManifest = NoManifest
    MaxApplies = 2
INVARIANTS
    WayBack
CHECK_DEADLOCK FALSE
