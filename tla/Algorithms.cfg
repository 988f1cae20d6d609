SPECIFICATION AlgorithmsSpec
CONSTANTS
    Manifest <- AllManifests
    NoManifest = NoManifest
    MaxApplies = 2
    Image <- AllImages
    Target <- AllTargets
    DataVersion = 17
    NoFile = NoFile
    Options <- AllOptions
    MaxStages = 2
    Letters <- SomeLetters
    Numbers <- SomeNumbers
    Foul = {"A_"}
    MaxWords = 3
    Jobs <- SomeJobs
    ClusterJobs <- SomeClusterJobs
    JobWords <- SomeJobWords
    MaxObjects = 2
    PoolerFile <- Doors
    NoPoolerFile = NoPoolerFile
    Clusters <- Registries
    PoolNames <- TwoPools
    Layouts <- SomeLayouts
    MaxLength = 9
INVARIANTS
    MistakesAreEarly
    ManagedSettingsStand
    ArchivesSomewhere
    WhoGetsIn
    StagedFromOneImage
    VerifiedMeansAllRun
    ChecksumsCarried
    NamesTellApart
    EveryPoolAnswers
    AnswersItsCommand
CHECK_DEADLOCK FALSE
