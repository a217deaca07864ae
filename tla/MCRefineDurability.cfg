SPECIFICATION Spec
CONSTANTS
    NoRepo = "norepo"
    NoRow = "norow"
    t1 = t1
    t2 = t2
    Package <- SmallPackages
    NameOf <- SmallNames
    Section = {}
    SourceRepo <- SmallRepos
    Toggleable = {}
    Enabled = {}
    RepoFile = {}
    GpgKey = {}
    FilesOf <- NoFunction
    KeysOf <- NoFunction
    EnablingFrom <- SmallEnabling
    OwnedPaths <- SmallEnabling
    Group = {"core"}
    Members <- SmallMembers
    Service = {}
    DropIn = {}
    UnitOf <- NoFunction
    Config = {}
    FixedConfig = {}
    PlainItem = {}
    Locked = {"kernel"}
    OrigIncluded = {"curl"}
    User = {}
    OrigHash <- NoFunction
    OrigSensitive = FALSE
    Client <- Tabs1
    Tab = {}
    SubmittedOps <- SmallOps
    SubmittedBatches <- SmallBatches
    SubmittedGroups = {"core"}
    SaveFaults = {"transient", "permanent"}
    MaxTimeline = 2
    MaxGeneration = 4
    MaxUploads = 1
    MaxEpoch = 3
    MaxTarball = 1
INVARIANTS
    TypeOK
    ViewCurrent
    SavedMatches
PROPERTIES
    GenerationNamesState
    CrashLosesNothingSaved
    ImplementsHistory
CHECK_DEADLOCK FALSE
