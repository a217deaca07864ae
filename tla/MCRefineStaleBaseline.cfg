SPECIFICATION Spec
CONSTANTS
    NoRepo = "norepo"
    NoRow = "norow"
    t1 = t1
    t2 = t2
    Package <- SmallPackages
    NameOf <- SmallNames
    Section = {}
    SourceRepo <- SmallRepos
    Toggleable = {}
    Enabled = {}
    RepoFile = {}
    GpgKey = {}
    FilesOf <- NoFunction
    KeysOf <- NoFunction
    EnablingFrom <- SmallEnabling
    OwnedPaths <- SmallEnabling
    Group = {"core"}
    Members <- SmallMembers
    Service = {}
    DropIn = {}
    UnitOf <- NoFunction
    Config = {}
    FixedConfig = {}
    PlainItem = {}
    Locked = {"kernel"}
    OrigIncluded = {"curl"}
    User = {}
    OrigHash <- NoFunction
    OrigSensitive = FALSE
    Client <- Tabs1
    Tab = {}
    SubmittedOps <- SmallOps
    SubmittedBatches <- SmallBatches
    SubmittedGroups = {}
    SaveFaults = {}
    MaxTimeline = 1
    MaxGeneration = 2
    MaxUploads = 0
    MaxEpoch = 2
    MaxTarball = 1
PROPERTIES
    ResumeKeepsBaseline
CHECK_DEADLOCK FALSE
