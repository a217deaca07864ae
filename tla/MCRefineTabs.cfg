SPECIFICATION Spec
CONSTANTS
    NoRepo = "norepo"
    NoRow = "norow"
    t1 = t1
    t2 = t2
    Package <- SmallPackages
    NameOf <- SmallNames
    Section = {}
    SourceRepo <- SmallRepos
    Toggleable = {}
    Enabled = {}
    RepoFile = {}
    GpgKey = {}
    FilesOf <- NoFunction
    KeysOf <- NoFunction
    EnablingFrom <- SmallEnabling
    OwnedPaths <- SmallEnabling
    Group = {"core"}
    Members <- SmallMembers
    Service = {}
    DropIn = {}
    UnitOf <- NoFunction
    Config = {}
    FixedConfig = {}
    PlainItem = {}
    Locked = {"kernel"}
    OrigIncluded = {"curl"}
    User = {"alice"}
    OrigHash <- SmallHash
    OrigSensitive = FALSE
    Client <- Tabs2
    Tab <- Tabs2
    SubmittedOps <- PasswordOps
    SubmittedBatches <- None
    SubmittedGroups = {}
    SaveFaults = {}
    MaxTimeline = 3
    MaxGeneration = 4
    MaxUploads = 1
    MaxEpoch = 1
    MaxTarball = 0
SYMMETRY TabSymmetry
INVARIANTS
    ExportedWasSeen
    FreshSecretAcked
CHECK_DEADLOCK FALSE
