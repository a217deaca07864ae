SPECIFICATION Spec
CONSTANTS
    NoRepo = "norepo"
    NoRow = "norow"
    t1 = t1
    t2 = t2
    Package <- RepoPackages
    NameOf <- RepoNames
    Section <- RepoSections
    SourceRepo <- RepoSource
    Toggleable = {"A", "B"}
    Enabled <- RepoSections
    RepoFile = {"ab.repo", "b.repo", "base.repo"}
    GpgKey = {"shared.key"}
    FilesOf <- RepoFilesOf
    KeysOf <- RepoKeysOf
    EnablingFrom <- RepoEnablingFrom
    OwnedPaths <- RepoOwned
    Group = {"G"}
    Members <- RepoGroups
    Service = {"httpd", "firewalld"}
    DropIn = {"d1", "d2", "d3", "d4"}
    UnitOf <- SvcUnits
    Config = {"app.conf", "link.conf"}
    FixedConfig = {"link.conf"}
    PlainItem = {"vm.swappiness"}
    Locked = {"b2", "firewalld", "d4"}
    OrigIncluded <- ProjIncluded
    User = {}
    OrigHash <- NoFunction
    OrigSensitive = FALSE
    Client <- Tabs1
    Tab = {}
    SubmittedOps <- ProjOps
    SubmittedBatches <- ProjBatches
    SubmittedGroups = {"G"}
    SaveFaults = {}
    MaxTimeline = 3
    MaxGeneration = 4
    MaxUploads = 0
    MaxEpoch = 1
    MaxTarball = 0
INVARIANTS
    CarriedFollowsSections
    RenderStateSound
    LockedStaysOut
    DropInsFollowService
PROPERTIES
    RecordedOpsMatter
CHECK_DEADLOCK FALSE
