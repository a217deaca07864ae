SPECIFICATION FairSpec
CONSTANTS
    r1 = r1
    r2 = r2
    x1 = x1
    Nobody = nobody
    Package <- Packages
    File <- Files
    Rank <- Ranks
    NoPackage = "nopackage"
    MatchOf <- Matches
    NevraOf <- Nevras
    OrigEntry <- Entries
    Request <- Requests
    Exporter <- Exporters
    Faults = {"unlink", "rename", "rescan", "link"}
    Link = link
    MaxContent = 3
    MaxEpoch = 2
INVARIANTS
    DirectoryMatches
    OnlyWriter
    RemovalRestores
    ExportsOnlyUploads
PROPERTIES
    RequestsFinish
CHECK_DEADLOCK FALSE
