SPECIFICATION Spec
CONSTANTS
    Host <- MCHost
    Baseline <- MCBaseline
    BaseKnown = TRUE
    Aggregate = FALSE
    InitIncludes <- MCInit
    Asked <- MCAsked
    MaxDecisions = 2
    MaxUploads = 1
    MaxFaults = 1
    MaxExports = 1
    MaxOpens = 1
INVARIANTS TreeMatchesCopies ExcludedStaysOut BuildOrder PackageOneRoute BootNeedsMet PreviewButGroups
CHECK_DEADLOCK FALSE
