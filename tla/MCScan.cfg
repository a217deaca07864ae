SPECIFICATION FairSpec
CONSTANTS
    Inspector <- Inspectors
    Rank <- Ranks
    Rpm = "Rpm"
    Wave1 = {"Rpm", "Subscription"}
    Applicable = {"Rpm", "Services", "Config", "Subscription"}
INVARIANTS
    ReportIsWhole
    ExitIsHonest
    Wave2SeesRpm
PROPERTIES
    ScanEnds
CHECK_DEADLOCK FALSE
