SPECIFICATION Spec
CONSTANTS
    Snapshot <- Fleet
    Selectable = {"files", "unmanaged"}
    Image = {1, 2}
    Tier <- Repos
    MaxFiles = 3
INVARIANTS
    OrderIndependent
    CountsDecide
    LeavesSurvive
CHECK_DEADLOCK FALSE
