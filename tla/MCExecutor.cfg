SPECIFICATION Spec
CONSTANTS
    PipeSize = 1
    SizeCap = 1
    MaxOut = 3
    MaxErr = 2
INVARIANT
    ResultHonest
PROPERTY
    ExecEnds
CHECK_DEADLOCK FALSE
