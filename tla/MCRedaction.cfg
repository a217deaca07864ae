SPECIFICATION Spec
CONSTANTS
    Snapshots <- MCSnapshots
    Surfaces <- MCSurfaces
    Allowlisted = {"pam"}
    MaxText = 4
    MaxCmdline = 4
INVARIANTS
    SecretsReplaced
    SameStaysSame
    LabelHonest
