SPECIFICATION Spec
CONSTANTS
    r1 = r1
    r2 = r2
    a1 = a1
    None = None
    Requests = {r1, r2}
    Accounts = {a1}
    NumSystem = 1
    NumNames = 3
    NumSeeded = 1
    NumPermissionNames = 2
    DefaultGrants <- EveryPermission
    MaxRole = 2
    MaxPermission = 1
    MaxLogin = 2
SYMMETRY OfficeSymmetry
CONSTRAINT Bounded
INVARIANTS
    TypeOK
    RolesStand
PROPERTY OverwrittenOnlyByOverlap
CHECK_DEADLOCK FALSE
