SPECIFICATION Spec
CONSTANTS
    Contracts = {c1}
    FirstContract = c1
    Actions = {a1}
    StoreKind = "none"
    TableHasPlayer = TRUE
    MaxTick = 3
    MaxSessions = 2
    MaxBounces = 1
    MaxClientRestarts = 0
    MaxInstalls = 0
INVARIANTS
    RejectionNeedsMishap
CHECK_DEADLOCK FALSE
