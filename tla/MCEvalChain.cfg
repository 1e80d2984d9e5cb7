SPECIFICATION Spec
CONSTANTS
    Contracts = {c1, c2}
    FirstContract = c1
    Actions = {a1}
    StoreKind = "postgres"
    TableHasPlayer = TRUE
    MaxTick = 3
    MaxSessions = 3
    MaxBounces = 1
    MaxClientRestarts = 1
    MaxInstalls = 1
INVARIANTS
    TypeOK
    AcceptedInOrder
    StoreMirrorsHeads
    VerifiedOnce
    HeadNotBehindStore
    RejectionNeedsMishap
CHECK_DEADLOCK FALSE
