SPECIFICATION Spec
CONSTANTS
    Accounts = {a1}
    Budget = 7
    Capacity = 5
    Refill = 2
    CallTimeout = 3
    Window = 3
INVARIANTS
    TypeOK
    InFlightBounded
    OvershootBounded
    RefusalsAreFree
