SPECIFICATION FairSpec
CONSTANTS
    k1 = k1
    k2 = k2
    x1 = x1
    x2 = x2
    y = y
    Systems = {k1, k2}
    Home = k1
    Seeds = {x1, x2, y}
    Local <- LocalSeed
    NoSeed = NoSeed
    Nowhere = Nowhere
    MaxSockets = 3
    MaxJumps = 2
    MaxTimeouts = 1
INVARIANTS
    TypeOK
    LinkNeverStuck
    QuiescentAgreement
PROPERTIES
    ArrivalIsAnswered
    ClientReconnects
CHECK_DEADLOCK FALSE
