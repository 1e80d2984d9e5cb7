SPECIFICATION TicksSpec
CONSTANTS
    client = client
    Missing = Missing
    Torn = Torn
    Clients = {client}
    SnapshotEvery = 2
    Capacity = 2
    Room = 3
    MaxTicks = 5
    MaxOwnTicks = 2
    MaxConnects = 2
    MaxCrashes = 2
INVARIANTS
    TicksTypeOK
    EveryTickReplayedOnce
    RewindBounded
CHECK_DEADLOCK FALSE
