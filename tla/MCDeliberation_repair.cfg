SPECIFICATION Spec
CONSTANTS
    SignalTime = 8
    FireTime = 6
    AnomalyTime = 3
    EvalPeriod = 2
    ControlPeriod = 4
    TransitTime = 8
    MaxSignals = 1
    MaxFires = 1
    MaxJumps = 1
    MaxLosses = 0
INVARIANTS
    RepairFollowsOutcome
