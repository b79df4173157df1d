CONSTANTS
    c1 = c1
    c2 = c2
    Caller = {c1, c2}
    MaxTick = 2
    MaxStarts = 2
    MaxCalls = 2
    MaxResets = 1
SPECIFICATION ChaosSpec
INVARIANTS
    ChaosTypeOK
    RunsRepeat
    SparedBounded
