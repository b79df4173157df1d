CONSTANTS
    p1 = p1
    p2 = p2
    Thread = {p1, p2}
    Free = Free
    Epoch = {0, 1}
    Modulus = 8
    MaxTarget = 3
    MaxTick = 3
SPECIFICATION Spec
INVARIANTS
    TypeOK
    TicksIncrease
PROPERTIES
    SnapshotRestores
    TickServed
