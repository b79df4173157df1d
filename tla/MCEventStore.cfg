CONSTANTS
    t1 = t1
    t2 = t2
    h1 = h1
    NoHash = NoHash
    NoEntry = NoEntry
    Trace <- MCTrace
    Hash <- MCHash
    MaxSeq = 3
SPECIFICATION Spec
INVARIANTS
    TypeOK
    StoreSound
PROPERTY ImplementsTraceChains
