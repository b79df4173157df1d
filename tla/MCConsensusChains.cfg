CONSTANTS
    t1 = t1
    h1 = h1
    NoHash = NoHash
    NoEntry = NoEntry
    Trace <- OneTrace
    Hash <- TwoHashes
    N = 2
    Campaigner = {1, 2}
    MaxTerm = 2
    MaxSeq = 2
SPECIFICATION Spec
INVARIANTS
    TypeOK
    ReplicasSound
    AcksAreKept
    OnlyCommitsExtend
