CONSTANTS
    t1 = t1
    h1 = h1
    NoHash = NoHash
    NoEntry = NoEntry
    Trace <- OneTrace
    Hash <- TwoHashes
    N = 3
    Campaigner = {1, 2}
    MaxTerm = 2
    MaxSeq = 1
SPECIFICATION Spec
INVARIANT CommittedAgree
