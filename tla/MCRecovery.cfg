CONSTANTS
    t1 = t1
    t2 = t2
    h1 = h1
    upper = upper
    NoHash = NoHash
    Zeros = Zeros
    NoEntry = NoEntry
    Trace <- MCTrace
    Hash <- MCHash
    Sized <- MCSized
    Digits <- MCDigits
    Short <- MCShort
    MaxSeq = 2
SYMMETRY Symmetry
SPECIFICATION RecoverySpec
INVARIANTS
    RecoveryTypeOK
    ReplayExact
    ProofExact
    GuardAgrees
    NothingRebuilt
