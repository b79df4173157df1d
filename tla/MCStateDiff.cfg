CONSTANTS
    a = a
    b = b
    p1 = p1
    p2 = p2
    w1 = w1
    w2 = w2
    NoHash = NoHash
    NoData = NoData
    None = None
    State = {a, b}
    Pairs <- MCPairs
    Comparer = {p1, p2}
    Writer = {w1, w2}
    Number = {1, 2}
    Hash = {NoHash, h1, h2}
    Content = {NoData, c1}
    MaxSeq = 1
    MaxWrites = 2
SPECIFICATION Spec
INVARIANT TypeOK
PROPERTIES
    ReportsWereSo
    ComparesEnd
CHECK_DEADLOCK FALSE
