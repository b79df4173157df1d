CONSTANTS
    a = a
    b = b
    Entry <- MCEntry
    Size <- MCSize
    HeaderLen = 2
    Chunk = 4
    Blank = Blank
    None = None
    MaxFile = 8
SPECIFICATION Spec
INVARIANTS
    AppendsAtEnd
    AckedKept
PROPERTY ImplementsDurableLog
