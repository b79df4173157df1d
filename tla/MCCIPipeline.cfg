CONSTANTS
    a = a
    b = b
    h = h
    k = k
    TraceID = {a, b}
    Hash = {h, k}
    Modulus = 3
    Given <- MCGiven
    Specs = 2
    MaxChecks = 2
SPECIFICATION CISpec
INVARIANTS
    PipelineTypeOK
    VerdictExact
    GateHearsGoTestsOnly
PROPERTY PipelineEnds
CHECK_DEADLOCK FALSE
