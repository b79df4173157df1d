CONSTANTS
    N = 3
    Events = 7
SPECIFICATION Spec
INVARIANTS
    TypeOK
    RunSucceeds
    ConvergenceIsExact
PROPERTY NeverCatchesUp
\* RunLongTerm returns.
CHECK_DEADLOCK FALSE
