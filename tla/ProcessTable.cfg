SPECIFICATION Spec
CONSTANTS
    c1 = c1
    c2 = c2
    p1 = p1
    p2 = p2
    Caller <- TwoCallers
    Pid <- TwoPids
    Limit = 1
    MaxTime = 2
    MaxStarts = 1
    MaxFaults = 1
SYMMETRY CallerPidSymmetry
INVARIANTS
    TypeOK
    NeverOvercredited
    LockDiscipline
    OverCoreOnlyByDelay
PROPERTIES
    RowsAreExact
    ImplementsExchange
