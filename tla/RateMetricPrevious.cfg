SPECIFICATION Spec
CONSTANTS
    c1 = c1
    c2 = c2
    f1 = f1
    Caller <- TwoCallers
    Field <- OneCounter
    MaxTime = 2
    MaxCount = 2
    MaxFaults = 0
INVARIANTS
    StoredIsPrevious
