SPECIFICATION Spec
CONSTANTS
    c1 = c1
    c2 = c2
    p1 = p1
    p2 = p2
    Caller <- TwoCallers
    Pid <- OnePid
    Limit = 1
    MaxTime = 3
    MaxStarts = 0
    MaxFaults = 0
INVARIANTS
    OneThreadWithinOneCore
