SPECIFICATION Spec
CONSTANTS
    NumCpus = 3
    MaxTicks = 2
    MaxPlugs = 1
    MaxCorrections = 1
    MaxFaults = 1
INVARIANTS
    TypeOK
    AggregateIsShare
    CoresAddUp
    CoreLoadsAreOfOneCpu
