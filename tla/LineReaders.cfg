SPECIFICATION Spec
CONSTANTS
    Layouts <- OrdinaryLayouts
    Contents <- AllContents
    Vendor = "1002"
    Device = "1586"
    MaxTransfers = 3
INVARIANTS
    TypeOK
    CountersAreWhole
    DisksAreListedOnce
    LinesAreUnderstood
