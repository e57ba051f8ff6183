SPECIFICATION Spec
CONSTANTS
    Layouts <- TwoDisks
    Contents <- DiskContents
    Vendor = "1002"
    Device = "1586"
    MaxTransfers = 2
INVARIANTS
    EveryDiskIsCounted
