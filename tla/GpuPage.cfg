SPECIFICATION GpuFairSpec
CONSTANTS
    MaxCard = 1
    MaxChanges = 2
    MaxClicks = 3
    MaxUpdates = 3
INVARIANTS
    GpuTypeOK
    NamesItsFigures
    ClickLeavesWindow
PROPERTIES
    FiguresCatchUp
