SPECIFICATION Spec
CONSTANTS
    MaxCard = 2
    LastCard = 1
    LastHwmon = 1
    Asic <- BothKinds
    Foreign <- OtherVendor
    MaxVram = 1
    MaxChanges = 2
INVARIANTS
    TypeOK
    OneCardPerReading
    SteadyCardIsComplete
    SteadyCardIsFound
    VramFits
    SteadyBatteryIsShown
