SPECIFICATION Spec
CONSTANTS
    plate = plate
    spare = spare
    red = red
    blue = blue
    Files <- TwoFiles
    SlotsOf <- PlateOnly
    MaxTray = 2
    Loads <- SomeLoads
    Spools = {s1}
    Full = 2
    NoFile = NoFile
    NoTray = NoTray
    NoSpool = NoSpool
    NoColor = NoColor
    NoBase = NoBase
    MaxPrints = 2
    MaxFaults = 1
    MaxDrops = 1
    MaxSwaps = 1
INVARIANTS OnePathPerTray OneSlotPerTray RebilledOnlyBehindNextPrint BaselineHasItsJob
CHECK_DEADLOCK FALSE
