SPECIFICATION FairProbe
CONSTANTS
    Chips = {"mt7921", "mt7925"}
    Caller = "careful"
    MaxTx = 2
    Spacing = 2
    MaxAir = 3
    DwellTicks = 4
    Lead = 1
INVARIANTS
    HonestExit
    ReloadTried
PROPERTIES
    Terminates
    CarefulCaller
CHECK_DEADLOCK FALSE
