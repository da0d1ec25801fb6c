SPECIFICATION Spec
CONSTANTS
    Chips = {"mt7921", "mt7925"}
    Caller = "careful"
    MaxTx = 2
    Spacing = 2
    MaxAir = 3
INVARIANTS
    BootLimit
    Believed
    ReloadOwed
    GuardHonest
PROPERTIES
    PacedAndPlaced
