SPECIFICATION ReceiveSpec
CONSTANTS
    Chips = {"mt7921", "mt7925"}
    Lens <- MCLens
    Pads <- MCPads
    None = None
    Slack = 1
    Kinds <- MCKinds
    Airs = {2}
    Gap = 4
    TsMod = 64
    CntMod = 16
    Starts <- MCStarts
    MaxFrames = 3
    Depth = 2
INVARIANTS
    InBounds
    Stricter
    SameInterval
    Conserved
    Ppdus
CHECK_DEADLOCK FALSE
