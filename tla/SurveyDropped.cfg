SPECIFICATION Spec
CONSTANTS
    None = None
    Slack = 1
    Kinds <- MCKinds
    Airs = {2}
    Gap = 4
    TsMod = 64
    CntMod = 16
    Starts <- MCStarts
    MaxFrames = 2
    Depth = 2
INVARIANTS
    DroppedInside
CHECK_DEADLOCK FALSE
