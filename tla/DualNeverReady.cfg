SPECIFICATION Spec
CONSTANTS
    Radios = {r1, r2, r3}
    Given = {}
    Station <- MCStation
    Frames <- MCFrames
    Identify = FALSE
    Duration = 2
    BootBy = 2
    MaxFrames = 0
INVARIANTS
    NeverReadyExcluded
CHECK_DEADLOCK FALSE
