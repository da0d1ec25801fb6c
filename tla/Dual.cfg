SPECIFICATION FairSpec
CONSTANTS
    Radios = {r1, r2}
    Given = {"c"}
    Station <- MCStation
    Frames <- MCFrames
    Identify = TRUE
    Duration = 1
    BootBy = 1
    MaxFrames = 2
INVARIANTS
    Identity
    EventsAfterIdentity
    Listening
PROPERTIES
    AllJoin
CHECK_DEADLOCK FALSE
