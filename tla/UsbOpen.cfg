SPECIFICATION Spec
CONSTANTS
    None = None
    c1 = c1
    c2 = c2
    u1 = u1
    u2 = u2
    u3 = u3
    u4 = u4
    u5 = u5
    p1 = p1
    p2 = p2
    legacy = legacy
    other = other
    foreign = foreign
    Caller = {c1, c2}
    Unit = {u1, u2, u3, u4, u5}
    Port = {p1, p2}
    Desc <- MCDesc
    Supported <- MCSupported
    ChipIds <- MCChipIds
    NBulkIn = 1
    NBulkOut = 2
    MaxPlugs = 3
    Jobs <- MCJobs
    Envs <- MCEnvs
INVARIANTS
    RightAdapter
    RadiosApart
    HeldExactly
PROPERTY AbsentIsAbsent
CHECK_DEADLOCK FALSE
