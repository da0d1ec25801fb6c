SPECIFICATION FairSpec
CONSTANTS
    SeqMod = 3
    MaxSends = 3
    RxDepth = 2
    CounterMod = 2
INVARIANTS
    TypeOK
    Numbered
    Attributed
    Accounted
PROPERTIES
    WaitEnds
    ImplementsService
