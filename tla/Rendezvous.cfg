SPECIFICATION Spec
CONSTANTS
    Plans <- MCPlans
    Burst = 2
    MaxThreads = 5
INVARIANTS
    Conclusive
PROPERTIES
    BurstHeard
    Ends
CHECK_DEADLOCK FALSE
