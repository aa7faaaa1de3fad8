CONSTANTS
    Workers = {w1, w2}
    Limits <- MCLimits
    MaxFaults = 2
SPECIFICATION FairSpec
CHECK_DEADLOCK FALSE
INVARIANTS
    NoLoss
    DeadOnlyExhausted
    FaultFreeBound
PROPERTIES
    ImplementsAtLeastOnce
    Settles
