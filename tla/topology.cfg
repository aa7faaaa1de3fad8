CONSTANTS
    Batches <- MCBatches
    TicksPerMilli = 3
    Half = 8
    MaxCalls = 2
    MaxFaults = 2
    MaxDeletions = 1
SPECIFICATION FairSpec
CHECK_DEADLOCK FALSE
INVARIANTS
    DeadLetterReady
    Kept
    Complete
    ReplayAccepted
    DelayKept
PROPERTY
    Restores
