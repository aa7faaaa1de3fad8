CONSTANTS
    Batches <- ShortBatches
    TicksPerMilli = 3
    Half = 8
    MaxCalls = 1
    MaxFaults = 0
    MaxDeletions = 0
SPECIFICATION Spec
CHECK_DEADLOCK FALSE
INVARIANT
    ShortestDelay
