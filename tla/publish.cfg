CONSTANTS
    Publishers = {p1, p2}
    Cancellable <- MCCancellable
    Channels = {c1, c2}
    MaxConns = 2
    BatchSize <- MCBatchSize
    NoChannel = NoChannel
    Nobody = Nobody
SPECIFICATION FairSpec
CHECK_DEADLOCK FALSE
INVARIANTS
    AckedInOrder
    WritesOnLoan
PROPERTIES
    InterruptReturns
    CancelReturns
    PublishReturns
    CancelBreaksOwn
    PoolsUsedAsSpecified
