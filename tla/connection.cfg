CONSTANTS
    Apps = {a1}
    Queues = {q1, q2}
    Single = {}
    MaxStarts = 2
    MaxFaults = 2
SPECIFICATION FairSpec
INVARIANTS
    Supervised
    SingleReconnect
    Restored
    ConsumerBound
    NoLinkAfterInterrupt
    ShutdownClean
PROPERTIES
    DropsOnlyAtHandover
    GoroutinesEnd
    Recovers
