CONSTANTS
    Publishers = {p1, p2, p3, p4}
    Closers = {k1, k2}
    Channels = {c1, c2, c3, c4}
    Size = 2
    MaxPoolSize = 3
    NoChannel = NoChannel
    Nobody = Nobody
SPECIFICATION Spec
SYMMETRY Symmetry
CHECK_DEADLOCK FALSE
INVARIANTS
    TypeOK
    SizeAccounting
    ChannelBound
    ExclusiveUse
    NoLeak
    ClosedDrained
PROPERTY
    PoolImplementsLender
