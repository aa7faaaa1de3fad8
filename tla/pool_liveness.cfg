CONSTANTS
    Publishers = {p1, p2}
    Closers = {k1}
    Channels = {c1, c2, c3}
    Size = 1
    MaxPoolSize = 2
    NoChannel = NoChannel
    Nobody = Nobody
SPECIFICATION FairSpec
CHECK_DEADLOCK FALSE
PROPERTIES
    GetReturns
    CloseReleasesAll
