CONSTANTS
    Publishers = {p1, p2}
    Closers = {k1}
    Channels = {c1, c2}
    Size = 1
    MaxPoolSize = 1
    NoChannel = NoChannel
    Nobody = Nobody
SPECIFICATION PatientSpec
CHECK_DEADLOCK FALSE
PROPERTY
    WaiterServed
