CONSTANTS
    Spans = {s1, s2}
    NoSpan = none
    Nil = nil
    Expirations <- MCExpirations
    TicksPerMilli = 4
SPECIFICATION Spec
PROPERTY
    SendsAsAsked
