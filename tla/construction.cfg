CONSTANTS
    SDKs = {s1, s2, s3}
    Namespaces = {"huma", "other"}
    Collectors <- MCCollectors
    LabelNames = {"", "tenant", "queue_name"}
    Invalid = {"queue_name"}
    Application = application
    Nobody = nobody
SPECIFICATION Spec
CHECK_DEADLOCK FALSE
SYMMETRY Symmetry
INVARIANTS
    FailedLeavesNothing
    ServingIsWhole
    SomebodyWins
