CONSTANTS
    Apps = {a1}
    Queues = {q1}
    Single = {}
    MaxStarts = 1
    MaxFaults = 2
SPECIFICATION RecoverySpec
PROPERTY
    AutomaticReconnect
