CONSTANTS
    Apps = {a1}
    Queues = {q1}
    Single = {q1}
    MaxStarts = 2
    MaxFaults = 1
SPECIFICATION RecoverySpec
PROPERTY
    Recovers
