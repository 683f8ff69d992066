SPECIFICATION FairJobSpec
CONSTANTS
    MaxAttempts = 3
    MaxFaults = 3
INVARIANTS
    SpawnedOnce
    NoStrandedJob
PROPERTIES
    JobSettles
