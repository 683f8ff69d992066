SPECIFICATION FairSpec
CONSTANTS
    Retriers = {r1}
    MaxRetries = 3
INVARIANTS
    OneVerdict
PROPERTIES
    ReplayAfterFailure
    CompletedIsFinal
    QueueDrains
CHECK_DEADLOCK FALSE
