SPECIFICATION RetentionSpec
CONSTANTS
    demo = demo
    action = action
    ping = ping
    changed = changed
    Roster <- MCRoster
    Ids = {ping, changed}
    Handles <- MCHandles
    Gated = {}
    SpelledSeq <- MCSpelledSeq
    MaxAttempts = 1
    ReadLimit = 2
    MaxRows = 2
    MaxCrashes = 1
    MaxFaults = 0
    MaxSweeps = 2
INVARIANTS UndeliveredIsNotDoomed DeadLetterIsNotDoomed
