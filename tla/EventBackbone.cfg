SPECIFICATION FairSpec
CONSTANTS
    demo = demo
    action = action
    ping = ping
    changed = changed
    moved = moved
    Roster <- MCRoster
    Ids = {ping, changed, moved}
    Handles <- MCHandles
    Gated <- MCGated
    MaxAttempts = 2
    ReadLimit = 2
    MaxRows = 2
    MaxCrashes = 2
    MaxFaults = 1
INVARIANT OffsetNeverSkips
PROPERTIES RunsOnceUnlessFault ImplementsLog DeliveredInOrder EventuallySettled
