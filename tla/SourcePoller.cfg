SPECIFICATION FairPollerSpec
CONSTANTS
    cron = cron
    gateway = gateway
    up = up
    down = down
    flat = flat
    Pollers = {cron, gateway}
    Values = {up, down, flat}
    None = None
    MaxChanges = 2
    MaxFailures = 2
INVARIANTS CursorFollowsTheLog
PROPERTY CatchesUp
