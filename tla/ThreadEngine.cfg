SPECIFICATION Spec
CONSTANTS
    dashboard = dashboard
    gateway = gateway
    poller = poller
    Users = {dashboard, gateway}
    Poller = poller
    Routes = {"post", "redirect", "later", "edit", "pick", "note"}
    MaxRequests = 2
    MaxDeaths = 1
SYMMETRY Symmetry
INVARIANTS QuietIsUsersTurn QuietLockIsCurrent OneRunAtATime
CHECK_DEADLOCK FALSE
