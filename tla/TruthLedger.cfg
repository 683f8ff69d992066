SPECIFICATION Spec
CONSTANTS
    Claims = {a, b, c}
    People = {p, q}
    RedactsEnded = TRUE
    Rooms <- MCRooms
INVARIANTS
    AuditIsClean
    LineageHasOneHead
    ResolversAgree
PROPERTY SupersededInSight
CHECK_DEADLOCK FALSE
SYMMETRY Symmetry
