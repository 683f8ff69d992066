SPECIFICATION Spec
SYMMETRY Symmetry
CONSTANTS
    Clusters = {c1, c2}
    Extras = {x1}
    Items = {i1}
    Workers = {w1, w2}
    Runner = runner
    Ends = {"done", "dismissed", "cleaned"}
    Requests = {"dismiss", "note", "later", "add", "delete", "move"}
    MaxDisturbances = 1
INVARIANTS
    FamilyCloses
    DoneMeansEnded
    LockIsCurrent
    ItemsStayInTheFamily
CHECK_DEADLOCK FALSE
