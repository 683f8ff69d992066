SPECIFICATION Spec
CONSTANTS
    Targeted = {t1, t2}
    Plain = {p1}
    Replies = {m1, m2}
    Models = {a, b}
    Nothing = Nothing
    MaxGen = 2
    MaxFaults = 1
SYMMETRY Symmetry
INVARIANTS AckedTurnWasAnswered NothingSkipped NoStrayDriver
PROPERTY StaysRevoked
CHECK_DEADLOCK FALSE
