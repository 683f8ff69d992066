SPECIFICATION FairSpec
CONSTANTS
    Proposals = {p1, p2}
    Tabs = {t1, t2}
    Sweepers = {s1}
    Poison = {p1}
    Limit = 1
    MaxVersions = 2
    MaxFaults = 2
INVARIANTS OnlyWhatWasApproved StateFollowsTheLog
PROPERTY ApprovedIsRealized
