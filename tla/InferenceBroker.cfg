SPECIFICATION FairSpec
CONSTANTS
    Callers = {c1, c2, c3}
    BestEffort = {c3}
    Configs <- MCConfigs
INVARIANTS
    CountersMatchThreads
    NoLostWakeup
PROPERTIES
    NoPriorityInversion
    ImplementsGate
    SlotsAreUsed
    ExpiredCallerLeaves
