SPECIFICATION FairSpec
CONSTANTS
    t1 = t1
    t2 = t2
    Stoppers = {t1, t2}
    MaxClips = 2
CHECK_DEADLOCK FALSE
INVARIANTS
    LeavesNothing
PROPERTIES
    KeepsContract
    TellsTheTruth
    StopEndsPlay
