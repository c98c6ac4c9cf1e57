SPECIFICATION Spec
CONSTANTS
    u1 = u1
    u2 = u2
    t1 = t1
    t2 = t2
    Utt = {u1, u2}
    Threads = {t1, t2}
    None = None
    MaxSize = 1
    HistorySize = 2
    MaxChunks = 2
SYMMETRY MCSymmetry
INVARIANT
    StopReachesClip
