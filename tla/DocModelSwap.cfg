SPECIFICATION Spec
CONSTANTS
    t1 = t1
    t2 = t2
    Threads = {t1, t2}
    Provider = "kokoro"
    MaxSwaps = 2
PROPERTY
    HitIsCurrent
