SPECIFICATION ProgressSpec
CONSTANTS
    u1 = u1
    u2 = u2
    t1 = t1
    t2 = t2
    Utt = {u1, u2}
    Threads = {t1, t2}
    None = None
    MaxSize = 2
    HistorySize = 1
    MaxChunks = 2
PROPERTIES
    RefinesSpeechQueue
    AcceptedEnds
    AwaitAnswered
    CloseEndsWorker
