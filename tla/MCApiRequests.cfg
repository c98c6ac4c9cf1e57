SPECIFICATION Spec
CONSTANTS
    Requests = {r1, r2}
    Commands = {c1}
    Sockets = {s1}
    None = None
    MaxSize = 1
    Tokens = 1
    Refusals = {"ProviderUnavailableError", "Exception"}
    HttpKinds <- MCHttpKinds
    SocketKinds <- MCSocketKinds
CHECK_DEADLOCK FALSE
PROPERTIES
    SpeechLetsAllEnd
    StarvedOnlyByWaiters
INVARIANT
    AnswersHonest
