SPECIFICATION Spec
CONSTANTS
    p1 = p1
    p2 = p2
    ws = ws
    sse = sse
    Publishers = {p1, p2}
    Sockets = {ws}
    Streams = {sse}
    Buffer = 1
    MaxEvents = 2
CHECK_DEADLOCK FALSE
INVARIANTS
    DeliversInOrder
    ConnectedMissesNothing
PROPERTIES
    PublishingEnds
