------------------------------ MODULE EventStream ------------------------------
(***************************************************************************)
(* core/events.py, api/event_bridge.py, the endpoint of api/websocket.py   *)
(* and GET /v1/events of api/http.py: how events get from the threads that *)
(* publish them to the clients.                                            *)
(*                                                                         *)
(* publish() copies the handlers under a lock and calls them on its own    *)
(* thread; the handler of a connection hands the event to the event loop   *)
(* with call_soon_threadsafe; there offer() puts it into the bounded queue *)
(* of the connection, whose task takes it out and sends it.  Each action   *)
(* is one critical section, one callback of the loop, or what a task does  *)
(* between two awaits.                                                     *)
(*                                                                         *)
(* Events are numbered in the order in which publish() copies the handlers.*)
(* Left out: payloads, heartbeats (they touch no queue) and handlers other *)
(* than those of connections.                                              *)
(*                                                                         *)
(* A definition marked "Mutant" is not part of the model: it is a bug that *)
(* the definition after it could have had, and that a property catches.    *)
(***************************************************************************)
EXTENDS Naturals, SequencesExt

CONSTANTS
    Publishers,     \* the threads that publish: the worker and API threads
    Sockets,        \* WebSocket connections
    Streams,        \* GET /v1/events requests
    Buffer,         \* DEFAULT_BUFFER
    MaxEvents       \* bound: how many events are published

ASSUME ClientsAssumption == Sockets \cap Streams = {}
ASSUME BufferAssumption == Buffer \in Nat \ {0}
ASSUME EventsAssumption == MaxEvents \in Nat

Clients == Sockets \cup Streams

VARIABLES
    handlers,       \* EventBus._handlers
    event,          \* per publisher: the event it delivers, or 0
    left,           \* per publisher: the handlers it has yet to call
    loop,           \* the event loop is "running" or "closed"
    ready,          \* the callbacks offer(queue, event) the loop has yet to run
    buffer,         \* per client: its asyncio.Queue
    conn,           \* per client: how far its endpoint is
    task,           \* per client: what the task that sends its events does
    \* history variables, for the properties only
    count,          \* how many events were published
    author,         \* per event: the thread that published it
    offered,        \* per client: the events offered to its queue
    taken,          \* per client: the events taken from its queue
    since           \* per client: count when it knew it was connected, or None

busVars == <<handlers, event, left, count, author>>
queueVars == <<ready, buffer, offered, taken>>
clientVars == <<conn, task, since>>
vars == <<busVars, loop, queueVars, clientVars>>

None == MaxEvents + 1

Init ==
    /\ handlers = <<>>
    /\ event = [p \in Publishers |-> 0]
    /\ left = [p \in Publishers |-> <<>>]
    /\ loop = "running" /\ ready = <<>>
    /\ buffer = [c \in Clients |-> <<>>]
    /\ conn = [c \in Clients |-> "none"]
    /\ task = [c \in Clients |-> "none"]
    /\ count = 0 /\ author = <<>>
    /\ offered = [c \in Clients |-> <<>>]
    /\ taken = [c \in Clients |-> <<>>]
    /\ since = [c \in Clients |-> None]

Set(f, c, v) == [f EXCEPT ![c] = v]

-----------------------------------------------------------------------------
(* EventBus *)

\* publish(): the handlers are copied under the lock.
Publish(p) ==
    /\ event[p] = 0 /\ count < MaxEvents
    /\ count' = count + 1
    /\ author' = Append(author, p)
    /\ event' = Set(event, p, count + 1)
    /\ left' = Set(left, p, handlers)
    /\ UNCHANGED <<handlers, loop, queueVars, clientVars>>

\* Mutant: the publishing thread waits for room in the queue of the client.
ForwardWhenRoom(p) ==
    /\ event[p] # 0 /\ left[p] # <<>>
    /\ Len(buffer[Head(left[p])]) < Buffer
    /\ ready' = Append(ready, <<Head(left[p]), event[p]>>)
    /\ left' = Set(left, p, Tail(left[p]))
    /\ UNCHANGED <<handlers, event, count, author, loop, buffer, offered, taken,
                   clientVars>>

\* The next handler is called, outside the lock: forward() hands the event to
\* the loop, and drops it when the loop is closed.
Forward(p) ==
    /\ event[p] # 0 /\ left[p] # <<>>
    /\ ready' = IF loop = "running"
                THEN Append(ready, <<Head(left[p]), event[p]>>) ELSE ready
    /\ left' = Set(left, p, Tail(left[p]))
    /\ UNCHANGED <<handlers, event, count, author, loop, buffer, offered, taken,
                   clientVars>>

PublishReturns(p) ==
    /\ event[p] # 0 /\ left[p] = <<>>
    /\ event' = Set(event, p, 0)
    /\ UNCHANGED <<handlers, left, count, author, loop, queueVars, clientVars>>

Subscribe(c) == handlers' = Append(handlers, c)

\* Unsubscribing twice is harmless.
Unsubscribe(c) == handlers' = RemoveFirst(handlers, c)

-----------------------------------------------------------------------------
(* The event loop and the queues *)

\* offer(): a full queue loses its oldest event.
Offer(queue, e) == Append(IF Len(queue) < Buffer THEN queue ELSE Tail(queue), e)

\* The loop runs the callback that was scheduled first.
RunReady ==
    /\ loop = "running" /\ ready # <<>>
    /\ LET c == Head(ready)[1]  e == Head(ready)[2]
       IN  /\ ready' = Tail(ready)
           /\ buffer' = Set(buffer, c, Offer(buffer[c], e))
           /\ offered' = Set(offered, c, Append(offered[c], e))
    /\ UNCHANGED <<busVars, loop, taken, clientVars>>

\* The server shuts down while threads still publish.
LoopCloses ==
    /\ loop = "running"
    /\ loop' = "closed"
    /\ UNCHANGED <<busVars, queueVars, clientVars>>

\* The task of a connection takes the oldest event and sends it; one that the
\* types of a stream leave out is not sent.
Take(c) ==
    /\ loop = "running"
    /\ conn[c] = "open" /\ task[c] = "get" /\ buffer[c] # <<>>
    /\ buffer' = Set(buffer, c, Tail(buffer[c]))
    /\ taken' = Set(taken, c, Append(taken[c], Head(buffer[c])))
    /\ \/ task' = Set(task, c, "send")
       \/ c \in Streams /\ UNCHANGED task
    /\ UNCHANGED <<busVars, loop, ready, offered, conn, since>>

\* A slow client is one whose sends take long.
Sent(c) ==
    /\ loop = "running"
    /\ conn[c] = "open" /\ task[c] = "send"
    /\ task' = Set(task, c, "get")
    /\ UNCHANGED <<busVars, loop, queueVars, conn, since>>

-----------------------------------------------------------------------------
(* WebSocket: websocket_endpoint *)

\* accept() is awaited: the client knows of its connection before the endpoint
\* has subscribed.
Accept(c) ==
    /\ loop = "running"
    /\ c \in Sockets /\ conn[c] = "none"
    /\ conn' = Set(conn, c, "accepted")
    /\ UNCHANGED <<busVars, loop, queueVars, task, since>>

\* The endpoint goes on: it subscribes and starts the task that sends.
SocketSubscribe(c) ==
    /\ loop = "running"
    /\ c \in Sockets /\ conn[c] = "accepted"
    /\ Subscribe(c)
    /\ conn' = Set(conn, c, "open")
    /\ task' = Set(task, c, "get")
    /\ UNCHANGED <<event, left, count, author, loop, queueVars, since>>

\* A command is answered, for the first time.
Answer(c) ==
    /\ loop = "running"
    /\ c \in Sockets /\ conn[c] = "open" /\ since[c] = None
    /\ since' = Set(since, c, count)
    /\ UNCHANGED <<busVars, loop, queueVars, conn, task>>

\* The task that sends dies of an exception, which nobody sees until the end.
SendFails(c) ==
    /\ loop = "running"
    /\ c \in Sockets /\ conn[c] = "open" /\ task[c] = "send"
    /\ task' = Set(task, c, "failed")
    /\ UNCHANGED <<busVars, loop, queueVars, conn, since>>

\* Mutant: the finally clause awaits the sender, which may raise what it died
\* of, before it unsubscribes.
AwaitSenderFirst(c) ==
    /\ loop = "running"
    /\ c \in Sockets /\ conn[c] = "open"
    /\ IF task[c] = "failed" THEN UNCHANGED handlers ELSE Unsubscribe(c)
    /\ conn' = Set(conn, c, "gone")
    /\ task' = Set(task, c, "none")
    /\ UNCHANGED <<event, left, count, author, loop, queueVars, since>>

\* The client leaves, or a command fails: the finally clause.
SocketEnds(c) ==
    /\ loop = "running"
    /\ c \in Sockets /\ conn[c] = "open"
    /\ Unsubscribe(c)
    /\ conn' = Set(conn, c, "gone")
    /\ task' = Set(task, c, "none")
    /\ UNCHANGED <<event, left, count, author, loop, queueVars, since>>

-----------------------------------------------------------------------------
(* GET /v1/events: events() and sse_event_stream() *)

\* Mutant: the subscription is left to the generator.
StreamSubscribesLater(c) ==
    /\ loop = "running"
    /\ c \in Streams /\ conn[c] = "none"
    /\ conn' = Set(conn, c, "created")
    /\ UNCHANGED <<busVars, loop, queueVars, task, since>>

\* The route subscribes before it returns the response.
StreamSubscribe(c) ==
    /\ loop = "running"
    /\ c \in Streams /\ conn[c] = "none"
    /\ Subscribe(c)
    /\ conn' = Set(conn, c, "created")
    /\ UNCHANGED <<event, left, count, author, loop, queueVars, task, since>>

\* The generator starts: the headers and ": connected" reach the client.
StreamStarts(c) ==
    /\ loop = "running"
    /\ c \in Streams /\ conn[c] = "created"
    /\ conn' = Set(conn, c, "open")
    /\ task' = Set(task, c, "get")
    /\ since' = Set(since, c, count)
    /\ UNCHANGED <<busVars, loop, queueVars>>

\* The client leaves: the generator is cancelled and its finally clause runs.
StreamEnds(c) ==
    /\ loop = "running"
    /\ c \in Streams /\ conn[c] = "open"
    /\ Unsubscribe(c)
    /\ conn' = Set(conn, c, "gone")
    /\ task' = Set(task, c, "none")
    /\ UNCHANGED <<event, left, count, author, loop, queueVars, since>>

\* The client leaves before the generator has started: a generator that never
\* ran has no finally clause to run.
StreamAbandoned(c) ==
    /\ loop = "running"
    /\ c \in Streams /\ conn[c] = "created"
    /\ conn' = Set(conn, c, "abandoned")
    /\ UNCHANGED <<busVars, loop, queueVars, task, since>>

-----------------------------------------------------------------------------

Bus(p) == Publish(p) \/ Forward(p) \/ PublishReturns(p)

Connection(c) ==
    \/ Take(c) \/ Sent(c)
    \/ Accept(c) \/ SocketSubscribe(c) \/ Answer(c) \/ SendFails(c) \/ SocketEnds(c)
    \/ StreamSubscribe(c) \/ StreamStarts(c) \/ StreamEnds(c) \/ StreamAbandoned(c)

Next ==
    \/ \E p \in Publishers : Bus(p)
    \/ RunReady \/ LoopCloses
    \/ \E c \in Clients : Connection(c)

\* A thread that has begun to publish goes on.  Nothing is assumed of the event
\* loop and of the clients.
Spec ==
    /\ Init /\ [][Next]_vars
    /\ \A p \in Publishers : WF_vars(Forward(p) \/ PublishReturns(p))

-----------------------------------------------------------------------------
(* Properties *)

\* Every variable keeps its type, and the queue of a client its limit.
TypeOK ==
    /\ handlers \in Seq(Clients)
    /\ event \in [Publishers -> 0..MaxEvents]
    /\ left \in [Publishers -> Seq(Clients)]
    /\ loop \in {"running", "closed"}
    /\ ready \in Seq(Clients \X (1..MaxEvents))
    /\ buffer \in [Clients -> Seq(1..MaxEvents)]
    /\ \A c \in Clients : Len(buffer[c]) <= Buffer
    /\ conn \in [Clients -> {"none", "accepted", "created", "open", "gone", "abandoned"}]
    /\ task \in [Clients -> {"none", "get", "send", "failed"}]
    /\ count \in 0..MaxEvents /\ author \in Seq(Publishers)
    /\ since \in [Clients -> 0..None]

Events(callbacks, c) == {callbacks[i][2] : i \in {j \in DOMAIN callbacks : callbacks[j][1] = c}}

\* A client that falls behind loses the oldest events only, and only while its
\* queue is full: what is queued is always the latest that was offered, and as
\* long as there is room nothing is missing between what was taken and that.
OldestDropped ==
    \A c \in Clients :
        LET n == Len(offered[c])  q == Len(buffer[c])
        IN  /\ buffer[c] = SubSeq(offered[c], n - q + 1, n)
            /\ q < Buffer /\ n > q =>
                  taken[c] # <<>> /\ Last(taken[c]) = offered[c][n - q]

\* A client is given the events of one thread in the order in which the thread
\* published them, each at most once (between threads the order is best-effort).
SameThreadInOrder ==
    \A c \in Clients : \A i, j \in DOMAIN taken[c] :
        i < j /\ author[taken[c][i]] = author[taken[c][j]] => taken[c][i] < taken[c][j]

\* A client that knows it is connected (the headers of its stream have arrived,
\* or a command was answered) misses no event whose publication begins later:
\* when publish() has returned the event is on its way to the client's queue.
ConnectedMissesNothing ==
    \A c \in Clients, e \in 1..count :
        /\ loop = "running" /\ conn[c] = "open" /\ since[c] # None /\ since[c] < e
        /\ \A p \in Publishers : event[p] # e
        => e \in Range(offered[c]) \cup Events(ready, c)

\* Once an endpoint has ended, its handler is gone, however it ended: publish()
\* does not carry dead connections along.
GoneIsUnsubscribed == \A c \in Clients : conn[c] = "gone" => c \notin Range(handlers)

\* What a client is given, and what is kept for it: in order and without gaps but
\* the oldest, within its limit, and only as long as it is there.
DeliversInOrder == TypeOK /\ OldestDropped /\ SameThreadInOrder /\ GoneIsUnsubscribed

\* "A laggy observer must never be able to stall playback": publish() returns
\* whatever the clients and the event loop do, or do not do.
PublishingEnds == \A p \in Publishers : (event[p] # 0) ~> (event[p] = 0)
=============================================================================
