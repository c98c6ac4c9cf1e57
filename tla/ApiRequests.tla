------------------------------ MODULE ApiRequests ------------------------------
(***************************************************************************)
(* api/: how requests and commands travel.  The handlers are coroutines of *)
(* one event loop.  Whatever may block runs in a thread: that of an HTTP   *)
(* request takes one of the Tokens of anyio's limiter, in first-come       *)
(* order, and a request with wait=true takes a second one, when the first  *)
(* is returned, for as long as its utterance lives.  A WebSocket handles   *)
(* its commands one after another, in threads of another pool.  Behind     *)
(* them is the abstract playback queue (SpeechQueue), and around them      *)
(* uvicorn, which at a shutdown takes no more requests, drops the sockets, *)
(* waits for what is in flight and then ends the lifespan.                 *)
(*                                                                         *)
(* Left out: bodies, tokens of authentication (Doors), the events          *)
(* (EventStream).  The pool of the sockets is larger than their number.    *)
(*                                                                         *)
(* A definition marked "Mutant" is not part of the model: it is a bug that *)
(* the definition after it could have had, and that a property catches.    *)
(***************************************************************************)
EXTENDS Naturals, FiniteSets, SequencesExt

CONSTANTS
    Requests,       \* HTTP requests
    Commands,       \* commands sent over the sockets
    Sockets,        \* WebSocket connections
    None,           \* no utterance
    MaxSize,        \* speech.queue_size
    Tokens,         \* threads of anyio's limiter (40 in the program)
    Refusals,       \* bound: the exceptions that service code raises
    HttpKinds, SocketKinds  \* bound: what is asked, see Kinds

Calls == Requests \cup Commands     \* each names the utterance it may create

VARIABLES
    waiting, lane, outcome,     \* the abstract queue
    kind,       \* per call: what it asks
    phase,      \* per call: where it is
    line,       \* the requests that wait for a token, oldest first
    reply,      \* per call: its answer
    inbox,      \* per socket: the commands not yet answered, oldest first
    link,       \* per socket: "open", "gone" (for the client), "ended"
    stream,     \* a client listens to GET /v1/events
    server,     \* "running", "draining", "closed"
    \* history variable, for the properties only
    cleared     \* the calls that have run queue.clear()

queueVars == <<waiting, lane, outcome>>
socketVars == <<inbox, link>>
callVars == <<kind, phase, line, reply, cleared>>
vars == <<queueVars, callVars, socketVars, stream, server>>

Queue == INSTANCE SpeechQueue WITH Utt <- Calls

Ends == Queue!Outcomes

Speaking == {[op |-> "speak", wait |-> w, interrupt |-> i] : w, i \in BOOLEAN}
Asking(ops) == {[op |-> o, wait |-> FALSE, interrupt |-> FALSE] : o \in ops}
\* What a call may ask.  "read" is synthesize, audio/speech, voices or providers; "look" is status,
\* utterances/{id} or ping, which the event loop answers by itself.
Kinds == Speaking \cup Asking({"stop", "read", "look"})

ASSUME CallsAssumption == Requests \cap Commands = {}

ASSUME TokensAssumption == Tokens \in Nat

ASSUME KindsAssumption ==
    HttpKinds \subseteq Kinds /\ SocketKinds \subseteq Kinds \ Asking({"read"})

Init ==
    /\ Queue!Init
    /\ kind = [c \in Calls |-> [op |-> "look", wait |-> FALSE, interrupt |-> FALSE]]
    /\ phase = [c \in Calls |-> "new"]
    /\ line = <<>>
    /\ reply = [c \in Calls |-> "none"]
    /\ inbox = [s \in Sockets |-> <<>>] /\ link = [s \in Sockets |-> "open"]
    /\ stream = FALSE /\ server = "running"
    /\ cleared = {}

-----------------------------------------------------------------------------
(* Answers *)

\* status_code_for: the first class of the table that the exception is one of;
\* what the application has no handler for is a 500 of the framework.
StatusCode(exc) ==
    CASE exc = "UnknownProviderError" -> "404"
      [] exc = "ProviderUnavailableError" -> "503"
      [] exc = "QueueFullError" -> "429"
      [] exc = "SynthesisError" -> "502"
      [] exc = "ValueError" -> "422"
      [] OTHER -> "500"

GatewayErrors == {"UnknownProviderError", "ProviderUnavailableError",
                  "QueueFullError", "SynthesisError"}

\* A socket answers a GatewayError or ValueError; any other ends the connection.
Answer(c, exc) ==
    IF c \in Requests THEN StatusCode(exc)
    ELSE IF exc \in GatewayErrors \cup {"ValueError"} THEN "error" ELSE "raised"

Done(c, status) ==
    /\ phase' = [phase EXCEPT ![c] = "done"]
    /\ reply' = [reply EXCEPT ![c] = status]

-----------------------------------------------------------------------------
(* Requests *)

\* The next in the line may have a token before the last holder's is returned.
MutantHolders == {r \in Requests : phase[r] \in {"call", "cleared", "await", "waiting"}}

\* The requests that hold a token: in service code, or in utterance.wait().
Holders == {r \in Requests : phase[r] \in {"call", "cleared", "waiting"}}

\* Calls that were not made yet are interchangeable: the next of a set.
Fresh(calls) ==
    LET new == {c \in calls : phase[c] = "new"}
    IN  IF new = {} THEN {} ELSE {CHOOSE c \in new : TRUE}

Arrive(r, k) ==
    /\ server = "running" /\ r \in Fresh(Requests)
    /\ kind' = [kind EXCEPT ![r] = k]
    /\ IF k.op = "look"
       THEN Done(r, "200") /\ UNCHANGED line
       ELSE /\ phase' = [phase EXCEPT ![r] = "line"]
            /\ line' = Append(line, r)
            /\ UNCHANGED reply
    /\ UNCHANGED <<queueVars, cleared, socketVars, stream, server>>

\* The limiter serves the line in order.
Grant ==
    /\ line # <<>> /\ Cardinality(Holders) < Tokens
    /\ phase' = [phase EXCEPT ![Head(line)] = IF @ = "line" THEN "call" ELSE "waiting"]
    /\ line' = Tail(line)
    /\ UNCHANGED <<queueVars, kind, reply, cleared, socketVars, stream, server>>

-----------------------------------------------------------------------------
(* In the threads *)

Quiet == UNCHANGED <<kind, socketVars, stream, server>>

\* An interrupt that clears before its request is known to be valid.
MutantRefuse(c) ==
    /\ phase[c] \in {"call", "cleared"} /\ kind[c].op = "speak"
    /\ Done(c, Answer(c, "UnknownProviderError"))
    /\ UNCHANGED <<queueVars, line, cleared>> /\ Quiet

\* The text, the speed or the provider is refused, before anything is cleared
\* or queued; what reads may fail in its engine too.  No provider is registered
\* anew while requests are served (create_registry does it before), so the look-up
\* never misses its instance (the KeyError of ProviderRegistry).
Refuse(c) ==
    /\ phase[c] = "call" /\ kind[c].op \in {"speak", "read"}
    /\ \E exc \in Refusals :
          /\ kind[c].op = "speak" =>
                exc \in {"ValueError", "UnknownProviderError", "ProviderUnavailableError"}
          /\ Done(c, Answer(c, exc))
    /\ UNCHANGED <<queueVars, line, cleared>> /\ Quiet

Read(c) ==
    /\ phase[c] = "call" /\ kind[c].op = "read"
    /\ Done(c, "200")
    /\ UNCHANGED <<queueVars, line, cleared>> /\ Quiet

\* queue.clear(), all of it: stop's only call, and an interrupt's first.
Clear(c) ==
    /\ phase[c] = "call" /\ (kind[c].op = "stop" \/ kind[c].interrupt)
    /\ IF waiting = <<>> THEN UNCHANGED queueVars ELSE Queue!CancelWaiting
    /\ cleared' = cleared \cup {c}
    /\ IF kind[c].op = "stop"
       THEN Done(c, IF c \in Requests THEN "200" ELSE "result")
       ELSE phase' = [phase EXCEPT ![c] = "cleared"] /\ UNCHANGED reply
    /\ UNCHANGED line /\ Quiet

\* A socket whose speak waits as that of HTTP does.
MutantWaits(c) == kind[c].wait

\* The request waits for its utterance; a socket's never does, whatever it asks.
Waits(c) == kind[c].wait /\ c \in Requests

\* submit(): others may have filled the deque since the clear().
Enqueue(c) ==
    /\ kind[c].op = "speak"
    /\ phase[c] = IF kind[c].interrupt THEN "cleared" ELSE "call"
    /\ IF server = "closed" \/ Len(waiting) >= MaxSize
       THEN /\ Done(c, Answer(c, IF server = "closed" THEN "RuntimeError" ELSE "QueueFullError"))
            /\ UNCHANGED <<queueVars, line>>
       ELSE /\ Queue!Accept(c)
            /\ IF Waits(c)
               THEN /\ phase' = [phase EXCEPT ![c] = "await"]
                    /\ line' = Append(line, c)
                    /\ UNCHANGED reply
               ELSE Done(c, IF c \in Requests THEN "202" ELSE "result") /\ UNCHANGED line
    /\ UNCHANGED cleared /\ Quiet

\* utterance.wait() returns, and the final snapshot is the answer.
AwaitReturns(c) ==
    /\ phase[c] = "waiting" /\ outcome[c] \in Ends
    /\ Done(c, "200")
    /\ UNCHANGED <<queueVars, line, cleared>> /\ Quiet

Work(c) == Refuse(c) \/ Read(c) \/ Clear(c) \/ Enqueue(c) \/ AwaitReturns(c)

-----------------------------------------------------------------------------
(* Sockets *)

Send(s, c, k) ==
    /\ link[s] = "open" /\ c \in Fresh(Commands)
    /\ kind' = [kind EXCEPT ![c] = k]
    /\ phase' = [phase EXCEPT ![c] = "sent"]
    /\ inbox' = [inbox EXCEPT ![s] = Append(@, c)]
    /\ UNCHANGED <<queueVars, line, reply, cleared, link, stream, server>>

\* Messages that arrived before the client left are still read.
Receive(s) ==
    /\ link[s] # "ended" /\ inbox[s] # <<>> /\ phase[Head(inbox[s])] = "sent"
    /\ LET c == Head(inbox[s])
       IN  IF kind[c].op = "look" THEN Done(c, "result")
           ELSE phase' = [phase EXCEPT ![c] = "call"] /\ UNCHANGED reply
    /\ UNCHANGED <<queueVars, kind, line, cleared, socketVars, stream, server>>

\* The answer is sent; to a client that has left it is lost, or the send fails.
Deliver(s) ==
    /\ link[s] # "ended" /\ inbox[s] # <<>> /\ phase[Head(inbox[s])] = "done"
    /\ LET c == Head(inbox[s])
       IN  \/ /\ reply[c] # "raised"
              /\ inbox' = [inbox EXCEPT ![s] = Tail(@)]
              /\ UNCHANGED link
           \/ /\ reply[c] = "raised" \/ link[s] = "gone"
              /\ link' = [link EXCEPT ![s] = "ended"]
              /\ UNCHANGED inbox
    /\ UNCHANGED <<queueVars, callVars, stream, server>>

HangUp(s) ==
    /\ link[s] = "open"
    /\ link' = [link EXCEPT ![s] = "gone"]
    /\ UNCHANGED <<queueVars, callVars, inbox, stream, server>>

\* receive_json() raises once everything that was sent has been read; a message
\* that is no JSON ends an open connection too.
SocketEnds(s) ==
    /\ link[s] # "ended"
    /\ inbox[s] = <<>>
    /\ link' = [link EXCEPT ![s] = "ended"]
    /\ UNCHANGED <<queueVars, callVars, inbox, stream, server>>

-----------------------------------------------------------------------------
(* The worker and the server *)

WorkerBegins == Queue!Begin /\ UNCHANGED <<callVars, socketVars, stream, server>>

WorkerEnds == Queue!End /\ UNCHANGED <<callVars, socketVars, stream, server>>

StreamOpens ==
    /\ server = "running" /\ ~stream
    /\ stream' = TRUE
    /\ UNCHANGED <<queueVars, callVars, socketVars, server>>

StreamLeaves ==
    /\ stream
    /\ stream' = FALSE
    /\ UNCHANGED <<queueVars, callVars, socketVars, server>>

\* SIGINT or SIGTERM.
Drain ==
    /\ server = "running"
    /\ server' = "draining"
    /\ link' = [s \in Sockets |-> IF link[s] = "open" THEN "gone" ELSE link[s]]
    /\ UNCHANGED <<queueVars, callVars, inbox, stream>>

\* The lifespan ends when nothing is in flight: service.close(), which clears.
CloseService ==
    /\ server = "draining" /\ ~stream
    /\ \A r \in Requests : phase[r] \in {"new", "done"}
    /\ \A s \in Sockets : link[s] = "ended"
    /\ server' = "closed"
    /\ IF waiting = <<>> THEN UNCHANGED queueVars ELSE Queue!CancelWaiting
    /\ UNCHANGED <<callVars, socketVars, stream>>

Next ==
    \/ \E r \in Requests, k \in HttpKinds : Arrive(r, k)
    \/ Grant
    \/ \E c \in Calls : Work(c)
    \/ \E s \in Sockets, c \in Commands, k \in SocketKinds : Send(s, c, k)
    \/ \E s \in Sockets : Receive(s) \/ Deliver(s) \/ HangUp(s) \/ SocketEnds(s)
    \/ WorkerBegins \/ WorkerEnds
    \/ StreamOpens \/ StreamLeaves
    \/ Drain \/ CloseService

\* The event loop and the threads go on; nothing is assumed of the clients and,
\* here, of the worker: a clip may be as long as it likes.
Spec ==
    /\ Init /\ [][Next]_vars
    /\ WF_vars(Grant)
    /\ \A c \in Calls : WF_vars(Work(c))
    /\ \A s \in Sockets : WF_vars(Receive(s)) /\ WF_vars(Deliver(s))
                          /\ WF_vars(link[s] = "gone" /\ SocketEnds(s))
    /\ WF_vars(CloseService)

-----------------------------------------------------------------------------
(* Properties *)

\* What a client is told is so: an accepted utterance is queued, one it waited
\* for has ended, a refused one is nowhere and (but for a full queue) has
\* silenced nobody, and nobody is refused because the server closes (the drain
\* comes first).
AnswersHonest ==
    \A c \in Calls : phase[c] = "done" /\ kind[c].op = "speak" =>
        /\ reply[c] \in {"202", "result"} => outcome[c] # "new"
        /\ reply[c] = "200" => outcome[c] \in Ends
        /\ reply[c] \in {"404", "422", "429", "503", "error"} => outcome[c] = "new"
        /\ reply[c] \in {"404", "422", "503"} => c \notin cleared
        /\ reply[c] \notin {"500", "raised"}

WorkerFair == WF_vars(WorkerBegins) /\ WF_vars(WorkerEnds)

\* As long as utterances end, so does everything: each request is answered
\* (a request that waits returns its first token before it queues for the
\* second, or a few of them would block each other for ever), and a shutdown
\* is completed unless a client keeps its event stream open.
SpeechLetsAllEnd ==
    WorkerFair =>
        /\ \A r \in Requests : (phase[r] = "line") ~> (phase[r] = "done")
        /\ (server = "draining" ~> server = "closed") \/ <>[]stream

\* Even if an utterance never ends, a command of a socket (stop, above all) is
\* answered while its client is there, and a request only waits for ever for a
\* thread when requests with wait=true hold all of them.
StarvedOnlyByWaiters ==
    /\ \A c \in Commands, s \in Sockets :
          (c \in Range(inbox[s])) ~> (c \notin Range(inbox[s]) \/ link[s] # "open")
    /\ \A r \in Requests :
          \/ (phase[r] = "line") ~> (phase[r] # "line")
          \/ <>[](Cardinality({h \in Holders : phase[h] = "waiting"}) = Tokens)
=============================================================================
