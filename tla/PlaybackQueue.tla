---------------------------- MODULE PlaybackQueue ----------------------------
(***************************************************************************)
(* core/queue.py: the playback queue.  API threads submit, clear and close *)
(* it; one worker thread drains it, synthesizing and playing one utterance *)
(* at a time; a single-slot executor synthesizes the next chunk of a long  *)
(* utterance while the current chunk plays.                                *)
(*                                                                         *)
(* Each action is one critical section or one call the code makes outside  *)
(* its locks, so that every interleaving of the threads between two of     *)
(* them is explored.  A flag test and the transition it decides are one    *)
(* action when only the worker reads or writes what lies between them.     *)
(*                                                                         *)
(* A definition marked "Mutant" is not part of the model: it is a bug that *)
(* the definition after it could have had, and that a property catches.    *)
(***************************************************************************)
EXTENDS Naturals, SequencesExt

CONSTANTS
    Utt,            \* the utterances that clients may submit
    Threads,        \* the API threads (anyio workers) calling the service
    None,           \* no utterance
    MaxSize,        \* speech.max_queue_size: PlaybackQueue(max_size=...)
    HistorySize,    \* speech.history_size: PlaybackQueue(history_size=...)
    MaxChunks       \* bound: the longest text splits into this many chunks

ASSUME NoneAssumption == None \notin Utt
ASSUME SizeAssumption == MaxSize \in Nat /\ HistorySize \in Nat
ASSUME ChunksAssumption == MaxChunks \in Nat \ {0}

VARIABLES
    \* guarded by PlaybackQueue._condition
    items,              \* _items: the deque of waiting utterances
    current,            \* _current: the utterance the worker is processing
    history,            \* _history: snapshots (id and state), newest last
    closed,             \* _closed
    \* per utterance, guarded by Utterance._lock
    state,              \* Utterance._state; "new" before a submit accepts it
    cancelRequested,    \* Utterance._cancel_requested
    chunks,             \* len(synthesizers), fixed when the text is planned
    \* the worker thread and its look-ahead executor
    wpc,                \* where the worker is
    chunk,              \* index + 1 in the chunk loop
    clip,               \* the chunk whose audio the worker holds
    next,               \* next_future: "none", or the state of the look-ahead
    orphan,             \* the utterance whose abandoned look-ahead still runs
    shutdown,           \* _prefetch has been shut down
    session,            \* the player (AudioPlayer)
    \* the API threads
    pc,                 \* where each thread is
    op,                 \* the service call it executes
    utt,                \* the utterance it submits
    pending,            \* clear(): the utterances it took and has not announced
    snap,               \* clear(): the current utterance it captured
    \* history variables, for the properties only
    played,             \* the chunks of each utterance heard to their end
    overrun,            \* clips started after the utterance was flagged
    log                 \* the events published for each utterance, in order,
                        \* but for "queued", which races with the others

queueVars  == <<items, current, history, closed>>
uttVars    == <<state, cancelRequested, chunks>>
workerVars == <<wpc, chunk, clip, next, orphan, shutdown>>
apiVars    == <<pc, op, utt, pending, snap>>
ghostVars  == <<played, overrun, log>>
vars == <<queueVars, uttVars, workerVars, session, apiVars, ghostVars>>

Player == INSTANCE AudioPlayer

-----------------------------------------------------------------------------
(* Utterances: models.Utterance *)

Terminal == {"finished", "cancelled", "failed"}
Lifecycle == {"new", "queued", "synthesizing", "speaking"} \cup Terminal

\* Utterance.transition: a terminal state latches.
Transition(u, s) ==
    state' = IF state[u] \in Terminal THEN state ELSE [state EXCEPT ![u] = s]

\* EventBus.publish of an event about u.
Publish(u, event) == log' = [log EXCEPT ![u] = Append(@, event)]

\* _finalize: the terminal transition and, when it was not refused, its event.
Finalize(u, s) ==
    /\ Transition(u, s)
    /\ IF state[u] \in Terminal THEN UNCHANGED log ELSE Publish(u, s)

\* history.append(utterance.snapshot()) on deque(maxlen=history_size).
Record(u) ==
    LET full == Append(history, [id |-> u, state |-> state[u]])
    IN  history' = IF Len(full) > HistorySize THEN Tail(full) ELSE full

\* Mutant: the deque grows but nobody wakes the worker.
NoNotify == UNCHANGED wpc

\* Condition.notify / notify_all: the worker is the only thread that waits.
Notify == wpc' = IF wpc = "wait" THEN "loop" ELSE wpc

Init ==
    /\ items = <<>> /\ current = None /\ history = <<>> /\ closed = FALSE
    /\ state = [u \in Utt |-> "new"]
    /\ cancelRequested = [u \in Utt |-> FALSE]
    /\ chunks = [u \in Utt |-> 1]
    /\ wpc = "loop" /\ chunk = 0 /\ clip = 0 /\ next = "none" /\ orphan = None
    /\ shutdown = FALSE
    /\ Player!Init
    /\ pc = [t \in Threads |-> "idle"]
    /\ op = [t \in Threads |-> "none"]
    /\ utt = [t \in Threads |-> None]
    /\ pending = [t \in Threads |-> <<>>]
    /\ snap = [t \in Threads |-> None]
    /\ played = [u \in Utt |-> <<>>]
    /\ overrun = [u \in Utt |-> 0]
    /\ log = [u \in Utt |-> <<>>]

-----------------------------------------------------------------------------
(* The worker thread: _run, _process_single and _process_chunked *)

\* Waiting on the condition releases the lock until a notify.
WorkerWait ==
    /\ wpc = "loop" /\ items = <<>> /\ ~closed
    /\ wpc' = "wait"
    /\ UNCHANGED <<queueVars, uttVars, chunk, clip, next, orphan, shutdown,
                   session, apiVars, ghostVars>>

WorkerExit ==
    /\ wpc = "loop" /\ closed
    /\ wpc' = "exit"
    /\ UNCHANGED <<queueVars, uttVars, chunk, clip, next, orphan, shutdown,
                   session, apiVars, ghostVars>>

\* Mutant: pop() for popleft().
PopNewest == current' = Last(items) /\ items' = Front(items)

Pop == current' = Head(items) /\ items' = Tail(items)

WorkerTake ==
    /\ wpc = "loop" /\ items # <<>> /\ ~closed
    /\ Pop
    /\ wpc' = "start" /\ chunk' = 1 /\ clip' = 0
    /\ UNCHANGED <<history, closed, uttVars, next, orphan, shutdown, session,
                   apiVars, ghostVars>>

\* The worker's checkpoints read Utterance.cancel_requested.
Flagged == cancelRequested[current]

\* _cancel(next_future): a look-ahead that has not started is withdrawn; one
\* that is running cannot be, and its audio is discarded when it ends.
Abandon ==
    /\ next' = "none"
    /\ orphan' = IF next = "running" THEN current ELSE orphan

\* Processing ends: the utterance gets its terminal state s (and event), and
\* _run is left with its finally clause.
WorkerEnds(s) ==
    /\ Finalize(current, s)
    /\ wpc' = "retire"
    /\ UNCHANGED <<queueVars, cancelRequested, chunks, chunk, clip, shutdown,
                   apiVars, played, overrun>>

WorkerStartCancelled ==
    /\ wpc = "start" /\ Flagged
    /\ WorkerEnds("cancelled")
    /\ UNCHANGED <<next, orphan, session>>

\* A refused transition returns at once, with no event.
WorkerStart ==
    /\ wpc = "start" /\ ~Flagged
    /\ Transition(current, "synthesizing")
    /\ IF state[current] \in Terminal
       THEN wpc' = "retire" /\ UNCHANGED log
       ELSE wpc' = "synth" /\ Publish(current, "synthesizing")
    /\ UNCHANGED <<queueVars, cancelRequested, chunks, chunk, clip, next, orphan,
                   shutdown, session, apiVars, played, overrun>>

\* The provider returns the clip of the first chunk.
WorkerSynth ==
    /\ wpc = "synth"
    /\ clip' = 1
    /\ wpc' = "synthesized"
    /\ UNCHANGED <<queueVars, uttVars, chunk, next, orphan, shutdown, session,
                   apiVars, ghostVars>>

\* The provider raises SynthesisError, or crashes.
WorkerSynthFails ==
    /\ wpc = "synth"
    /\ WorkerEnds("failed")
    /\ UNCHANGED <<next, orphan, session>>

WorkerSynthesizedCancelled ==
    /\ wpc = "synthesized" /\ Flagged
    /\ WorkerEnds("cancelled")
    /\ UNCHANGED <<next, orphan, session>>

WorkerSpeak ==
    /\ wpc = "synthesized" /\ ~Flagged
    /\ Transition(current, "speaking")
    /\ IF state[current] \in Terminal
       THEN wpc' = "retire" /\ UNCHANGED log
       ELSE /\ wpc' = IF chunks[current] = 1 THEN "play" ELSE "lookahead"
            /\ Publish(current, "speaking")
    /\ UNCHANGED <<queueVars, cancelRequested, chunks, chunk, clip, next, orphan,
                   shutdown, session, apiVars, played, overrun>>

\* Mutant: the zero-based index is taken for one-based.
IsLastTooEarly == chunk + 1 >= chunks[current]

IsLast == chunk = chunks[current]

\* Whether to kick off chunk N+1 before playing chunk N.
WorkerLookahead ==
    /\ wpc = "lookahead"
    /\ wpc' = IF ~IsLast /\ next = "none" /\ ~Flagged THEN "submit" ELSE "gate"
    /\ UNCHANGED <<queueVars, uttVars, chunk, clip, next, orphan, shutdown,
                   session, apiVars, ghostVars>>

WorkerSubmit ==
    /\ wpc = "submit" /\ ~shutdown
    /\ next' = "pending"
    /\ wpc' = "gate"
    /\ UNCHANGED <<queueVars, uttVars, chunk, clip, orphan, shutdown, session,
                   apiVars, ghostVars>>

\* submit() on an executor that close() has shut down raises: _run's handler
\* finalizes the utterance as an internal error.
WorkerSubmitRaises ==
    /\ wpc = "submit" /\ shutdown
    /\ WorkerEnds("failed")
    /\ UNCHANGED <<next, orphan, session>>

WorkerGateCancelled ==
    /\ wpc = "gate" /\ Flagged
    /\ Abandon
    /\ WorkerEnds("cancelled")
    /\ UNCHANGED session

WorkerGate ==
    /\ wpc = "gate" /\ ~Flagged
    /\ Publish(current, "progress")
    /\ wpc' = "play"
    /\ UNCHANGED <<queueVars, uttVars, chunk, clip, next, orphan, shutdown,
                   session, apiVars, played, overrun>>

\* player.play(clip) takes the session; until then stop() cannot reach it.
WorkerPlay ==
    /\ wpc = "play"
    /\ Player!Play
    /\ wpc' = "playing"
    /\ overrun' = [overrun EXCEPT
          ![current] = @ + IF cancelRequested[current] THEN 1 ELSE 0]
    /\ UNCHANGED <<queueVars, uttVars, chunk, clip, next, orphan, shutdown,
                   apiVars, played, log>>

WorkerPlayCompletes ==
    /\ wpc = "playing"
    /\ Player!Completed
    /\ played' = [played EXCEPT ![current] = Append(@, clip)]
    /\ wpc' = "played"
    /\ UNCHANGED <<queueVars, uttVars, chunk, clip, next, orphan, shutdown,
                   apiVars, overrun, log>>

\* play() returned False: no further test is needed to cancel the utterance.
WorkerPlayInterrupted ==
    /\ wpc = "playing"
    /\ Player!Interrupted
    /\ Abandon
    /\ WorkerEnds("cancelled")

\* Mutant: the handler logs the failure and does not finalize.
WorkerPlayRaisesUnfinalized ==
    /\ \/ wpc = "play" /\ UNCHANGED session
       \/ wpc = "playing" /\ Player!Raised
    /\ Abandon
    /\ wpc' = "retire"
    /\ UNCHANGED <<queueVars, uttVars, chunk, clip, shutdown, apiVars, ghostVars>>

\* play() raised, before it took the session (no command for the format) or
\* after.
WorkerPlayRaises ==
    /\ \/ wpc = "play" /\ UNCHANGED session
       \/ wpc = "playing" /\ Player!Raised
    /\ Abandon
    /\ WorkerEnds("failed")

WorkerPlayedCancelled ==
    /\ wpc = "played" /\ Flagged
    /\ Abandon
    /\ WorkerEnds("cancelled")
    /\ UNCHANGED session

\* The clip was heard and nobody cancelled: collect the next chunk, finish, or
\* (if no look-ahead was started) go round the loop with the same clip.
WorkerPlayed ==
    /\ wpc = "played" /\ ~Flagged
    /\ \/ IsLast /\ wpc' = "finish" /\ UNCHANGED chunk
       \/ ~IsLast /\ next # "none" /\ wpc' = "collect" /\ UNCHANGED chunk
       \/ ~IsLast /\ next = "none" /\ wpc' = "lookahead" /\ chunk' = chunk + 1
    /\ UNCHANGED <<queueVars, uttVars, clip, next, orphan, shutdown, session,
                   apiVars, ghostVars>>

\* next_future.result() blocks until the look-ahead has ended.
WorkerCollect ==
    /\ wpc = "collect" /\ next = "clip"
    /\ clip' = chunk + 1
    /\ chunk' = chunk + 1
    /\ next' = "none"
    /\ wpc' = "lookahead"
    /\ UNCHANGED <<queueVars, uttVars, orphan, shutdown, session, apiVars,
                   ghostVars>>

WorkerCollectFails ==
    /\ wpc = "collect" /\ next = "error"
    /\ next' = "none"
    /\ WorkerEnds("failed")
    /\ UNCHANGED <<orphan, session>>

WorkerFinish ==
    /\ wpc = "finish"
    /\ WorkerEnds("finished")
    /\ UNCHANGED <<next, orphan, session>>

\* _run's finally clause.
WorkerRetire ==
    /\ wpc = "retire"
    /\ current' = None
    /\ Record(current)
    /\ wpc' = "loop" /\ chunk' = 0 /\ clip' = 0
    /\ UNCHANGED <<items, closed, uttVars, next, orphan, shutdown, session,
                   apiVars, ghostVars>>

-----------------------------------------------------------------------------
(* The look-ahead executor: ThreadPoolExecutor(max_workers=1) *)

\* Its one thread takes the submitted synthesis once the previous one, perhaps
\* abandoned, has ended.
PrefetchStart ==
    /\ next = "pending" /\ orphan = None
    /\ next' = "running"
    /\ UNCHANGED <<queueVars, uttVars, wpc, chunk, clip, orphan, shutdown,
                   session, apiVars, ghostVars>>

PrefetchEnds ==
    /\ next = "running"
    /\ next' \in {"clip", "error"}
    /\ UNCHANGED <<queueVars, uttVars, wpc, chunk, clip, orphan, shutdown,
                   session, apiVars, ghostVars>>

\* An abandoned synthesis ends and its outcome is dropped.
OrphanEnds ==
    /\ orphan # None
    /\ orphan' = None
    /\ UNCHANGED <<queueVars, uttVars, wpc, chunk, clip, next, shutdown,
                   session, apiVars, ghostVars>>

-----------------------------------------------------------------------------
(* API threads: SpeechService.speak, stop and close *)

\* SpeechService.speak: a fresh utterance; interrupt=True clears first.
Speak(t, u, interrupt) ==
    /\ pc[t] = "idle"
    /\ state[u] = "new" /\ \A s \in Threads : utt[s] # u
    /\ utt' = [utt EXCEPT ![t] = u]
    /\ op' = [op EXCEPT ![t] = "speak"]
    /\ pc' = [pc EXCEPT ![t] = IF interrupt THEN "clear" ELSE "enqueue"]
    /\ UNCHANGED <<queueVars, uttVars, workerVars, session, pending, snap,
                   ghostVars>>

Full == Len(items) >= MaxSize

\* _enqueue raises RuntimeError when closed and QueueFullError at capacity:
\* the utterance is dropped (and a new request may stand for a retry).
EnqueueRejected(t) ==
    /\ pc[t] = "enqueue"
    /\ closed \/ Full
    /\ pc' = [pc EXCEPT ![t] = "idle"]
    /\ op' = [op EXCEPT ![t] = "none"]
    /\ utt' = [utt EXCEPT ![t] = None]
    /\ UNCHANGED <<queueVars, uttVars, workerVars, session, pending, snap,
                   ghostVars>>

EnqueueAccepted(t) ==
    /\ pc[t] = "enqueue"
    /\ ~closed /\ ~Full
    /\ items' = Append(items, utt[t])
    /\ state' = [state EXCEPT ![utt[t]] = "queued"]
    /\ \E n \in 1..MaxChunks : chunks' = [chunks EXCEPT ![utt[t]] = n]
    /\ Notify
    /\ pc' = [pc EXCEPT ![t] = "publish"]
    /\ UNCHANGED <<current, history, closed, cancelRequested, chunk, clip, next,
                   orphan, shutdown, session, op, utt, pending, snap, ghostVars>>

\* The queued event, which carries the snapshot _enqueue took, is published
\* outside the lock; then speak returns, or a wait=True request waits for the
\* utterance.
PublishQueued(t, wait) ==
    /\ pc[t] = "publish"
    /\ IF wait
       THEN pc' = [pc EXCEPT ![t] = "await"] /\ UNCHANGED <<op, utt>>
       ELSE /\ pc' = [pc EXCEPT ![t] = "idle"]
            /\ op' = [op EXCEPT ![t] = "none"]
            /\ utt' = [utt EXCEPT ![t] = None]
    /\ UNCHANGED <<queueVars, uttVars, workerVars, session, pending, snap,
                   ghostVars>>

\* Mutant: the waiter waits for success only.
AwaitFinished(t) ==
    /\ pc[t] = "await"
    /\ state[utt[t]] = "finished"
    /\ pc' = [pc EXCEPT ![t] = "idle"]
    /\ op' = [op EXCEPT ![t] = "none"]
    /\ utt' = [utt EXCEPT ![t] = None]
    /\ UNCHANGED <<queueVars, uttVars, workerVars, session, pending, snap,
                   ghostVars>>

\* Utterance.wait() returns once the terminal state is reached.
AwaitReturns(t) ==
    /\ pc[t] = "await"
    /\ state[utt[t]] \in Terminal
    /\ pc' = [pc EXCEPT ![t] = "idle"]
    /\ op' = [op EXCEPT ![t] = "none"]
    /\ utt' = [utt EXCEPT ![t] = None]
    /\ UNCHANGED <<queueVars, uttVars, workerVars, session, pending, snap,
                   ghostVars>>

\* SpeechService.stop.
CallStop(t) ==
    /\ pc[t] = "idle"
    /\ op' = [op EXCEPT ![t] = "stop"]
    /\ pc' = [pc EXCEPT ![t] = "clear"]
    /\ UNCHANGED <<queueVars, uttVars, workerVars, session, utt, pending, snap,
                   ghostVars>>

\* PlaybackQueue.close; a second call returns at once and changes nothing.
CallClose(t) ==
    /\ pc[t] = "idle" /\ ~closed
    /\ closed' = TRUE
    /\ op' = [op EXCEPT ![t] = "close"]
    /\ pc' = [pc EXCEPT ![t] = "clear"]
    /\ UNCHANGED <<items, current, history, uttVars, workerVars, session, utt,
                   pending, snap, ghostVars>>

\* Mutant: clear() copies the deque and leaves it full.
CopyAll(t) == pending' = [pending EXCEPT ![t] = items] /\ UNCHANGED items

TakeAll(t) == pending' = [pending EXCEPT ![t] = items] /\ items' = <<>>

\* clear(): everything waiting leaves the deque, the current one is noted.
ClearTake(t) ==
    /\ pc[t] = "clear"
    /\ TakeAll(t)
    /\ snap' = [snap EXCEPT ![t] = current]
    /\ pc' = [pc EXCEPT ![t] = "cancel"]
    /\ UNCHANGED <<current, history, closed, uttVars, workerVars, session, op,
                   utt, ghostVars>>

\* The next pending utterance is flagged and cancelled ...
ClearCancel(t) ==
    /\ pc[t] = "cancel" /\ pending[t] # <<>>
    /\ LET u == Head(pending[t]) IN
       /\ cancelRequested' = [cancelRequested EXCEPT ![u] = TRUE]
       /\ Transition(u, "cancelled")
       /\ IF state[u] \in Terminal
          THEN pending' = [pending EXCEPT ![t] = Tail(@)] /\ UNCHANGED pc
          ELSE pc' = [pc EXCEPT ![t] = "record"] /\ UNCHANGED pending
    /\ UNCHANGED <<queueVars, chunks, workerVars, session, op, utt, snap,
                   ghostVars>>

\* ... enters the history, and its event is published.
ClearRecord(t) ==
    /\ pc[t] = "record"
    /\ Record(Head(pending[t]))
    /\ Publish(Head(pending[t]), "cancelled")
    /\ pending' = [pending EXCEPT ![t] = Tail(@)]
    /\ pc' = [pc EXCEPT ![t] = "cancel"]
    /\ UNCHANGED <<items, current, closed, uttVars, workerVars, session, op,
                   utt, snap, played, overrun>>

\* What a thread does after clear() has returned.
AfterClear(t) ==
    /\ pc' = [pc EXCEPT ![t] = CASE op[t] = "speak" -> "enqueue"
                                 [] op[t] = "close" -> "notify"
                                 [] OTHER -> "idle"]
    /\ op' = [op EXCEPT ![t] = IF @ = "stop" THEN "none" ELSE @]
    /\ snap' = [snap EXCEPT ![t] = None]

\* Mutant: an utterance still being synthesized is not worth a stop.
CapturedSpeaking(t) == snap[t] # None /\ state[snap[t]] = "speaking"

CapturedLive(t) == IF snap[t] = None THEN FALSE ELSE state[snap[t]] \notin Terminal

\* Mutant: clear() ends the current utterance itself and leaves it unflagged.
ClearFinalizesCurrent(t) ==
    /\ pc[t] = "cancel" /\ pending[t] = <<>> /\ CapturedLive(t)
    /\ Finalize(snap[t], "cancelled")
    /\ pc' = [pc EXCEPT ![t] = "stop"]
    /\ UNCHANGED <<queueVars, cancelRequested, chunks, workerVars, session, op,
                   utt, pending, snap, played, overrun>>

\* The captured utterance is still live: flag it; player.stop() comes next.
\* (A worker that ends the utterance between the test and the flag is covered:
\* the flag on an ended utterance has no effect, and one set on a worker that has
\* passed its last test has none either.)
ClearFlag(t) ==
    /\ pc[t] = "cancel" /\ pending[t] = <<>> /\ CapturedLive(t)
    /\ cancelRequested' = [cancelRequested EXCEPT ![snap[t]] = TRUE]
    /\ pc' = [pc EXCEPT ![t] = "stop"]
    /\ UNCHANGED <<queueVars, state, chunks, workerVars, session, op, utt,
                   pending, snap, ghostVars>>

ClearNoCurrent(t) ==
    /\ pc[t] = "cancel" /\ pending[t] = <<>> /\ ~CapturedLive(t)
    /\ AfterClear(t)
    /\ UNCHANGED <<queueVars, uttVars, workerVars, session, utt, pending,
                   ghostVars>>

ClearStop(t) ==
    /\ pc[t] = "stop"
    /\ Player!Stop
    /\ AfterClear(t)
    /\ UNCHANGED <<queueVars, uttVars, workerVars, utt, pending, ghostVars>>

\* Mutant: close() forgets to wake the worker.
CloseSilently(t) ==
    /\ pc[t] = "notify"
    /\ pc' = [pc EXCEPT ![t] = "join"]
    /\ UNCHANGED <<queueVars, uttVars, workerVars, session, op, utt, pending,
                   snap, ghostVars>>

\* close(): notify_all, so that an idle worker sees _closed.
CloseNotify(t) ==
    /\ pc[t] = "notify"
    /\ Notify
    /\ pc' = [pc EXCEPT ![t] = "join"]
    /\ UNCHANGED <<queueVars, uttVars, chunk, clip, next, orphan, shutdown,
                   session, op, utt, pending, snap, ghostVars>>

\* join(timeout=5.0) returns when the worker has exited or five seconds have
\* passed, whatever the worker is doing; the executor is shut down either way.
CloseJoined(t) ==
    /\ pc[t] = "join"
    /\ shutdown' = TRUE
    /\ pc' = [pc EXCEPT ![t] = "idle"]
    /\ op' = [op EXCEPT ![t] = "none"]
    /\ UNCHANGED <<queueVars, uttVars, wpc, chunk, clip, next, orphan, session,
                   utt, pending, snap, ghostVars>>

-----------------------------------------------------------------------------

Worker ==
    \/ WorkerWait \/ WorkerExit \/ WorkerTake
    \/ WorkerStartCancelled \/ WorkerStart
    \/ WorkerSynth \/ WorkerSynthFails
    \/ WorkerSynthesizedCancelled \/ WorkerSpeak
    \/ WorkerLookahead \/ WorkerSubmit \/ WorkerSubmitRaises
    \/ WorkerGateCancelled \/ WorkerGate
    \/ WorkerPlay \/ WorkerPlayCompletes \/ WorkerPlayInterrupted
    \/ WorkerPlayRaises \/ WorkerPlayedCancelled \/ WorkerPlayed
    \/ WorkerCollect \/ WorkerCollectFails \/ WorkerFinish
    \/ WorkerRetire

Prefetch == PrefetchStart \/ PrefetchEnds \/ OrphanEnds

\* A client's request arrives on thread t.
Request(t) ==
    \/ \E u \in Utt, interrupt \in BOOLEAN : Speak(t, u, interrupt)
    \/ CallStop(t)
    \/ CallClose(t)

\* Thread t carries on with the request it serves.
Serve(t) ==
    \/ EnqueueRejected(t) \/ EnqueueAccepted(t)
    \/ \E wait \in BOOLEAN : PublishQueued(t, wait)
    \/ AwaitReturns(t)
    \/ ClearTake(t) \/ ClearCancel(t) \/ ClearRecord(t)
    \/ ClearFlag(t) \/ ClearNoCurrent(t) \/ ClearStop(t)
    \/ CloseNotify(t) \/ CloseJoined(t)

Next == Worker \/ Prefetch \/ \E t \in Threads : Request(t) \/ Serve(t)

Spec == Init /\ [][Next]_vars

\* Providers and the player return in finite time (HTTP timeouts, finite
\* clips), the operating system schedules every thread, and a request once
\* received is carried to its end; no client is obliged to send another one.
Fairness ==
    /\ WF_vars(Worker)
    /\ WF_vars(Prefetch)
    /\ \A t \in Threads : WF_vars(Serve(t))

FairSpec == Spec /\ Fairness
=============================================================================
