----------------------- MODULE PlaybackQueueProperties -----------------------
(***************************************************************************)
(* What the playback queue must and must not do.                           *)
(***************************************************************************)
EXTENDS PlaybackQueue

WorkerPcs == {"loop", "wait", "exit", "start", "synth", "synthesized",
              "lookahead", "submit", "gate", "play", "playing", "played",
              "collect", "finish", "retire"}
ThreadPcs == {"idle", "enqueue", "publish", "await", "clear", "cancel",
              "record", "stop", "notify", "join"}

\* Every variable keeps the type of the field it models, and the collections
\* keep their limits: the deque its max_size, the history its maxlen.
TypeOK ==
    /\ items \in Seq(Utt) /\ Len(items) <= MaxSize
    /\ current \in Utt \cup {None}
    /\ history \in Seq([id : Utt, state : Lifecycle])
    /\ Len(history) <= HistorySize
    /\ closed \in BOOLEAN /\ shutdown \in BOOLEAN
    /\ state \in [Utt -> Lifecycle]
    /\ cancelRequested \in [Utt -> BOOLEAN]
    /\ chunks \in [Utt -> 1..MaxChunks]
    /\ wpc \in WorkerPcs
    /\ chunk \in Nat /\ clip \in Nat
    /\ next \in {"none", "pending", "running", "clip", "error"}
    /\ orphan \in Utt \cup {None}
    /\ session \in {"idle", "playing", "stopped"}
    /\ pc \in [Threads -> ThreadPcs]
    /\ op \in [Threads -> {"none", "speak", "stop", "close"}]
    /\ utt \in [Threads -> Utt \cup {None}]
    /\ pending \in [Threads -> Seq(Utt)]
    /\ snap \in [Threads -> Utt \cup {None}]

-----------------------------------------------------------------------------
(* Who owns an utterance *)

Live(u) == state[u] \in {"queued", "synthesizing", "speaking"}

InDeque(u) == u \in Range(items)
InProcess(u) == u = current
InClear(u, t) == u \in Range(pending[t])

\* A live utterance is in the deque, with the worker or in the hands of one
\* clear(), never in two of these and never in none: popleft() and clear() race
\* for the deque under the lock, so that no utterance is lost (its waiters
\* would hang) and none is both spoken and cancelled.
OneOwner ==
    /\ \A u \in Utt : Live(u) =>
          InDeque(u) \/ InProcess(u) \/ \E t \in Threads : InClear(u, t)
    /\ \A u \in Utt : InDeque(u) => ~InProcess(u)
    /\ \A u \in Utt, t \in Threads :
          InClear(u, t) => ~InDeque(u) /\ ~InProcess(u)
    /\ \A u \in Utt, s, t \in Threads : InClear(u, s) /\ InClear(u, t) => s = t
    /\ IsInjective(items)
    /\ \A t \in Threads : IsInjective(pending[t])

\* What GET /v1/status and /v1/utterances/{id} report of the past is true: an
\* entry of the history tells the final state of its utterance, no utterance
\* has two, and an ended utterance has one (until it expires) unless a thread
\* is just about to append it.
HistoryTruthful ==
    /\ \A i \in DOMAIN history :
          history[i].state \in Terminal /\ history[i].state = state[history[i].id]
    /\ \A i, j \in DOMAIN history : history[i].id = history[j].id => i = j
    /\ Len(history) < HistorySize =>
          \A u \in Utt : state[u] \in Terminal =>
              \/ \E i \in DOMAIN history : history[i].id = u
              \/ InProcess(u) /\ wpc = "retire"
              \/ \E t \in Threads : InClear(u, t) /\ pc[t] = "record"

-----------------------------------------------------------------------------
(* What is heard *)

\* The chunks of an utterance are heard in order, none twice and none left out,
\* and an utterance is reported finished only when all were heard: the look-ahead
\* future, the loop index and the clip in hand never get out of step.
PlayedInOrder ==
    \A u \in Utt :
        /\ played[u] = [i \in 1..Len(played[u]) |-> i]
        /\ Len(played[u]) <= chunks[u]
        /\ state[u] = "finished" => Len(played[u]) = chunks[u]

\* After an utterance was flagged at most one more of its clips starts, even
\* when player.stop() came too early to reach it: the worker tests the flag
\* before every chunk and after every clip.
OverrunBounded == \A u \in Utt : overrun[u] <= 1

\* Whatever ends the processing of an utterance, no look-ahead of it is left
\* waiting in the executor (it would delay the first chunk of another text and
\* waste an engine run).
LookaheadReleased ==
    wpc \in {"loop", "wait", "exit", "start", "synth", "synthesized", "retire"}
        => next = "none"

\* What the worker plays, what was asked of it and what it has set going in the
\* executor never get out of step, on any way through the chunk loop.
WorkerInStep == PlayedInOrder /\ OverrunBounded /\ LookaheadReleased

-----------------------------------------------------------------------------
(* What is announced *)

Rank(event) == CASE event = "synthesizing" -> 1 [] event = "speaking" -> 2
                 [] event = "progress" -> 3 [] OTHER -> 4

Ordered(events) ==
    \A i, j \in DOMAIN events : i < j =>
        \/ Rank(events[i]) < Rank(events[j])
        \/ events[i] = "progress" /\ events[j] = "progress"

\* The events of an utterance (but for "queued", whose publication races with
\* the worker) follow its lifecycle: synthesizing before speaking before the
\* progress of its chunks, one terminal event and nothing after it; and an
\* utterance that ended announces how, at once unless clear() is just about to.
EventOrder ==
    \A u \in Utt :
        /\ Ordered(log[u])
        /\ \A i \in DOMAIN log[u] : log[u][i] \in Terminal => log[u][i] = state[u]
        /\ state[u] \in Terminal =>
              \/ \E i \in DOMAIN log[u] : log[u][i] = state[u]
              \/ \E t \in Threads : InClear(u, t) /\ pc[t] = "record"

-----------------------------------------------------------------------------
(* The abstract queue *)

\* The lane is held from popleft() until the utterance ends.
absLane == IF current # None /\ Live(current) THEN current ELSE None

\* An utterance taken by a clear() counts as cancelled from that moment.
absOutcome == [u \in Utt |->
    IF \E t \in Threads : InClear(u, t) THEN "cancelled"
    ELSE IF Live(u) THEN "pending" ELSE state[u]]

Abstract == INSTANCE SpeechQueue WITH
    waiting <- items, lane <- absLane, outcome <- absOutcome

\* The threads, locks, chunks and look-ahead of the code together behave as the
\* abstract queue: first in first out, one lane, bounded, a stop takes all that
\* waits in one step, and no outcome is ever revised.
RefinesSpeechQueue == Abstract!Spec

-----------------------------------------------------------------------------
(* What must happen *)

\* Every accepted utterance ends, whatever stops, interrupts and closes race
\* with it, and whether or not its synthesis and playback succeed.
AcceptedEnds == \A u \in Utt : (state[u] = "queued") ~> (state[u] \in Terminal)

\* A request that waits for its utterance (wait=true) gets its answer.
AwaitAnswered == \A t \in Threads : (pc[t] = "await") ~> (pc[t] # "await")

\* close() is never lost on a worker that is about to wait: it exits.
CloseEndsWorker == closed ~> (wpc = "exit")

-----------------------------------------------------------------------------
(* What the documentation says and the code does not keep *)

\* "stop() must never wait for a clip to finish": when a flagged utterance is
\* playing, its clip is stopped or a stop is on its way.  A stop issued before
\* play() took the session is lost, and the clip is heard to its end.
StopReachesClip ==
    session = "playing" /\ cancelRequested[current] =>
        \E t \in Threads : pc[t] = "stop"
=============================================================================
