----------------------- MODULE PlaybackQueueInvariant -----------------------
(***************************************************************************)
(* The inductive invariant of the playback queue: what is true between any *)
(* two steps of its threads, and why its properties hold.                  *)
(***************************************************************************)
EXTENDS PlaybackQueueProperties

-----------------------------------------------------------------------------
(* Where the utterances are *)

WorkerIdle == {"loop", "wait", "exit"}
WorkerSpeaking == {"lookahead", "submit", "gate", "play", "playing", "played",
                   "collect", "finish"}

\* The worker holds an utterance exactly while it processes one, and the place
\* it has reached determines the state of that utterance: the worker alone
\* moves it.
WorkerOK ==
    /\ wpc \in WorkerIdle <=> current = None
    /\ wpc = "start" => state[current] = "queued"
    /\ wpc \in {"synth", "synthesized"} => state[current] = "synthesizing"
    /\ wpc \in WorkerSpeaking => state[current] = "speaking"
    /\ wpc = "retire" => state[current] \in Terminal

\* What a thread that will submit an utterance knows of it, what a clear()
\* under way has in hand.
ThreadOK ==
    /\ \A t \in Threads :
          /\ pc[t] \in {"clear", "cancel", "record", "stop"} => op[t] # "none"
          /\ \/ pc[t] = "enqueue"
             \/ pc[t] \in {"clear", "cancel", "record", "stop"} /\ op[t] = "speak"
             => utt[t] \in Utt /\ state[utt[t]] = "new"
          /\ pc[t] \in {"publish", "await"} =>
                utt[t] \in Utt /\ state[utt[t]] # "new"
          /\ pc[t] \notin {"cancel", "record"} => pending[t] = <<>>
          /\ pc[t] = "record" =>
                pending[t] # <<>> /\ state[pending[t][1]] = "cancelled"
          /\ pc[t] = "stop" => snap[t] # None
    /\ \A s, t \in Threads : utt[s] = utt[t] /\ utt[s] # None => s = t

\* The utterances in the deque and in the hands of clear() are queued (but for
\* the one that clear() has just cancelled), and no two places hold the same.
OwnerOK ==
    /\ \A i \in 1..Len(items) :
          state[items[i]] = "queued" /\ items[i] # current
    /\ \A i, j \in 1..Len(items) : items[i] = items[j] => i = j
    /\ \A t \in Threads : \A i \in 1..Len(pending[t]) :
          /\ state[pending[t][i]] = "queued" \/ (i = 1 /\ pc[t] = "record")
          /\ pending[t][i] # current
    /\ \A t \in Threads : \A i, j \in 1..Len(pending[t]) :
          pending[t][i] = pending[t][j] => i = j
    /\ \A t \in Threads : \A i \in 1..Len(pending[t]), j \in 1..Len(items) :
          pending[t][i] # items[j]
    /\ \A s, t \in Threads :
          \A i \in 1..Len(pending[s]), j \in 1..Len(pending[t]) :
             pending[s][i] = pending[t][j] => s = t

\* Every live utterance is somewhere.
NoneLost ==
    \A u \in Utt : Live(u) =>
        \/ u = current
        \/ \E i \in 1..Len(items) : items[i] = u
        \/ \E t \in Threads : \E i \in 1..Len(pending[t]) : pending[t][i] = u

\* Where every utterance is.
PlaceOK == TypeOK /\ WorkerOK /\ ThreadOK /\ OwnerOK /\ NoneLost

-----------------------------------------------------------------------------
(* What is heard *)

\* Nothing of an utterance is heard before it speaks; one that was flagged and
\* had a clip started all the same is not given another.
HeardOK ==
    /\ played \in [Utt -> Seq(Nat)] /\ overrun \in [Utt -> Nat]
    /\ \A u \in Utt : state[u] \in {"new", "queued", "synthesizing"} =>
          played[u] = <<>> /\ overrun[u] = 0
    /\ \A u \in Utt : overrun[u] > 0 =>
          cancelRequested[u] /\ (u = current => wpc \in {"playing", "played", "retire"})

\* The place of the worker determines which chunk it holds, how many were heard,
\* and whether the executor has the next one: it has exactly while a clip plays
\* that is not the last, so that the loop never plays a clip twice.
LoopOK ==
    /\ wpc \in {"start", "synth", "synthesized"} => chunk = 1
    /\ wpc = "synthesized" => clip = 1
    /\ wpc \in WorkerSpeaking => chunk \in 1..chunks[current] /\ clip = chunk
    /\ wpc \in {"lookahead", "submit", "gate", "play", "playing"} =>
          Len(played[current]) = chunk - 1
    /\ wpc \in {"played", "collect", "finish"} => Len(played[current]) = chunk
    /\ wpc \in {"lookahead", "submit", "finish"} => next = "none"
    /\ wpc \in {"submit", "collect"} => ~IsLast
    /\ wpc = "finish" => IsLast
    /\ wpc = "gate" => IF IsLast THEN next = "none" ELSE next # "none" \/ Flagged
    /\ wpc \in {"play", "playing", "played"} => (IsLast <=> next = "none")
    /\ wpc = "collect" => next # "none"

-----------------------------------------------------------------------------
(* What is told *)

\* An utterance that is still to be recorded by the worker or by a clear() is in
\* no entry of the history.
UnrecordedOK ==
    \A i \in DOMAIN history :
        /\ history[i].id # current
        /\ \A t \in Threads : ~InClear(history[i].id, t)

\* How far the events of an utterance are in each of its states; one that clear()
\* cancels has had none.
LogOK ==
    /\ log \in [Utt -> Seq({"synthesizing", "speaking", "progress"} \cup Terminal)]
    /\ \A u \in Utt :
          /\ state[u] \in {"new", "queued"} => log[u] = <<>>
          /\ state[u] = "synthesizing" => \A i \in DOMAIN log[u] : log[u][i] = "synthesizing"
          /\ state[u] = "speaking" => \A i \in DOMAIN log[u] : log[u][i] \notin Terminal
    /\ \A t \in Threads : pc[t] = "record" => log[pending[t][1]] = <<>>

IInv ==
    /\ PlaceOK
    /\ HeardOK /\ LoopOK /\ WorkerInStep
    /\ UnrecordedOK /\ HistoryTruthful
    /\ LogOK /\ EventOrder
=============================================================================
