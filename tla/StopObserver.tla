---------------------------- MODULE StopObserver ----------------------------
(***************************************************************************)
(* The playback queue observed by a client that calls stop (or speaks with *)
(* interrupt=true): one history variable remembers what was accepted and   *)
(* not yet ended when the clear() of each thread took the deque.           *)
(***************************************************************************)
EXTENDS PlaybackQueueInvariant, TLC

VARIABLE backlog    \* per thread, the live utterances its clear() must cover

obsVars == <<vars, backlog>>

Clearing == {"cancel", "record", "stop"}

ObsInit == Init /\ backlog = [t \in Threads |-> {}]

ObsNext ==
    /\ Next
    /\ backlog' = [t \in Threads |->
          IF pc'[t] \notin Clearing THEN {}
          ELSE IF pc[t] = "clear" THEN {u \in Utt : Live(u)}
          ELSE backlog[t]]

ObsSpec == ObsInit /\ [][ObsNext]_obsVars

\* POST /v1/stop: "Cancel every queued utterance and interrupt the one playing".
\* When clear() returns, every utterance that was live when it took the deque
\* has ended or is flagged, so that the worker will drop it; the one exception
\* is an utterance that another clear(), running at the same time, is about to
\* cancel.  It covers the utterance being synthesized as well as the one playing.
StopCoversBacklog ==
    [][\A t \in Threads :
          pc[t] \in Clearing /\ pc'[t] \notin Clearing =>
              \A u \in backlog[t] :
                  \/ state[u] \in Terminal \/ cancelRequested'[u]
                  \/ \E s \in Threads \ {t} : InClear(u, s)]_obsVars

\* Why: until clear() returns, each of them has ended or is flagged, is the one
\* captured, or is in the hands of a clear(); before player.stop() the captured
\* one is flagged.
BacklogOK ==
    /\ backlog \in [Threads -> SUBSET Utt]
    /\ \A t \in Threads : pc[t] \in Clearing => \A u \in backlog[t] :
          \/ state[u] \in Terminal \/ cancelRequested[u]
          \/ u = snap[t]
          \/ \E s \in Threads : InClear(u, s)
    /\ \A t \in Threads : pc[t] = "stop" => cancelRequested[snap[t]]

MCSymmetry == Permutations(Utt) \cup Permutations(Threads)
=============================================================================
