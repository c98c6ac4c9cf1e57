------------------------ MODULE PlaybackQueueProofs ------------------------
(***************************************************************************)
(* Theorems about the playback queue, for any number of utterances and of  *)
(* API threads and every queue, history and chunk bound.                   *)
(***************************************************************************)
EXTENDS StopObserver, TLAPS

-----------------------------------------------------------------------------
(* The initial state *)

\* At first no utterance is anywhere.
LEMMA InitPlaceOK == Init => PlaceOK
<1> SUFFICES ASSUME Init PROVE PlaceOK
  OBVIOUS
<1>. USE DEF Init
<1>1. TypeOK
  <2>1. items \in Seq(Utt) /\ Len(items) <= MaxSize
    BY SizeAssumption
  <2>2. history \in Seq([id : Utt, state : Lifecycle]) /\ Len(history) <= HistorySize
    BY SizeAssumption
  <2>3. chunks \in [Utt -> 1..MaxChunks] /\ state \in [Utt -> Lifecycle]
    BY ChunksAssumption DEF Lifecycle
  <2>4. session \in {"idle", "playing", "stopped"}
    BY DEF Player!Init
  <2>5. pending \in [Threads -> Seq(Utt)]
    OBVIOUS
  <2>. QED BY <2>1, <2>2, <2>3, <2>4, <2>5 DEF TypeOK, WorkerPcs, ThreadPcs
<1>2. WorkerOK
  BY DEF WorkerOK, WorkerIdle, WorkerSpeaking
<1>3. ThreadOK
  BY DEF ThreadOK
<1>4. OwnerOK /\ NoneLost
  BY DEF OwnerOK, NoneLost, Live
<1>. QED BY <1>1, <1>2, <1>3, <1>4 DEF PlaceOK

-----------------------------------------------------------------------------
(* The worker *)

\* What the worker does to the utterance in its hands disturbs neither the API
\* threads nor the places of the other utterances.
LEMMA WorkerFrame ==
  ASSUME PlaceOK, UNCHANGED <<items, current, apiVars>>,
         state' \in [Utt -> Lifecycle],
         \A u \in Utt : u # current => state'[u] = state[u],
         current # None =>
            state'[current] = state[current] \/ state'[current] \notin {"new", "queued"}
  PROVE  ThreadOK' /\ OwnerOK' /\ NoneLost'
<1>1. current # None => current \in Utt /\ state[current] # "new"
  BY DEF PlaceOK, TypeOK, WorkerOK, WorkerPcs, WorkerIdle, WorkerSpeaking, Terminal
<1>. USE DEF PlaceOK, TypeOK
<1>2. ThreadOK'
  <2>1. ASSUME NEW t \in Threads, utt[t] \in Utt
        PROVE  /\ state[utt[t]] = "new" => state'[utt[t]] = "new"
               /\ state[utt[t]] # "new" => state'[utt[t]] # "new"
    BY <1>1, <2>1, NoneAssumption
  <2>2. ASSUME NEW t \in Threads, pc[t] = "record"
        PROVE  pending[t] # <<>> /\ state'[pending[t][1]] = "cancelled"
    <3>1. pending[t] # <<>> /\ state[pending[t][1]] = "cancelled"
      BY <2>2 DEF ThreadOK
    <3>2. 1 \in 1..Len(pending[t]) /\ pending[t][1] \in Utt
      BY <3>1
    <3>. QED BY <3>1, <3>2 DEF OwnerOK
  <2>. QED BY <2>1, <2>2 DEF ThreadOK, apiVars
<1>3. OwnerOK'
  <2>1. \A i \in 1..Len(items) : items[i] \in Utt
    OBVIOUS
  <2>2. \A t \in Threads : \A i \in 1..Len(pending[t]) : pending[t][i] \in Utt
    OBVIOUS
  <2>. QED BY <1>1, <2>1, <2>2 DEF OwnerOK, apiVars
<1>4. NoneLost'
  BY <1>1 DEF PlaceOK, NoneLost, TypeOK, Live, apiVars
<1>. QED BY <1>2, <1>3, <1>4

\* However the processing of an utterance ends, the invariant is kept.
LEMMA WorkerEndsKeeps ==
  ASSUME PlaceOK, NEW s \in Terminal, WorkerEnds(s),
         wpc \in WorkerPcs \ (WorkerIdle \cup {"retire"}),
         next' \in {"none", "pending", "running", "clip", "error"},
         orphan' \in Utt \cup {None},
         session' \in {"idle", "playing", "stopped"}
  PROVE  PlaceOK'
<1>1. current \in Utt /\ state[current] \notin Terminal
  BY DEF PlaceOK, TypeOK, WorkerOK, WorkerPcs, WorkerIdle, WorkerSpeaking, Terminal
<1>2. /\ state' = [state EXCEPT ![current] = s]
      /\ wpc' = "retire"
      /\ UNCHANGED <<queueVars, cancelRequested, chunks, chunk, clip, shutdown,
                     apiVars>>
  BY <1>1 DEF WorkerEnds, Finalize, Transition
<1>3. TypeOK'
  BY <1>1, <1>2 DEF PlaceOK, TypeOK, Lifecycle, Terminal, WorkerPcs, queueVars, apiVars
<1>4. WorkerOK'
  BY <1>1, <1>2, NoneAssumption
  DEF PlaceOK, TypeOK, WorkerOK, WorkerIdle, WorkerSpeaking, queueVars
<1>5. ThreadOK' /\ OwnerOK' /\ NoneLost'
  BY <1>1, <1>2, <1>3, WorkerFrame DEF PlaceOK, TypeOK, Terminal, queueVars
<1>. QED BY <1>3, <1>4, <1>5 DEF PlaceOK

\* The steps of the worker between the beginning and the end of an utterance.
LEMMA WorkerMovesKeep ==
  ASSUME PlaceOK,
         \/ WorkerWait \/ WorkerExit \/ WorkerStart \/ WorkerSynth \/ WorkerSpeak
         \/ WorkerLookahead \/ WorkerSubmit \/ WorkerGate \/ WorkerPlay
         \/ WorkerPlayCompletes \/ WorkerPlayed \/ WorkerCollect
  PROVE  PlaceOK'
<1>. USE DEF PlaceOK, TypeOK, queueVars, uttVars, apiVars, ghostVars
<1>1. wpc \in WorkerPcs \ WorkerIdle => current \in Utt /\ state[current] # "new"
  BY DEF WorkerOK, WorkerPcs, WorkerIdle, WorkerSpeaking, Terminal
<1>2. ASSUME UNCHANGED <<queueVars, uttVars, apiVars>>, TypeOK', WorkerOK'
      PROVE  PlaceOK'
  BY <1>2, WorkerFrame
<1>3. CASE WorkerWait \/ WorkerExit
  <2>1. TypeOK' /\ WorkerOK'
    BY <1>3 DEF WorkerWait, WorkerExit, WorkerPcs, WorkerOK, WorkerIdle, WorkerSpeaking
  <2>. QED BY <1>2, <1>3, <2>1 DEF WorkerWait, WorkerExit
<1>4. CASE WorkerStart
  <2>1. /\ current \in Utt /\ state[current] = "queued"
        /\ state' = [state EXCEPT ![current] = "synthesizing"] /\ wpc' = "synth"
    BY <1>1, <1>4 DEF WorkerStart, WorkerOK, Transition, Terminal, WorkerPcs, WorkerIdle
  <2>2. TypeOK'
    BY <1>4, <2>1 DEF WorkerStart, WorkerPcs, Lifecycle
  <2>3. WorkerOK'
    BY <1>4, <2>1, NoneAssumption DEF WorkerStart, WorkerOK, WorkerIdle, WorkerSpeaking
  <2>. QED BY <1>4, <2>1, <2>2, <2>3, WorkerFrame DEF WorkerStart
<1>5. CASE WorkerSpeak
  <2>1. /\ current \in Utt /\ state[current] = "synthesizing"
        /\ state' = [state EXCEPT ![current] = "speaking"]
        /\ wpc' \in {"play", "lookahead"}
    BY <1>1, <1>5 DEF WorkerSpeak, WorkerOK, Transition, Terminal, WorkerPcs, WorkerIdle
  <2>2. TypeOK'
    BY <1>5, <2>1 DEF WorkerSpeak, WorkerPcs, Lifecycle
  <2>3. WorkerOK'
    BY <1>5, <2>1, NoneAssumption DEF WorkerSpeak, WorkerOK, WorkerIdle, WorkerSpeaking
  <2>. QED BY <1>5, <2>1, <2>2, <2>3, WorkerFrame DEF WorkerSpeak
<1>6. CASE WorkerSynth
  <2>1. TypeOK' /\ WorkerOK'
    BY <1>6 DEF WorkerSynth, WorkerPcs, WorkerOK, WorkerIdle, WorkerSpeaking
  <2>. QED BY <1>2, <1>6, <2>1 DEF WorkerSynth
<1>7. CASE WorkerLookahead
  <2>1. TypeOK' /\ WorkerOK'
    BY <1>7 DEF WorkerLookahead, WorkerPcs, WorkerOK, WorkerIdle, WorkerSpeaking
  <2>. QED BY <1>2, <1>7, <2>1 DEF WorkerLookahead
<1>8. CASE WorkerSubmit
  <2>1. TypeOK' /\ WorkerOK'
    BY <1>8 DEF WorkerSubmit, WorkerPcs, WorkerOK, WorkerIdle, WorkerSpeaking
  <2>. QED BY <1>2, <1>8, <2>1 DEF WorkerSubmit
<1>9. CASE WorkerGate
  <2>1. TypeOK' /\ WorkerOK'
    BY <1>9 DEF WorkerGate, WorkerPcs, WorkerOK, WorkerIdle, WorkerSpeaking
  <2>. QED BY <1>2, <1>9, <2>1 DEF WorkerGate
<1>10. CASE WorkerPlay
  <2>1. TypeOK' /\ WorkerOK'
    BY <1>10 DEF WorkerPlay, WorkerPcs, WorkerOK, WorkerIdle, WorkerSpeaking, Player!Play
  <2>. QED BY <1>2, <1>10, <2>1 DEF WorkerPlay
<1>11. CASE WorkerPlayCompletes
  <2>1. TypeOK' /\ WorkerOK'
    BY <1>11 DEF WorkerPlayCompletes, WorkerPcs, WorkerOK, WorkerIdle, WorkerSpeaking, Player!Completed
  <2>. QED BY <1>2, <1>11, <2>1 DEF WorkerPlayCompletes
<1>12. CASE WorkerPlayed
  <2>1. TypeOK' /\ WorkerOK'
    BY <1>12 DEF WorkerPlayed, WorkerPcs, WorkerOK, WorkerIdle, WorkerSpeaking
  <2>. QED BY <1>2, <1>12, <2>1 DEF WorkerPlayed
<1>13. CASE WorkerCollect
  <2>1. TypeOK' /\ WorkerOK'
    BY <1>13 DEF WorkerCollect, WorkerPcs, WorkerOK, WorkerIdle, WorkerSpeaking
  <2>. QED BY <1>2, <1>13, <2>1 DEF WorkerCollect
<1>. QED BY <1>3, <1>4, <1>5, <1>6, <1>7, <1>8, <1>9, <1>10, <1>11, <1>12, <1>13

\* popleft(): the head of the deque comes into the worker's hands.
LEMMA WorkerTakeKeeps == PlaceOK /\ WorkerTake => PlaceOK'
<1> SUFFICES ASSUME PlaceOK, WorkerTake PROVE PlaceOK'
  OBVIOUS
<1>. USE DEF PlaceOK, TypeOK
<1>1. /\ current = None /\ items \in Seq(Utt) /\ items # <<>>
      /\ current' = items[1] /\ items' = Tail(items) /\ wpc' = "start"
      /\ UNCHANGED <<state, apiVars>>
  BY DEF WorkerTake, Pop, WorkerOK, WorkerIdle, uttVars
<1>2. /\ items[1] \in Utt
      /\ Len(items') = Len(items) - 1
      /\ \A i \in 1..Len(items') : items'[i] = items[i + 1] /\ i + 1 \in 1..Len(items)
      /\ 1 \in 1..Len(items)
  BY <1>1
<1>3. TypeOK'
  <2>1. items' \in Seq(Utt) /\ Len(items') <= MaxSize
    BY <1>1, <1>2, SizeAssumption
  <2>. QED BY <1>1, <1>2, <2>1 DEF WorkerTake, WorkerPcs, uttVars, apiVars
<1>4. WorkerOK'
  BY <1>1, <1>2, NoneAssumption DEF OwnerOK, WorkerOK, WorkerIdle, WorkerSpeaking
<1>5. ThreadOK'
  BY <1>1 DEF ThreadOK, apiVars
<1>6. OwnerOK'
  <2>1. \A i \in 1..Len(items') : state[items'[i]] = "queued" /\ items'[i] # current'
    BY <1>1, <1>2 DEF OwnerOK
  <2>2. \A i, j \in 1..Len(items') : items'[i] = items'[j] => i = j
    BY <1>1, <1>2 DEF OwnerOK
  <2>3. \A t \in Threads : \A i \in 1..Len(pending[t]) : pending[t][i] # current'
    BY <1>1, <1>2 DEF OwnerOK
  <2>4. \A t \in Threads : \A i \in 1..Len(pending[t]), j \in 1..Len(items') :
          pending[t][i] # items'[j]
    BY <1>1, <1>2 DEF OwnerOK
  <2>. QED BY <1>1, <2>1, <2>2, <2>3, <2>4 DEF OwnerOK, apiVars
<1>7. NoneLost'
  <2>1. ASSUME NEW u \in Utt, NEW i \in 1..Len(items), items[i] = u
        PROVE  u = current' \/ \E j \in 1..Len(items') : items'[j] = u
    <3>1. CASE i = 1
      BY <1>1, <2>1, <3>1
    <3>2. CASE i # 1
      <4>1. i - 1 \in 1..Len(items') /\ items'[i - 1] = u
        BY <1>1, <1>2, <2>1, <3>2
      <4>. QED BY <4>1
    <3>. QED BY <3>1, <3>2
  <2>2. ASSUME NEW u \in Utt, Live(u)'
        PROVE  \/ u = current'
               \/ \E j \in 1..Len(items') : items'[j] = u
               \/ \E t \in Threads : \E j \in 1..Len(pending[t]) : pending[t][j] = u
    <3>1. Live(u) /\ u # current
      BY <1>1, <2>2, NoneAssumption DEF Live
    <3>. QED BY <2>1, <3>1 DEF NoneLost
  <2>. QED BY <1>1, <2>2 DEF NoneLost, apiVars
<1>. QED BY <1>3, <1>4, <1>5, <1>6, <1>7

\* An append to the history evicts the oldest entry when it is full.
LEMMA RecordKeeps ==
  ASSUME TypeOK, NEW u \in Utt, Record(u)
  PROVE  history' \in Seq([id : Utt, state : Lifecycle]) /\ Len(history') <= HistorySize
<1>1. [id |-> u, state |-> state[u]] \in [id : Utt, state : Lifecycle]
  BY DEF TypeOK
<1>. DEFINE full == Append(history, [id |-> u, state |-> state[u]])
<1>2. full \in Seq([id : Utt, state : Lifecycle]) /\ Len(full) = Len(history) + 1
  BY <1>1 DEF TypeOK
<1>3. history' = IF Len(full) > HistorySize THEN Tail(full) ELSE full
  BY DEF Record
<1>4. Len(history) <= HistorySize /\ Len(history) \in Nat
  BY DEF TypeOK
<1>. HIDE DEF full
<1>5. Tail(full) \in Seq([id : Utt, state : Lifecycle]) /\ Len(Tail(full)) = Len(full) - 1
  BY <1>2, <1>4
<1>. QED BY <1>2, <1>3, <1>4, <1>5, SizeAssumption

\* The finally clause gives the utterance up; it has ended by then.
LEMMA WorkerRetireKeeps == PlaceOK /\ WorkerRetire => PlaceOK'
<1> SUFFICES ASSUME PlaceOK, WorkerRetire PROVE PlaceOK'
  OBVIOUS
<1>. USE DEF PlaceOK, TypeOK
<1>1. /\ current \in Utt /\ state[current] \in Terminal /\ current' = None
      /\ wpc' = "loop" /\ UNCHANGED <<items, state, apiVars>>
  BY DEF WorkerRetire, WorkerOK, WorkerIdle, uttVars
<1>2. history' \in Seq([id : Utt, state : Lifecycle]) /\ Len(history') <= HistorySize
  BY <1>1, RecordKeeps DEF WorkerRetire
<1>3. TypeOK'
  BY <1>1, <1>2 DEF WorkerRetire, WorkerPcs, uttVars, apiVars
<1>4. WorkerOK'
  BY <1>1 DEF WorkerOK, WorkerIdle, WorkerSpeaking
<1>5. ThreadOK'
  BY <1>1 DEF ThreadOK, apiVars
<1>6. OwnerOK'
  BY <1>1, NoneAssumption DEF OwnerOK, apiVars
<1>7. NoneLost'
  BY <1>1 DEF NoneLost, Live, Terminal, apiVars
<1>. QED BY <1>3, <1>4, <1>5, <1>6, <1>7

\* Every step of the worker keeps the invariant.
LEMMA WorkerKeeps == PlaceOK /\ Worker => PlaceOK'
<1> SUFFICES ASSUME PlaceOK, Worker PROVE PlaceOK'
  OBVIOUS
<1>1. /\ next \in {"none", "pending", "running", "clip", "error"}
      /\ orphan \in Utt \cup {None}
      /\ session \in {"idle", "playing", "stopped"}
      /\ current \in Utt \cup {None}
      /\ wpc \in WorkerPcs
  BY DEF PlaceOK, TypeOK
<1>2. wpc \notin WorkerIdle => current \in Utt
  BY <1>1 DEF PlaceOK, WorkerOK
<1>. USE DEF WorkerPcs, WorkerIdle, Terminal
<1>3. CASE \/ WorkerWait \/ WorkerExit \/ WorkerStart \/ WorkerSynth \/ WorkerSpeak
           \/ WorkerLookahead \/ WorkerSubmit \/ WorkerGate \/ WorkerPlay
           \/ WorkerPlayCompletes \/ WorkerPlayed \/ WorkerCollect
  BY <1>3, WorkerMovesKeep
<1>4. CASE WorkerTake
  BY <1>4, WorkerTakeKeeps
<1>5. CASE WorkerRetire
  BY <1>5, WorkerRetireKeeps
<1>6. CASE WorkerStartCancelled
  BY <1>1, <1>2, <1>6, WorkerEndsKeeps DEF WorkerStartCancelled
<1>7. CASE WorkerSynthFails
  BY <1>1, <1>2, <1>7, WorkerEndsKeeps DEF WorkerSynthFails
<1>8. CASE WorkerSynthesizedCancelled
  BY <1>1, <1>2, <1>8, WorkerEndsKeeps DEF WorkerSynthesizedCancelled
<1>9. CASE WorkerSubmitRaises
  BY <1>1, <1>2, <1>9, WorkerEndsKeeps DEF WorkerSubmitRaises
<1>10. CASE WorkerGateCancelled
  BY <1>1, <1>2, <1>10, WorkerEndsKeeps DEF WorkerGateCancelled, Abandon
<1>11. CASE WorkerPlayInterrupted
  BY <1>1, <1>2, <1>11, WorkerEndsKeeps DEF WorkerPlayInterrupted, Abandon, Player!Interrupted
<1>12. CASE WorkerPlayRaises
  BY <1>1, <1>2, <1>12, WorkerEndsKeeps DEF WorkerPlayRaises, Abandon, Player!Raised
<1>13. CASE WorkerPlayedCancelled
  BY <1>1, <1>2, <1>13, WorkerEndsKeeps DEF WorkerPlayedCancelled, Abandon
<1>14. CASE WorkerCollectFails
  BY <1>1, <1>2, <1>14, WorkerEndsKeeps DEF WorkerCollectFails
<1>15. CASE WorkerFinish
  BY <1>1, <1>2, <1>15, WorkerEndsKeeps DEF WorkerFinish
<1>. QED BY <1>3, <1>4, <1>5, <1>6, <1>7, <1>8, <1>9, <1>10, <1>11, <1>12, <1>13, <1>14, <1>15 DEF Worker

-----------------------------------------------------------------------------
(* The look-ahead executor *)

\* It moves no utterance.
LEMMA PrefetchKeeps == PlaceOK /\ Prefetch => PlaceOK'
<1> SUFFICES ASSUME PlaceOK, Prefetch PROVE PlaceOK'
  OBVIOUS
<1>1. UNCHANGED <<queueVars, uttVars, wpc, apiVars>>
  BY DEF Prefetch, PrefetchStart, PrefetchEnds, OrphanEnds
<1>2. TypeOK'
  BY DEF Prefetch, PrefetchStart, PrefetchEnds, OrphanEnds, PlaceOK, TypeOK,
         queueVars, uttVars, apiVars
<1>3. WorkerOK'
  BY <1>1 DEF PlaceOK, WorkerOK, queueVars, uttVars
<1>4. ThreadOK' /\ OwnerOK' /\ NoneLost'
  BY <1>1 DEF PlaceOK, ThreadOK, OwnerOK, NoneLost, Live, queueVars, uttVars, apiVars
<1>. QED BY <1>2, <1>3, <1>4 DEF PlaceOK

-----------------------------------------------------------------------------
(* The API threads *)

\* A step of thread t that changes neither the deque, the current utterance,
\* the utterances' states nor what clear() has in hand disturbs no owner.
LEMMA ThreadFrame ==
  ASSUME PlaceOK, UNCHANGED <<items, current, state, pending>>,
         \A t \in Threads : pc[t] = "record" => pc'[t] = "record"
  PROVE  OwnerOK' /\ NoneLost'
  BY DEF PlaceOK, OwnerOK, NoneLost, Live

\* A request arrives.
LEMMA RequestKeeps ==
  ASSUME NEW t \in Threads, PlaceOK, Request(t) PROVE PlaceOK'
<1>. USE DEF PlaceOK, TypeOK, queueVars, uttVars, workerVars, ghostVars
<1>1. CASE \E u \in Utt, interrupt \in BOOLEAN : Speak(t, u, interrupt)
  <2>1. PICK u \in Utt, interrupt \in BOOLEAN : Speak(t, u, interrupt)
    BY <1>1
  <2>2. TypeOK'
    BY <2>1 DEF Speak, ThreadPcs
  <2>3. WorkerOK'
    BY <2>1 DEF Speak, WorkerOK
  <2>4. ThreadOK'
    BY <2>1 DEF Speak, ThreadOK
  <2>5. OwnerOK' /\ NoneLost'
    BY <2>1, ThreadFrame DEF Speak
  <2>. QED BY <2>2, <2>3, <2>4, <2>5
<1>2. CASE CallStop(t)
  <2>1. TypeOK' /\ WorkerOK'
    BY <1>2 DEF CallStop, ThreadPcs, WorkerOK
  <2>2. ThreadOK'
    BY <1>2 DEF CallStop, ThreadOK
  <2>3. OwnerOK' /\ NoneLost'
    BY <1>2, ThreadFrame DEF CallStop
  <2>. QED BY <2>1, <2>2, <2>3
<1>3. CASE CallClose(t)
  <2>1. TypeOK' /\ WorkerOK'
    BY <1>3 DEF CallClose, ThreadPcs, WorkerOK
  <2>2. ThreadOK'
    BY <1>3 DEF CallClose, ThreadOK
  <2>3. OwnerOK' /\ NoneLost'
    BY <1>3, ThreadFrame DEF CallClose
  <2>. QED BY <2>1, <2>2, <2>3
<1>. QED BY <1>1, <1>2, <1>3 DEF Request

\* The steps of submit, wait and close outside clear(), but for the append.
LEMMA SubmitStepsKeep ==
  ASSUME NEW t \in Threads, PlaceOK,
         \/ EnqueueRejected(t) \/ (\E wait \in BOOLEAN : PublishQueued(t, wait))
         \/ AwaitReturns(t) \/ CloseNotify(t) \/ CloseJoined(t)
  PROVE  PlaceOK'
<1>. USE DEF PlaceOK, TypeOK, queueVars, uttVars, workerVars, ghostVars
<1>1. CASE EnqueueRejected(t)
  <2>1. TypeOK'
    BY <1>1 DEF EnqueueRejected, ThreadPcs, WorkerPcs
  <2>2. WorkerOK'
    BY <1>1 DEF EnqueueRejected, WorkerOK, WorkerIdle, WorkerSpeaking
  <2>3. ThreadOK'
    BY <1>1 DEF EnqueueRejected, ThreadOK
  <2>4. OwnerOK' /\ NoneLost'
    BY <1>1, ThreadFrame DEF EnqueueRejected
  <2>. QED BY <2>1, <2>2, <2>3, <2>4
<1>2. CASE \E wait \in BOOLEAN : PublishQueued(t, wait)
  <2>1. PICK wait \in BOOLEAN : PublishQueued(t, wait)
    BY <1>2
  <2>2. \/ pc' = [pc EXCEPT ![t] = "await"] /\ UNCHANGED <<op, utt>>
        \/ /\ pc' = [pc EXCEPT ![t] = "idle"]
           /\ op' = [op EXCEPT ![t] = "none"]
           /\ utt' = [utt EXCEPT ![t] = None]
    BY <2>1 DEF PublishQueued
  <2>3. /\ pc[t] = "publish"
        /\ UNCHANGED <<queueVars, uttVars, workerVars, session, pending, snap>>
    BY <2>1 DEF PublishQueued
  <2>4. TypeOK'
    BY <2>2, <2>3 DEF ThreadPcs
  <2>5. WorkerOK'
    BY <2>3 DEF WorkerOK
  <2>6. ThreadOK'
    <3>1. CASE pc' = [pc EXCEPT ![t] = "await"] /\ UNCHANGED <<op, utt>>
      BY <2>3, <3>1 DEF ThreadOK
    <3>2. CASE /\ pc' = [pc EXCEPT ![t] = "idle"]
               /\ op' = [op EXCEPT ![t] = "none"]
               /\ utt' = [utt EXCEPT ![t] = None]
      BY <2>3, <3>2 DEF ThreadOK
    <3>. QED BY <2>2, <3>1, <3>2
  <2>7. OwnerOK' /\ NoneLost'
    BY <2>2, <2>3, ThreadFrame
  <2>. QED BY <2>4, <2>5, <2>6, <2>7
<1>3. CASE AwaitReturns(t)
  <2>1. TypeOK'
    BY <1>3 DEF AwaitReturns, ThreadPcs, WorkerPcs
  <2>2. WorkerOK'
    BY <1>3 DEF AwaitReturns, WorkerOK, WorkerIdle, WorkerSpeaking
  <2>3. ThreadOK'
    BY <1>3 DEF AwaitReturns, ThreadOK
  <2>4. OwnerOK' /\ NoneLost'
    BY <1>3, ThreadFrame DEF AwaitReturns
  <2>. QED BY <2>1, <2>2, <2>3, <2>4
<1>4. CASE CloseNotify(t)
  <2>1. TypeOK'
    BY <1>4 DEF CloseNotify, Notify, ThreadPcs, WorkerPcs
  <2>2. WorkerOK'
    BY <1>4 DEF CloseNotify, Notify, WorkerOK, WorkerIdle, WorkerSpeaking
  <2>3. ThreadOK'
    BY <1>4 DEF CloseNotify, Notify, ThreadOK
  <2>4. OwnerOK' /\ NoneLost'
    BY <1>4, ThreadFrame DEF CloseNotify, Notify
  <2>. QED BY <2>1, <2>2, <2>3, <2>4
<1>5. CASE CloseJoined(t)
  <2>1. TypeOK'
    BY <1>5 DEF CloseJoined, ThreadPcs, WorkerPcs
  <2>2. WorkerOK'
    BY <1>5 DEF CloseJoined, WorkerOK, WorkerIdle, WorkerSpeaking
  <2>3. ThreadOK'
    BY <1>5 DEF CloseJoined, ThreadOK
  <2>4. OwnerOK' /\ NoneLost'
    BY <1>5, ThreadFrame DEF CloseJoined
  <2>. QED BY <2>1, <2>2, <2>3, <2>4
<1>. QED BY <1>1, <1>2, <1>3, <1>4, <1>5

\* The append: the utterance is new, so nobody owns it yet.
LEMMA EnqueueKeeps ==
  ASSUME NEW t \in Threads, PlaceOK, EnqueueAccepted(t) PROVE PlaceOK'
<1>. USE DEF PlaceOK, TypeOK, ghostVars
<1>. DEFINE u == utt[t]
<1>1. /\ u \in Utt /\ state[u] = "new" /\ pending[t] = <<>>
      /\ \A s \in Threads : s # t => utt[s] # u
  BY NoneAssumption DEF EnqueueAccepted, ThreadOK
<1>2. /\ items' = Append(items, u)
      /\ state' = [state EXCEPT ![u] = "queued"]
      /\ \E n \in 1..MaxChunks : chunks' = [chunks EXCEPT ![u] = n]
      /\ wpc' = IF wpc = "wait" THEN "loop" ELSE wpc
      /\ pc[t] = "enqueue" /\ pc' = [pc EXCEPT ![t] = "publish"]
      /\ ~(Len(items) >= MaxSize)
      /\ UNCHANGED <<current, history, closed, cancelRequested, chunk, clip, next,
                     orphan, shutdown, session, op, utt, pending, snap>>
  BY DEF EnqueueAccepted, Notify, Full
<1>0. u = utt[t]
  OBVIOUS
<1>. HIDE DEF u
<1>3. /\ Len(items') = Len(items) + 1 /\ items' \in Seq(Utt)
      /\ items'[Len(items) + 1] = u
      /\ \A i \in 1..Len(items) : items'[i] = items[i]
      /\ Len(items) \in Nat
  BY <1>1, <1>2
<1>4. TypeOK'
  BY <1>1, <1>2, <1>3, SizeAssumption DEF Lifecycle, ThreadPcs, WorkerPcs
<1>5. current # u
  BY <1>1, NoneAssumption
  DEF WorkerOK, WorkerPcs, WorkerIdle, WorkerSpeaking, Terminal
<1>6. WorkerOK'
  BY <1>1, <1>2, <1>5 DEF WorkerOK, WorkerIdle, WorkerSpeaking, Terminal
<1>7. \A i \in 1..Len(items) : items[i] # u /\ items[i] \in Utt
  BY <1>1 DEF OwnerOK
<1>8. \A s \in Threads : \A i \in 1..Len(pending[s]) :
         pending[s][i] # u /\ pending[s][i] \in Utt
  <2>1. \A s \in Threads : pending[s] \in Seq(Utt)
    OBVIOUS
  <2>2. \A s \in Threads : \A i \in 1..Len(pending[s]) :
           state[pending[s][i]] = "queued" \/ state[pending[s][i]] = "cancelled"
    BY <2>1 DEF OwnerOK, ThreadOK
  <2>3. ASSUME NEW s \in Threads, NEW i \in 1..Len(pending[s])
        PROVE  pending[s][i] # u /\ pending[s][i] \in Utt
    <3>1. pending[s][i] \in Utt
      BY <2>1
    <3>2. state[pending[s][i]] # "new"
      BY <2>2
    <3>. QED BY <1>1, <3>1, <3>2
  <2>. QED BY <2>3
<1>9. ThreadOK'
  <2>0. /\ pc \in [Threads -> ThreadPcs] /\ state \in [Utt -> Lifecycle]
        /\ \A s \in Threads : pending[s] \in Seq(Utt)
        /\ ThreadOK
    OBVIOUS
  <2>. HIDE DEF PlaceOK, TypeOK
  <2>1. /\ \A v \in Utt : state'[v] = IF v = u THEN "queued" ELSE state[v]
        /\ \A s \in Threads : pc'[s] = IF s = t THEN "publish" ELSE pc[s]
        /\ op' = op /\ utt' = utt /\ pending' = pending /\ snap' = snap
    BY <1>2, <2>0
  <2>2. ASSUME NEW s \in Threads
        PROVE  /\ pc'[s] \in {"clear", "cancel", "record", "stop"} => op'[s] # "none"
               /\ \/ pc'[s] = "enqueue"
                  \/ pc'[s] \in {"clear", "cancel", "record", "stop"} /\ op'[s] = "speak"
                  => utt'[s] \in Utt /\ state'[utt'[s]] = "new"
               /\ pc'[s] \in {"publish", "await"} =>
                     utt'[s] \in Utt /\ state'[utt'[s]] # "new"
               /\ pc'[s] \notin {"cancel", "record"} => pending'[s] = <<>>
               /\ pc'[s] = "record" =>
                     pending'[s] # <<>> /\ state'[pending'[s][1]] = "cancelled"
               /\ pc'[s] = "stop" => snap'[s] # None
    <3>1. CASE s = t
      BY <1>0, <1>1, <2>1, <3>1
    <3>2. CASE s # t
      <4>1. utt[s] # u
        BY <1>1, <3>2
      <4>2. pending[s] # <<>> => 1 \in 1..Len(pending[s])
        BY <2>0
      <4>3. pending[s] # <<>> => state'[pending[s][1]] = state[pending[s][1]]
        BY <1>8, <2>1, <4>2
      <4>. QED BY <2>0, <2>1, <3>2, <4>1, <4>3 DEF ThreadOK
    <3>. QED BY <3>1, <3>2
  <2>3. \A r, s \in Threads : utt'[r] = utt'[s] /\ utt'[r] # None => r = s
    BY <2>0, <2>1 DEF ThreadOK
  <2>. QED BY <2>2, <2>3 DEF ThreadOK
<1>10. OwnerOK'
  <2>0. OwnerOK /\ state \in [Utt -> Lifecycle]
    OBVIOUS
  <2>. HIDE DEF PlaceOK, TypeOK
  <2>1. \A i \in 1..Len(items') : i \in 1..Len(items) \/ i = Len(items) + 1
    BY <1>3
  <2>2. ASSUME NEW i \in 1..Len(items')
        PROVE  state'[items'[i]] = "queued" /\ items'[i] # current
    <3>1. CASE i \in 1..Len(items)
      <4>1. items'[i] = items[i] /\ items[i] # u /\ items[i] \in Utt
        BY <1>3, <1>7, <3>1
      <4>2. state[items[i]] = "queued" /\ items[i] # current
        BY <2>0, <3>1 DEF OwnerOK
      <4>. QED BY <1>2, <2>0, <4>1, <4>2
    <3>2. CASE i = Len(items) + 1
      BY <1>1, <1>2, <1>3, <1>5, <2>0, <3>2
    <3>. QED BY <2>1, <3>1, <3>2
  <2>3. \A i, j \in 1..Len(items') : items'[i] = items'[j] => i = j
    <3>1. \A i, j \in 1..Len(items) : items[i] = items[j] => i = j
      BY <2>0 DEF OwnerOK
    <3>. QED BY <1>3, <1>7, <2>1, <3>1
  <2>4. \A s \in Threads : \A i \in 1..Len(pending[s]), j \in 1..Len(items') :
          pending[s][i] # items'[j]
    <3>1. \A s \in Threads : \A i \in 1..Len(pending[s]), j \in 1..Len(items) :
            pending[s][i] # items[j]
      BY <2>0 DEF OwnerOK
    <3>2. ASSUME NEW s \in Threads, NEW i \in 1..Len(pending[s]),
                 NEW j \in 1..Len(items')
          PROVE  pending[s][i] # items'[j]
      <4>1. CASE j \in 1..Len(items)
        BY <1>3, <3>1, <4>1
      <4>2. CASE j = Len(items) + 1
        BY <1>3, <1>8, <4>2
      <4>. QED BY <2>1, <4>1, <4>2
    <3>. QED BY <3>2
  <2>5. ASSUME NEW s \in Threads, NEW i \in 1..Len(pending[s])
        PROVE  /\ state'[pending[s][i]] = "queued" \/ (i = 1 /\ pc'[s] = "record")
               /\ pending[s][i] # current
    <3>1. /\ state[pending[s][i]] = "queued" \/ (i = 1 /\ pc[s] = "record")
          /\ pending[s][i] # current
      BY <2>0 DEF OwnerOK
    <3>2. s # t
      BY <1>1
    <3>3. pc'[s] = pc[s]
      BY <1>2, <3>2
    <3>4. state'[pending[s][i]] = state[pending[s][i]]
      BY <1>2, <1>8, <2>0
    <3>. QED BY <3>1, <3>3, <3>4
  <2>6. /\ \A s \in Threads : \A i, j \in 1..Len(pending[s]) :
              pending[s][i] = pending[s][j] => i = j
        /\ \A r, s \in Threads :
              \A i \in 1..Len(pending[r]), j \in 1..Len(pending[s]) :
                 pending[r][i] = pending[s][j] => r = s
    BY <2>0 DEF OwnerOK
  <2>7. current' = current /\ pending' = pending
    BY <1>2
  <2>. QED BY <2>2, <2>3, <2>4, <2>5, <2>6, <2>7 DEF OwnerOK
<1>11. NoneLost'
  <2>1. ASSUME NEW v \in Utt, Live(v)', v # u
        PROVE  \/ v = current
               \/ \E i \in 1..Len(items') : items'[i] = v
               \/ \E s \in Threads : \E i \in 1..Len(pending[s]) : pending[s][i] = v
    <3>1. Live(v)
      BY <1>2, <2>1 DEF Live
    <3>2. \A i \in 1..Len(items) : i \in 1..Len(items')
      BY <1>3
    <3>. QED BY <1>3, <3>1, <3>2 DEF NoneLost
  <2>2. Len(items) + 1 \in 1..Len(items')
    BY <1>3
  <2>3. items'[Len(items) + 1] = u /\ current' = current /\ pending' = pending
    BY <1>2, <1>3
  <2>. HIDE DEF PlaceOK, TypeOK, Live
  <2>. QED BY <2>1, <2>2, <2>3 DEF NoneLost
<1>. QED BY <1>4, <1>6, <1>9, <1>10, <1>11

\* The steps of clear() that leave every utterance where it is.
LEMMA ClearStepsKeep ==
  ASSUME NEW t \in Threads, PlaceOK,
         ClearFlag(t) \/ ClearNoCurrent(t) \/ ClearStop(t)
  PROVE  PlaceOK'
<1>. USE DEF PlaceOK, TypeOK, queueVars, uttVars, workerVars, ghostVars
<1>1. CASE ClearFlag(t)
  <2>1. snap[t] # None
    BY <1>1 DEF ClearFlag, CapturedLive
  <2>2. TypeOK'
    BY <1>1 DEF ClearFlag, ThreadPcs
  <2>3. WorkerOK'
    BY <1>1 DEF ClearFlag, WorkerOK
  <2>4. ThreadOK'
    <3>1. /\ pc \in [Threads -> ThreadPcs] /\ pc[t] = "cancel" /\ pending[t] = <<>>
          /\ pc' = [pc EXCEPT ![t] = "stop"]
          /\ snap \in [Threads -> Utt \cup {None}] /\ snap' = snap
          /\ UNCHANGED <<state, op, utt, pending>> /\ ThreadOK
      BY <1>1 DEF ClearFlag
    <3>. HIDE DEF PlaceOK, TypeOK
    <3>. QED BY <2>1, <3>1 DEF ThreadOK
  <2>5. OwnerOK' /\ NoneLost'
    BY <1>1, ThreadFrame DEF ClearFlag
  <2>. QED BY <2>2, <2>3, <2>4, <2>5
<1>2. ASSUME AfterClear(t), pc[t] \in {"cancel", "stop"}, pending[t] = <<>>,
             UNCHANGED <<queueVars, uttVars, workerVars, utt, pending>>,
             session' \in {"idle", "playing", "stopped"}
      PROVE  PlaceOK'
  <2>1. /\ pc'[t] \in {"enqueue", "notify", "idle"}
        /\ pc'[t] = "enqueue" => op[t] = "speak"
        /\ pc' = [pc EXCEPT ![t] = pc'[t]]
        /\ op'[t] \in {"none", op[t]}
        /\ op' = [op EXCEPT ![t] = op'[t]]
        /\ snap' = [snap EXCEPT ![t] = None]
    BY <1>2 DEF AfterClear
  <2>2. TypeOK'
    <3>1. pc' \in [Threads -> ThreadPcs]
      <4>1. pc \in [Threads -> ThreadPcs] /\ pc'[t] \in ThreadPcs
        BY <2>1 DEF ThreadPcs
      <4>. HIDE DEF PlaceOK, TypeOK
      <4>. QED BY <2>1, <4>1
    <3>2. op' \in [Threads -> {"none", "speak", "stop", "close"}]
      <4>1. /\ op \in [Threads -> {"none", "speak", "stop", "close"}]
            /\ op'[t] \in {"none", "speak", "stop", "close"}
        BY <2>1
      <4>. HIDE DEF PlaceOK, TypeOK
      <4>. QED BY <2>1, <4>1
    <3>3. snap' \in [Threads -> Utt \cup {None}]
      BY <2>1
    <3>. QED BY <1>2, <3>1, <3>2, <3>3
  <2>3. WorkerOK'
    BY <1>2 DEF WorkerOK
  <2>4. ThreadOK'
    BY <1>2, <2>1 DEF ThreadOK
  <2>5. OwnerOK' /\ NoneLost'
    BY <1>2, <2>1, ThreadFrame
  <2>. QED BY <2>2, <2>3, <2>4, <2>5
<1>3. CASE ClearNoCurrent(t)
  BY <1>2, <1>3 DEF ClearNoCurrent
<1>4. CASE ClearStop(t)
  <2>1. pc[t] = "stop" /\ pending[t] = <<>>
    BY <1>4 DEF ClearStop, ThreadOK
  <2>. QED BY <1>2, <1>4, <2>1 DEF ClearStop, Player!Stop
<1>. QED BY <1>1, <1>3, <1>4

\* clear() takes the whole deque into its hands.
LEMMA ClearTakeKeeps ==
  ASSUME NEW t \in Threads, PlaceOK, ClearTake(t) PROVE PlaceOK'
<1>. USE DEF PlaceOK, TypeOK, uttVars, workerVars, ghostVars
<1>1. /\ pc[t] = "clear" /\ pending[t] = <<>>
      /\ pending' = [pending EXCEPT ![t] = items] /\ items' = <<>>
      /\ snap' = [snap EXCEPT ![t] = current]
      /\ pc' = [pc EXCEPT ![t] = "cancel"]
      /\ UNCHANGED <<current, history, closed, uttVars, workerVars, session, op, utt>>
  BY DEF ClearTake, TakeAll, ThreadOK
<1>2. TypeOK'
  BY <1>1, SizeAssumption DEF ThreadPcs
<1>3. WorkerOK'
  BY <1>1 DEF WorkerOK
<1>4. ThreadOK'
  BY <1>1 DEF ThreadOK
<1>5. OwnerOK'
  <2>1. \A s \in Threads : pending'[s] = IF s = t THEN items ELSE pending[s]
    BY <1>1
  <2>2. \A s \in Threads : \A i \in 1..Len(pending'[s]) :
          /\ state[pending'[s][i]] = "queued" \/ (i = 1 /\ pc'[s] = "record")
          /\ pending'[s][i] # current
    BY <1>1, <2>1 DEF OwnerOK
  <2>3. \A s \in Threads : \A i, j \in 1..Len(pending'[s]) :
          pending'[s][i] = pending'[s][j] => i = j
    <3>1. /\ \A i, j \in 1..Len(items) : items[i] = items[j] => i = j
          /\ \A s \in Threads : \A i, j \in 1..Len(pending[s]) :
                pending[s][i] = pending[s][j] => i = j
      BY DEF OwnerOK
    <3>. HIDE DEF PlaceOK, TypeOK
    <3>. QED BY <2>1, <3>1
  <2>4. ASSUME NEW r \in Threads, NEW s \in Threads,
               NEW i \in 1..Len(pending'[r]), NEW j \in 1..Len(pending'[s]),
               pending'[r][i] = pending'[s][j], r # s
        PROVE  FALSE
    <3>1. CASE r = t
      <4>1. pending'[r] = items /\ pending'[s] = pending[s]
        BY <2>1, <2>4, <3>1
      <4>. QED BY <2>4, <4>1 DEF OwnerOK
    <3>2. CASE s = t
      <4>1. pending'[s] = items /\ pending'[r] = pending[r]
        BY <2>1, <2>4, <3>2
      <4>. QED BY <2>4, <4>1 DEF OwnerOK
    <3>3. CASE r # t /\ s # t
      <4>1. pending'[s] = pending[s] /\ pending'[r] = pending[r]
        BY <2>1, <3>3
      <4>. QED BY <2>4, <4>1 DEF OwnerOK
    <3>. QED BY <3>1, <3>2, <3>3
  <2>. QED BY <1>1, <2>2, <2>3, <2>4 DEF OwnerOK
<1>6. NoneLost'
  <2>1. ASSUME NEW u \in Utt, Live(u), u # current
        PROVE  \E s \in Threads : \E i \in 1..Len(pending'[s]) : pending'[s][i] = u
    <3>1. CASE \E i \in 1..Len(items) : items[i] = u
      <4>1. pending'[t] = items
        BY <1>1
      <4>. QED BY <3>1, <4>1
    <3>2. CASE \E s \in Threads : \E i \in 1..Len(pending[s]) : pending[s][i] = u
      <4>1. PICK s \in Threads : \E i \in 1..Len(pending[s]) : pending[s][i] = u
        BY <3>2
      <4>2. s # t
        BY <1>1, <4>1
      <4>3. pending'[s] = pending[s]
        BY <1>1, <4>2
      <4>. QED BY <4>1, <4>3
    <3>. QED BY <2>1, <3>1, <3>2 DEF NoneLost
  <2>. QED BY <1>1, <2>1 DEF NoneLost, Live
<1>. QED BY <1>2, <1>3, <1>4, <1>5, <1>6

\* The first utterance in the hands of clear() is cancelled.
LEMMA ClearCancelKeeps ==
  ASSUME NEW t \in Threads, PlaceOK, ClearCancel(t) PROVE PlaceOK'
<1>. USE DEF PlaceOK, TypeOK, queueVars, workerVars, ghostVars
<1>. DEFINE u == pending[t][1]
<1>1. /\ pending[t] \in Seq(Utt) /\ pending[t] # <<>> /\ 1 \in 1..Len(pending[t])
      /\ pc[t] = "cancel" /\ u \in Utt /\ u = Head(pending[t])
  BY DEF ClearCancel
<1>2. state[u] = "queued" /\ u # current
  BY <1>1 DEF OwnerOK
<1>3. /\ state' = [state EXCEPT ![u] = "cancelled"]
      /\ cancelRequested' = [cancelRequested EXCEPT ![u] = TRUE]
      /\ pc' = [pc EXCEPT ![t] = "record"]
      /\ UNCHANGED <<queueVars, chunks, workerVars, session, op, utt, pending, snap>>
  BY <1>1, <1>2 DEF ClearCancel, Transition, Terminal
<1>4. u = pending[t][1]
  OBVIOUS
<1>5. \A s \in Threads : \A i \in 1..Len(pending[s]) :
         pending[s][i] \in Utt /\ (pending[s][i] = u => s = t /\ i = 1)
  BY <1>1 DEF OwnerOK
<1>6. \A i \in 1..Len(items) : items[i] \in Utt /\ items[i] # u
  BY <1>1 DEF OwnerOK
<1>. HIDE DEF u
<1>7. TypeOK'
  BY <1>1, <1>3 DEF ThreadPcs, Lifecycle, Terminal
<1>8. WorkerOK'
  <2>1. \A s : wpc = s /\ s \notin WorkerIdle => current \in Utt
    BY DEF WorkerOK
  <2>. QED BY <1>1, <1>2, <1>3, <2>1 DEF WorkerOK, WorkerIdle, WorkerSpeaking
<1>9. ThreadOK'
  <2>1. \A s \in Threads : pc[s] = "record" => 1 \in 1..Len(pending[s])
    BY DEF ThreadOK
  <2>2. \A s \in Threads : pc[s] = "record" => state'[pending[s][1]] = "cancelled"
    BY <1>1, <1>3, <1>5, <2>1 DEF ThreadOK
  <2>3. \A s \in Threads : utt[s] \in Utt =>
          /\ state[utt[s]] = "new" => state'[utt[s]] = "new"
          /\ state[utt[s]] # "new" => state'[utt[s]] # "new"
    BY <1>1, <1>2, <1>3
  <2>4. state'[pending[t][1]] = "cancelled"
    BY <1>1, <1>3, <1>4
  <2>. QED BY <1>1, <1>3, <2>2, <2>3, <2>4 DEF ThreadOK
<1>10. OwnerOK'
  <2>1. \A i \in 1..Len(items) : state'[items[i]] = "queued" /\ items[i] # current
    BY <1>1, <1>3, <1>6 DEF OwnerOK
  <2>2. ASSUME NEW s \in Threads, NEW i \in 1..Len(pending[s])
        PROVE  state'[pending[s][i]] = "queued" \/ (i = 1 /\ pc'[s] = "record")
    <3>1. CASE pending[s][i] = u
      BY <1>3, <1>5, <3>1
    <3>2. CASE pending[s][i] # u
      <4>1. state'[pending[s][i]] = state[pending[s][i]]
        BY <1>3, <1>5, <3>2
      <4>2. pc[s] = "record" => pc'[s] = "record"
        BY <1>1, <1>3
      <4>. QED BY <4>1, <4>2 DEF OwnerOK
    <3>. QED BY <3>1, <3>2
  <2>. QED BY <1>3, <2>1, <2>2 DEF OwnerOK
<1>11. NoneLost'
  BY <1>1, <1>2, <1>3 DEF NoneLost, Live
<1>. QED BY <1>7, <1>8, <1>9, <1>10, <1>11

\* The utterance just cancelled leaves the hands of clear() for the history.
LEMMA ClearRecordKeeps ==
  ASSUME NEW t \in Threads, PlaceOK, ClearRecord(t) PROVE PlaceOK'
<1>. USE DEF PlaceOK, TypeOK, uttVars, workerVars
<1>1. /\ pc[t] = "record" /\ pending[t] \in Seq(Utt) /\ pending[t] # <<>>
      /\ pending[t][1] \in Utt /\ state[pending[t][1]] = "cancelled"
      /\ Head(pending[t]) = pending[t][1]
  BY DEF ClearRecord, ThreadOK
<1>2. /\ pending' = [pending EXCEPT ![t] = Tail(pending[t])]
      /\ pc' = [pc EXCEPT ![t] = "cancel"]
      /\ UNCHANGED <<items, current, closed, uttVars, workerVars, session, op, utt,
                     snap>>
  BY DEF ClearRecord
<1>3. /\ Tail(pending[t]) \in Seq(Utt)
      /\ \A i \in 1..Len(Tail(pending[t])) :
            /\ Tail(pending[t])[i] = pending[t][i + 1]
            /\ i + 1 \in 1..Len(pending[t]) /\ i + 1 # 1
      /\ \A i \in 1..Len(pending[t]) : i # 1 =>
            i - 1 \in 1..Len(Tail(pending[t])) /\ Tail(pending[t])[i - 1] = pending[t][i]
  BY <1>1
<1>4. TypeOK'
  <2>1. history' \in Seq([id : Utt, state : Lifecycle]) /\ Len(history') <= HistorySize
    BY <1>1, RecordKeeps DEF ClearRecord
  <2>. QED BY <1>2, <1>3, <2>1 DEF ThreadPcs
<1>5. WorkerOK'
  BY <1>2 DEF WorkerOK
<1>6. ThreadOK'
  BY <1>1, <1>2 DEF ThreadOK
<1>7. \A s \in Threads : pending'[s] = IF s = t THEN Tail(pending[t]) ELSE pending[s]
  BY <1>2
<1>8. OwnerOK'
  <2>1. \A s \in Threads : \A i \in 1..Len(pending'[s]) :
          \E k \in 1..Len(pending[s]) :
             /\ pending'[s][i] = pending[s][k]
             /\ IF s = t THEN k = i + 1 ELSE k = i
    BY <1>3, <1>7
  <2>2. ASSUME NEW s \in Threads, NEW i \in 1..Len(pending'[s])
        PROVE  /\ state[pending'[s][i]] = "queued" \/ (i = 1 /\ pc'[s] = "record")
               /\ pending'[s][i] # current
    <3>1. CASE s = t
      <4>1. pending'[s][i] = pending[s][i + 1] /\ i + 1 \in 1..Len(pending[s]) /\ i + 1 # 1
        BY <1>3, <1>7, <3>1
      <4>2. state[pending[s][i + 1]] = "queued" /\ pending[s][i + 1] # current
        BY <4>1 DEF OwnerOK
      <4>. QED BY <4>1, <4>2
    <3>2. CASE s # t
      BY <1>2, <1>7, <3>2 DEF OwnerOK
    <3>. QED BY <3>1, <3>2
  <2>3. ASSUME NEW s \in Threads, NEW i \in 1..Len(pending'[s]),
               NEW j \in 1..Len(pending'[s]), pending'[s][i] = pending'[s][j]
        PROVE  i = j
    <3>1. \A k, l \in 1..Len(pending[s]) : pending[s][k] = pending[s][l] => k = l
      BY DEF OwnerOK
    <3>2. PICK k \in 1..Len(pending[s]) :
             /\ pending'[s][i] = pending[s][k]
             /\ IF s = t THEN k = i + 1 ELSE k = i
      BY <2>1
    <3>3. PICK l \in 1..Len(pending[s]) :
             /\ pending'[s][j] = pending[s][l]
             /\ IF s = t THEN l = j + 1 ELSE l = j
      BY <2>1
    <3>4. k = l
      BY <2>3, <3>1, <3>2, <3>3
    <3>5. \A n \in Threads : pending'[n] \in Seq(Utt)
      BY <1>4
    <3>6. i \in Nat /\ j \in Nat
      BY <3>5
    <3>. QED BY <3>2, <3>3, <3>4, <3>6
  <2>4. \A s \in Threads : \A i \in 1..Len(pending'[s]), j \in 1..Len(items) :
          pending'[s][i] # items[j]
    BY <2>1 DEF OwnerOK
  <2>5. ASSUME NEW r \in Threads, NEW s \in Threads,
               NEW i \in 1..Len(pending'[r]), NEW j \in 1..Len(pending'[s]),
               pending'[r][i] = pending'[s][j]
        PROVE  r = s
    <3>1. \E k \in 1..Len(pending[r]) : pending'[r][i] = pending[r][k]
      BY <2>1
    <3>2. \E k \in 1..Len(pending[s]) : pending'[s][j] = pending[s][k]
      BY <2>1
    <3>3. \A k \in 1..Len(pending[r]), l \in 1..Len(pending[s]) :
             pending[r][k] = pending[s][l] => r = s
      BY DEF OwnerOK
    <3>. HIDE DEF PlaceOK, TypeOK
    <3>. QED BY <2>5, <3>1, <3>2, <3>3
  <2>6. /\ \A i \in 1..Len(items) : state[items[i]] = "queued" /\ items[i] # current
        /\ \A i, j \in 1..Len(items) : items[i] = items[j] => i = j
    BY DEF OwnerOK
  <2>7. UNCHANGED <<items, current, state>>
    BY <1>2
  <2>. HIDE DEF PlaceOK, TypeOK
  <2>. QED BY <2>2, <2>3, <2>4, <2>5, <2>6, <2>7 DEF OwnerOK
<1>9. NoneLost'
  <2>1. ASSUME NEW u \in Utt, Live(u), NEW s \in Threads,
               NEW i \in 1..Len(pending[s]), pending[s][i] = u
        PROVE  \E k \in 1..Len(pending'[s]) : pending'[s][k] = u
    <3>1. CASE s = t
      <4>1. i # 1
        BY <1>1, <2>1, <3>1 DEF Live
      <4>2. i - 1 \in 1..Len(pending'[s]) /\ pending'[s][i - 1] = u
        BY <1>3, <1>7, <2>1, <3>1, <4>1
      <4>. QED BY <4>2
    <3>2. CASE s # t
      BY <1>7, <2>1, <3>2
    <3>. QED BY <3>1, <3>2
  <2>2. ASSUME NEW u \in Utt, Live(u)
        PROVE  \/ u = current
               \/ \E i \in 1..Len(items) : items[i] = u
               \/ \E s \in Threads : \E i \in 1..Len(pending'[s]) : pending'[s][i] = u
    BY <2>1, <2>2 DEF NoneLost
  <2>3. state' = state /\ items' = items /\ current' = current
    BY <1>2
  <2>. HIDE DEF PlaceOK, TypeOK
  <2>. QED BY <2>2, <2>3 DEF NoneLost, Live
<1>. QED BY <1>4, <1>5, <1>6, <1>8, <1>9

-----------------------------------------------------------------------------
(* Where the utterances are *)

\* The invariant is inductive: every step of every thread keeps it.
LEMMA NextKeepsPlaceOK == PlaceOK /\ [Next]_vars => PlaceOK'
<1> SUFFICES ASSUME PlaceOK, [Next]_vars PROVE PlaceOK'
  OBVIOUS
<1>1. CASE Worker
  BY <1>1, WorkerKeeps
<1>2. CASE Prefetch
  BY <1>2, PrefetchKeeps
<1>3. ASSUME NEW t \in Threads, Request(t) PROVE PlaceOK'
  BY <1>3, RequestKeeps
<1>4. ASSUME NEW t \in Threads, Serve(t) PROVE PlaceOK'
  BY <1>4, SubmitStepsKeep, EnqueueKeeps, ClearStepsKeep, ClearTakeKeeps,
     ClearCancelKeeps, ClearRecordKeeps
  DEF Serve
<1>5. CASE UNCHANGED vars
  BY <1>5
  DEF vars, queueVars, uttVars, workerVars, apiVars, PlaceOK, TypeOK, WorkerOK,
      ThreadOK, OwnerOK, NoneLost, Live
<1>. QED BY <1>1, <1>2, <1>3, <1>4, <1>5 DEF Next

\* In every reachable state where the worker is, what each thread has in hand and
\* the state of every utterance agree.
LEMMA Places == Spec => []PlaceOK
  BY InitPlaceOK, NextKeepsPlaceOK, PTL DEF Spec

\* Every field keeps its type, the deque never exceeds max_size and the history
\* never exceeds history_size (TypeOK), for all bounds and any number of threads.
THEOREM TypeCorrect == Spec => []TypeOK
<1>1. PlaceOK => TypeOK
  BY DEF PlaceOK
<1>. QED BY <1>1, Places, PTL

\* No utterance is ever lost or held twice (OneOwner), however many clients
\* submit, stop and close at the same time.
THEOREM OneOwnerHolds == Spec => []OneOwner
<1>1. PlaceOK => OneOwner
  <2> SUFFICES ASSUME PlaceOK PROVE OneOwner
    OBVIOUS
  <2>1. /\ \A u \in Utt : InDeque(u) <=> \E i \in 1..Len(items) : items[i] = u
        /\ \A u \in Utt, t \in Threads :
              InClear(u, t) <=> \E i \in 1..Len(pending[t]) : pending[t][i] = u
    <3>1. items \in Seq(Utt) /\ \A t \in Threads : pending[t] \in Seq(Utt)
      BY DEF PlaceOK, TypeOK
    <3>2. DOMAIN items = 1..Len(items)
          /\ \A t \in Threads : DOMAIN pending[t] = 1..Len(pending[t])
      BY <3>1
    <3>. QED BY <3>2 DEF InDeque, InClear, Range
  <2>2. \A u \in Utt : Live(u) =>
          InDeque(u) \/ InProcess(u) \/ \E t \in Threads : InClear(u, t)
    BY <2>1 DEF PlaceOK, NoneLost, InProcess
  <2>3. \A u \in Utt : InDeque(u) => ~InProcess(u)
    BY <2>1 DEF PlaceOK, OwnerOK, InProcess
  <2>4. \A u \in Utt, t \in Threads : InClear(u, t) => ~InDeque(u) /\ ~InProcess(u)
    BY <2>1 DEF PlaceOK, OwnerOK, InProcess
  <2>5. \A u \in Utt, s, t \in Threads : InClear(u, s) /\ InClear(u, t) => s = t
    BY <2>1 DEF PlaceOK, OwnerOK
  <2>6. IsInjective(items) /\ \A t \in Threads : IsInjective(pending[t])
    <3>1. items \in Seq(Utt) /\ \A t \in Threads : pending[t] \in Seq(Utt)
      BY DEF PlaceOK, TypeOK
    <3>2. DOMAIN items = 1..Len(items)
          /\ \A t \in Threads : DOMAIN pending[t] = 1..Len(pending[t])
      BY <3>1
    <3>3. /\ \A i, j \in 1..Len(items) : items[i] = items[j] => i = j
          /\ \A t \in Threads : \A i, j \in 1..Len(pending[t]) :
                pending[t][i] = pending[t][j] => i = j
      BY DEF PlaceOK, OwnerOK
    <3>. QED BY <3>2, <3>3 DEF IsInjective
  <2>. QED BY <2>2, <2>3, <2>4, <2>5, <2>6 DEF OneOwner
<1>. QED BY <1>1, Places, PTL

-----------------------------------------------------------------------------
(* The code implements the abstract queue *)

\* At first the abstract queue is empty.
LEMMA InitRefines == Init => Abstract!Init
<1> SUFFICES ASSUME Init PROVE Abstract!Init
  OBVIOUS
<1>1. \A u \in Utt, t \in Threads : ~InClear(u, t)
  BY DEF Init, InClear, Range
<1>2. absOutcome = [u \in Utt |-> "new"]
  BY <1>1 DEF Init, absOutcome, Live
<1>. QED BY <1>2 DEF Init, Abstract!Init, absLane

\* A step that moves no utterance, and changes the state only of live ones that
\* stay live, is invisible.
LEMMA Invisible ==
  ASSUME UNCHANGED <<items, current, pending>>,
         current \in Utt \cup {None},
         \A u \in Utt : state'[u] = state[u] \/ (Live(u) /\ Live(u)')
  PROVE  UNCHANGED Abstract!absVars
<1>1. \A u \in Utt : Live(u)' <=> Live(u)
  BY DEF Live
<1>2. \A u \in Utt, t \in Threads : InClear(u, t)' <=> InClear(u, t)
  BY DEF InClear
<1>3. absLane' = absLane
  BY <1>1 DEF absLane
<1>4. absOutcome' = absOutcome
  <2>1. ASSUME NEW u \in Utt, ~Live(u) PROVE state'[u] = state[u]
    BY <2>1
  <2>. QED BY <1>1, <1>2, <2>1 DEF absOutcome
<1>. QED BY <1>3, <1>4 DEF Abstract!absVars

\* Membership in the hands of a clear(), by position.
LEMMA InHands ==
  ASSUME TypeOK, NEW u \in Utt, NEW t \in Threads
  PROVE  InClear(u, t) <=> \E i \in 1..Len(pending[t]) : pending[t][i] = u
<1>1. DOMAIN pending[t] = 1..Len(pending[t])
  <2>1. pending[t] \in Seq(Utt)
    BY DEF TypeOK
  <2>. QED BY <2>1
<1>. QED BY <1>1 DEF InClear, Range

\* The utterance that clear() is about to cancel is queued, and in no other hands;
\* the one it is about to record is cancelled.
LEMMA HeadFacts ==
  ASSUME PlaceOK, NEW t \in Threads, pending[t] # <<>>
  PROVE  /\ Head(pending[t]) = pending[t][1] /\ pending[t][1] \in Utt
         /\ 1 \in 1..Len(pending[t]) /\ pending[t] \in Seq(Utt)
         /\ pending[t][1] # current
         /\ pc[t] = "cancel" => state[pending[t][1]] = "queued"
         /\ pc[t] = "record" => state[pending[t][1]] = "cancelled"
<1>1. pending[t] \in Seq(Utt)
  BY DEF PlaceOK, TypeOK
<1>2. Head(pending[t]) = pending[t][1] /\ pending[t][1] \in Utt /\ 1 \in 1..Len(pending[t])
  BY <1>1
<1>3. /\ state[pending[t][1]] = "queued" \/ pc[t] = "record"
      /\ pending[t][1] # current
  BY <1>2 DEF PlaceOK, OwnerOK
<1>. QED BY <1>1, <1>2, <1>3 DEF PlaceOK, ThreadOK

\* What clear() has dealt with leaves its hands, and was in no others.
LEMMA TailHands ==
  ASSUME PlaceOK, NEW t \in Threads, pending[t] # <<>>,
         pending' = [pending EXCEPT ![t] = Tail(@)]
  PROVE  \A v \in Utt, s \in Threads :
            InClear(v, s)' <=> InClear(v, s) /\ v # pending[t][1]
<1>1. /\ pending[t] \in Seq(Utt) /\ pending[t][1] \in Utt /\ 1 \in 1..Len(pending[t])
  BY HeadFacts
<1>2. \A s \in Threads : pending'[s] = IF s = t THEN Tail(pending[t]) ELSE pending[s]
  BY DEF PlaceOK, TypeOK
<1>3. \A v \in Utt, s \in Threads :
         InClear(v, s) <=> \E i \in 1..Len(pending[s]) : pending[s][i] = v
  BY InHands DEF PlaceOK
<1>4. ASSUME NEW v \in Utt
      PROVE  InClear(v, t)' <=> InClear(v, t) /\ v # pending[t][1]
  <2>1. /\ DOMAIN Tail(pending[t]) = 1..Len(pending[t]) - 1 /\ Len(pending[t]) \in Nat
        /\ \A i \in 1..Len(pending[t]) - 1 :
              i + 1 \in 1..Len(pending[t]) /\ Tail(pending[t])[i] = pending[t][i + 1]
    BY <1>1
  <2>2. InClear(v, t)' <=> \E i \in 1..Len(pending[t]) - 1 : pending[t][i + 1] = v
    <3>1. pending'[t] = Tail(pending[t])
      BY <1>2
    <3>2. InClear(v, t)' <=> \E i \in DOMAIN Tail(pending[t]) : Tail(pending[t])[i] = v
      BY <3>1 DEF InClear, Range
    <3>. QED BY <2>1, <3>2
  <2>3. \A i, j \in 1..Len(pending[t]) : pending[t][i] = pending[t][j] => i = j
    BY DEF PlaceOK, OwnerOK
  <2>4. ASSUME NEW i \in 1..Len(pending[t]) - 1, pending[t][i + 1] = v
        PROVE  InClear(v, t) /\ v # pending[t][1]
    <3>1. i + 1 \in 1..Len(pending[t]) /\ i + 1 # 1
      BY <2>1
    <3>. QED BY <1>1, <1>3, <2>3, <2>4, <3>1
  <2>5. ASSUME NEW j \in 1..Len(pending[t]), pending[t][j] = v, v # pending[t][1]
        PROVE  \E i \in 1..Len(pending[t]) - 1 : pending[t][i + 1] = v
    <3>1. j # 1
      BY <2>5
    <3>2. j - 1 \in 1..Len(pending[t]) - 1 /\ (j - 1) + 1 = j
      BY <2>1, <3>1
    <3>. QED BY <2>5, <3>2
  <2>. QED BY <1>3, <2>2, <2>4, <2>5
<1>5. ASSUME NEW v \in Utt, NEW s \in Threads, s # t
      PROVE  InClear(v, s)' <=> InClear(v, s) /\ v # pending[t][1]
  <2>1. InClear(v, s)' <=> InClear(v, s)
    BY <1>2, <1>5 DEF InClear
  <2>2. InClear(v, s) => v # pending[t][1]
    BY <1>1, <1>3, <1>5 DEF PlaceOK, OwnerOK
  <2>. QED BY <2>1, <2>2
<1>. QED BY <1>4, <1>5

\* When the processing of an utterance ends, the lane is left with its outcome.
LEMMA WorkerEndsRefines ==
  ASSUME PlaceOK, PlaceOK', NEW s \in Terminal, WorkerEnds(s),
         wpc \in WorkerPcs \ (WorkerIdle \cup {"retire"})
  PROVE  Abstract!End
<1>1. current \in Utt /\ Live(current) /\ state[current] \notin Terminal
  BY DEF PlaceOK, TypeOK, WorkerOK, WorkerPcs, WorkerIdle, WorkerSpeaking, Terminal, Live
<1>2. /\ state' = [state EXCEPT ![current] = s]
      /\ UNCHANGED <<items, current, pending>>
  BY <1>1 DEF WorkerEnds, Finalize, Transition, queueVars, apiVars
<1>3. \A t \in Threads : ~InClear(current, t)
  BY <1>1, InHands DEF PlaceOK, OwnerOK
<1>4. \A u \in Utt, t \in Threads : InClear(u, t)' <=> InClear(u, t)
  BY <1>2 DEF InClear
<1>5. ~Live(current)' /\ state'[current] = s
  BY <1>1, <1>2 DEF Live, Terminal, PlaceOK, TypeOK
<1>6. absLane = current /\ absLane # None /\ absLane' = None
  BY <1>1, <1>2, <1>5, NoneAssumption DEF absLane
<1>7. absOutcome' = [absOutcome EXCEPT ![current] = s]
  <2>1. ASSUME NEW u \in Utt, u # current
        PROVE  absOutcome'[u] = absOutcome[u]
    <3>1. state'[u] = state[u] /\ (Live(u)' <=> Live(u))
      BY <1>2, <2>1 DEF Live
    <3>. QED BY <1>4, <3>1 DEF absOutcome
  <2>2. absOutcome'[current] = s
    BY <1>1, <1>2, <1>3, <1>4, <1>5 DEF absOutcome, Live, Terminal
  <2>3. /\ absOutcome' = [u \in Utt |-> absOutcome'[u]]
        /\ absOutcome = [u \in Utt |-> absOutcome[u]]
    BY DEF absOutcome
  <2>. QED BY <1>1, <2>1, <2>2, <2>3
<1>. QED BY <1>2, <1>6, <1>7 DEF Abstract!End, Abstract!Outcomes, Terminal

\* Every step of the worker begins or ends an utterance, or is invisible.
LEMMA WorkerRefines ==
  ASSUME PlaceOK, PlaceOK', Worker
  PROVE  [Abstract!Next]_(Abstract!absVars)
<1>1. current \in Utt \cup {None} /\ wpc \in WorkerPcs
  BY DEF PlaceOK, TypeOK
<1>. USE DEF WorkerPcs, WorkerIdle, Terminal, queueVars, uttVars, apiVars
<1>2. CASE \/ WorkerWait \/ WorkerExit \/ WorkerSynth
           \/ WorkerLookahead \/ WorkerSubmit \/ WorkerGate \/ WorkerPlay
           \/ WorkerPlayCompletes \/ WorkerPlayed \/ WorkerCollect
  <2>1. UNCHANGED <<items, current, pending, state>>
    BY <1>2 DEF WorkerWait, WorkerExit, WorkerSynth, WorkerLookahead, WorkerSubmit,
       WorkerGate, WorkerPlay, WorkerPlayCompletes, WorkerPlayed, WorkerCollect
  <2>. QED BY <1>1, <2>1, Invisible
<1>3. CASE WorkerStart \/ WorkerSpeak
  <2>1. /\ UNCHANGED <<items, current, pending>>
        /\ current \in Utt /\ Live(current)
        /\ \E n \in {"synthesizing", "speaking"} : state' = [state EXCEPT ![current] = n]
    BY <1>1, <1>3 DEF WorkerStart, WorkerSpeak, Transition, PlaceOK, WorkerOK, Live
  <2>2. \A u \in Utt : state'[u] = state[u] \/ (Live(u) /\ Live(u)')
    BY <2>1 DEF Live, PlaceOK, TypeOK
  <2>. QED BY <1>1, <2>1, <2>2, Invisible
<1>4. CASE WorkerTake
  <2>1. /\ current = None /\ items # <<>> /\ items \in Seq(Utt)
        /\ current' = Head(items) /\ items' = Tail(items)
        /\ UNCHANGED <<state, pending>>
    BY <1>4 DEF WorkerTake, Pop, PlaceOK, TypeOK, WorkerOK
  <2>2. Head(items) \in Utt /\ Live(Head(items))
    BY <2>1 DEF PlaceOK, OwnerOK, Live
  <2>3. absLane = None /\ absLane' = Head(items)
    BY <2>1, <2>2, NoneAssumption DEF absLane, Live
  <2>4. absOutcome' = absOutcome
    BY <2>1 DEF absOutcome, InClear, Live
  <2>5. Abstract!Begin
    BY <2>1, <2>3, <2>4 DEF Abstract!Begin
  <2>. QED BY <2>5 DEF Abstract!Next
<1>5. CASE WorkerRetire
  <2>1. /\ state[current] \in Terminal /\ current' = None
        /\ UNCHANGED <<items, state, pending>>
    BY <1>5 DEF WorkerRetire, PlaceOK, WorkerOK
  <2>2. absLane = None /\ absLane' = None
    BY <2>1 DEF absLane, Live
  <2>3. absOutcome' = absOutcome
    BY <2>1 DEF absOutcome, InClear, Live
  <2>. QED BY <2>1, <2>2, <2>3 DEF Abstract!absVars
<1>6. CASE \/ WorkerStartCancelled \/ WorkerSynthFails \/ WorkerSynthesizedCancelled
           \/ WorkerSubmitRaises \/ WorkerGateCancelled \/ WorkerPlayInterrupted
           \/ WorkerPlayRaises \/ WorkerPlayedCancelled \/ WorkerCollectFails
           \/ WorkerFinish
  <2>1. \E s \in Terminal : WorkerEnds(s)
    BY <1>6 DEF WorkerStartCancelled, WorkerSynthFails, WorkerSynthesizedCancelled,
       WorkerSubmitRaises, WorkerGateCancelled, WorkerPlayInterrupted,
       WorkerPlayRaises, WorkerPlayedCancelled, WorkerCollectFails, WorkerFinish
  <2>2. wpc \notin WorkerIdle \cup {"retire"}
    BY <1>6 DEF WorkerStartCancelled, WorkerSynthFails, WorkerSynthesizedCancelled,
       WorkerSubmitRaises, WorkerGateCancelled, WorkerPlayInterrupted,
       WorkerPlayRaises, WorkerPlayedCancelled, WorkerCollectFails, WorkerFinish
  <2>3. Abstract!End
    BY <1>1, <2>1, <2>2, WorkerEndsRefines
  <2>. QED BY <2>3 DEF Abstract!Next
<1>. QED BY <1>2, <1>3, <1>4, <1>5, <1>6 DEF Worker

\* A submit that is accepted is an abstract Accept.
LEMMA EnqueueRefines ==
  ASSUME NEW t \in Threads, PlaceOK, EnqueueAccepted(t)
  PROVE  Abstract!Accept(utt[t])
<1>1. utt[t] \in Utt /\ state[utt[t]] = "new"
  BY DEF EnqueueAccepted, PlaceOK, ThreadOK
<1>2. /\ items' = Append(items, utt[t]) /\ ~(Len(items) >= MaxSize)
      /\ state' = [state EXCEPT ![utt[t]] = "queued"]
      /\ UNCHANGED <<current, pending>>
  BY DEF EnqueueAccepted, Full
<1>3. Len(items) < MaxSize
  BY <1>2, SizeAssumption DEF PlaceOK, TypeOK
<1>4. \A s \in Threads : ~InClear(utt[t], s)
  <2>1. ASSUME NEW s \in Threads, NEW i \in 1..Len(pending[s]), pending[s][i] = utt[t]
        PROVE  FALSE
    <3>1. state[pending[s][i]] = "queued" \/ (i = 1 /\ pc[s] = "record")
      BY DEF PlaceOK, OwnerOK
    <3>2. pc[s] = "record" => state[pending[s][1]] = "cancelled"
      BY DEF PlaceOK, ThreadOK
    <3>. QED BY <1>1, <2>1, <3>1, <3>2
  <2>. QED BY <1>1, <2>1, InHands DEF PlaceOK
<1>5. absLane' = absLane
  <2>1. current # None => current # utt[t]
    BY <1>1 DEF PlaceOK, TypeOK, WorkerOK, WorkerPcs, WorkerIdle, WorkerSpeaking, Terminal
  <2>2. current # None => current \in Utt
    BY DEF PlaceOK, TypeOK
  <2>3. current # None => state'[current] = state[current]
    BY <1>2, <2>1, <2>2 DEF PlaceOK, TypeOK
  <2>. QED BY <1>2, <2>3 DEF absLane, Live
<1>6. /\ absOutcome[utt[t]] = "new"
      /\ absOutcome' = [absOutcome EXCEPT ![utt[t]] = "pending"]
  <2>1. \A u \in Utt, s \in Threads : InClear(u, s)' <=> InClear(u, s)
    BY <1>2 DEF InClear
  <2>2. ASSUME NEW u \in Utt, u # utt[t] PROVE absOutcome'[u] = absOutcome[u]
    <3>1. state'[u] = state[u] /\ (Live(u)' <=> Live(u))
      BY <1>2, <2>2 DEF Live, PlaceOK, TypeOK
    <3>. QED BY <2>1, <3>1 DEF absOutcome
  <2>3. absOutcome[utt[t]] = "new"
    BY <1>1, <1>4 DEF absOutcome, Live
  <2>4. ASSUME NEW u \in Utt, u = utt[t] PROVE absOutcome'[u] = "pending"
    <3>1. Live(u)' /\ \A s \in Threads : ~InClear(u, s)'
      BY <1>1, <1>2, <1>4, <2>1, <2>4 DEF Live, PlaceOK, TypeOK
    <3>. QED BY <3>1 DEF absOutcome
  <2>5. /\ absOutcome' = [u \in Utt |-> absOutcome'[u]]
        /\ absOutcome = [u \in Utt |-> absOutcome[u]]
    BY DEF absOutcome
  <2>. QED BY <1>1, <2>2, <2>3, <2>4, <2>5
<1>. QED BY <1>2, <1>3, <1>5, <1>6 DEF Abstract!Accept

\* clear() taking the deque cancels all that waits in one abstract step.
LEMMA ClearTakeRefines ==
  ASSUME NEW t \in Threads, PlaceOK, ClearTake(t)
  PROVE  [Abstract!CancelWaiting]_(Abstract!absVars)
<1>1. /\ pending' = [pending EXCEPT ![t] = items] /\ items' = <<>>
      /\ pending[t] = <<>> /\ items \in Seq(Utt)
      /\ UNCHANGED <<state, current>>
  BY DEF ClearTake, TakeAll, PlaceOK, TypeOK, ThreadOK, uttVars
<1>2. \A s \in Threads : pending'[s] = IF s = t THEN items ELSE pending[s]
  BY <1>1 DEF PlaceOK, TypeOK
<1>3. \A u \in Utt : InClear(u, t)' <=> \E i \in 1..Len(items) : items[i] = u
  <2>1. DOMAIN items = 1..Len(items)
    BY <1>1
  <2>. QED BY <1>2, <2>1 DEF InClear, Range
<1>4. \A u \in Utt : ~InClear(u, t)
  BY <1>1 DEF InClear, Range
<1>5. \A u \in Utt, s \in Threads : s # t => (InClear(u, s)' <=> InClear(u, s))
  BY <1>2 DEF InClear
<1>6. absLane' = absLane
  BY <1>1 DEF absLane, Live
<1>7. \A u \in Utt : Live(u)' <=> Live(u)
  BY <1>1 DEF Live
<1>8. absOutcome' = [u \in Utt |->
          IF \E i \in 1..Len(items) : items[i] = u THEN "cancelled" ELSE absOutcome[u]]
  <2>1. ASSUME NEW u \in Utt
        PROVE  absOutcome'[u] = IF \E i \in 1..Len(items) : items[i] = u
                                THEN "cancelled" ELSE absOutcome[u]
    <3>1. CASE \E i \in 1..Len(items) : items[i] = u
      <4>1. \E s \in Threads : InClear(u, s)'
        BY <1>3, <3>1
      <4>. QED BY <3>1, <4>1 DEF absOutcome
    <3>2. CASE ~(\E i \in 1..Len(items) : items[i] = u)
      <4>1. (\E s \in Threads : InClear(u, s)') <=> (\E s \in Threads : InClear(u, s))
        BY <1>3, <1>4, <1>5, <3>2
      <4>. QED BY <1>1, <1>7, <3>2, <4>1 DEF absOutcome
    <3>. QED BY <3>1, <3>2
  <2>2. absOutcome' = [u \in Utt |-> absOutcome'[u]]
    BY DEF absOutcome
  <2>. QED BY <2>1, <2>2
<1>9. CASE items = <<>>
  <2>1. absOutcome = [u \in Utt |-> absOutcome[u]]
    BY DEF absOutcome
  <2>2. absOutcome' = absOutcome
    BY <1>8, <1>9, <2>1
  <2>. QED BY <1>1, <1>6, <1>9, <2>2 DEF Abstract!absVars
<1>10. CASE items # <<>>
  BY <1>1, <1>6, <1>8, <1>10 DEF Abstract!CancelWaiting
<1>. QED BY <1>9, <1>10

\* The rest of clear() is invisible: what it does was decided when it took the
\* deque.
LEMMA ClearRestRefines ==
  ASSUME NEW t \in Threads, PlaceOK, PlaceOK', ClearCancel(t) \/ ClearRecord(t)
  PROVE  UNCHANGED Abstract!absVars
<1>1. /\ pending[t] \in Seq(Utt) /\ pending[t] # <<>>
      /\ Head(pending[t]) = pending[t][1] /\ pending[t][1] \in Utt
      /\ 1 \in 1..Len(pending[t]) /\ current \in Utt \cup {None}
      /\ pc[t] \in {"cancel", "record"}
  BY DEF ClearCancel, ClearRecord, PlaceOK, TypeOK, ThreadOK
<1>. DEFINE u == pending[t][1]
<1>2. u # current /\ InClear(u, t)
  BY <1>1, InHands DEF PlaceOK, OwnerOK
<1>3. CASE ClearCancel(t)
  <2>1. state[u] = "queued"
    BY <1>1, <1>3 DEF ClearCancel, PlaceOK, OwnerOK
  <2>2. /\ state' = [state EXCEPT ![u] = "cancelled"]
        /\ UNCHANGED <<items, current, pending>>
    BY <1>1, <1>3, <2>1 DEF ClearCancel, Transition, Terminal, queueVars
  <2>. HIDE DEF u
  <2>3. absLane' = absLane
    BY <1>1, <1>2, <2>2 DEF absLane, Live
  <2>4. \A v \in Utt, s \in Threads : InClear(v, s)' <=> InClear(v, s)
    BY <2>2 DEF InClear
  <2>5. ASSUME NEW v \in Utt PROVE absOutcome'[v] = absOutcome[v]
    <3>1. CASE v = u
      BY <1>2, <2>4, <3>1 DEF absOutcome
    <3>2. CASE v # u
      <4>1. state'[v] = state[v] /\ (Live(v)' <=> Live(v))
        BY <2>2, <3>2 DEF Live
      <4>. QED BY <2>4, <4>1 DEF absOutcome
    <3>. QED BY <3>1, <3>2
  <2>6. absOutcome' = absOutcome
    BY <2>5 DEF absOutcome
  <2>. QED BY <2>2, <2>3, <2>6 DEF Abstract!absVars
<1>4. CASE ClearRecord(t)
  <2>1. state[u] = "cancelled"
    BY <1>4 DEF ClearRecord, PlaceOK, ThreadOK
  <2>2. /\ pending' = [pending EXCEPT ![t] = Tail(pending[t])]
        /\ UNCHANGED <<items, current, state>>
    BY <1>4 DEF ClearRecord, uttVars
  <2>3. ASSUME NEW v \in Utt, v # u, NEW s \in Threads
        PROVE  InClear(v, s)' <=> InClear(v, s)
    BY <1>1, <2>2, <2>3, TailHands
  <2>. HIDE DEF u
  <2>4. absLane' = absLane
    BY <2>2 DEF absLane, Live
  <2>5. \A v \in Utt : Live(v)' <=> Live(v)
    BY <2>2 DEF Live
  <2>6. ASSUME NEW v \in Utt PROVE absOutcome'[v] = absOutcome[v]
    <3>1. CASE v = u
      <4>1. state'[v] = "cancelled" /\ ~Live(v)'
        BY <2>1, <2>2, <3>1 DEF Live
      <4>2. absOutcome'[v] = "cancelled"
        BY <4>1 DEF absOutcome
      <4>3. absOutcome[v] = "cancelled"
        BY <1>2, <3>1 DEF absOutcome
      <4>. QED BY <4>2, <4>3
    <3>2. CASE v # u
      BY <2>2, <2>3, <2>5, <3>2 DEF absOutcome
    <3>. QED BY <3>1, <3>2
  <2>7. absOutcome' = absOutcome
    BY <2>6 DEF absOutcome
  <2>. QED BY <2>2, <2>4, <2>7 DEF Abstract!absVars
<1>. QED BY <1>3, <1>4

\* Every step of the program is a step of the abstract queue, or invisible.
LEMMA NextRefines ==
  PlaceOK /\ PlaceOK' /\ [Next]_vars => [Abstract!Next]_(Abstract!absVars)
<1> SUFFICES ASSUME PlaceOK, PlaceOK', [Next]_vars
             PROVE  [Abstract!Next]_(Abstract!absVars)
  OBVIOUS
<1>1. current \in Utt \cup {None}
  BY DEF PlaceOK, TypeOK
<1>. USE DEF queueVars, uttVars, workerVars, apiVars
<1>2. CASE Worker
  BY <1>2, WorkerRefines
<1>3. CASE Prefetch
  <2>1. UNCHANGED <<items, current, pending, state>>
    BY <1>3 DEF Prefetch, PrefetchStart, PrefetchEnds, OrphanEnds
  <2>. QED BY <1>1, <2>1, Invisible
<1>4. ASSUME NEW t \in Threads, Request(t)
      PROVE  [Abstract!Next]_(Abstract!absVars)
  <2>1. UNCHANGED <<items, current, pending, state>>
    BY <1>4 DEF Request, Speak, CallStop, CallClose
  <2>. QED BY <1>1, <2>1, Invisible
<1>5. ASSUME NEW t \in Threads, Serve(t)
      PROVE  [Abstract!Next]_(Abstract!absVars)
  <2>1. CASE EnqueueAccepted(t)
    <3>1. utt[t] \in Utt
      BY <2>1 DEF EnqueueAccepted, PlaceOK, ThreadOK
    <3>. QED BY <2>1, <3>1, EnqueueRefines DEF Abstract!Next
  <2>2. CASE ClearTake(t)
    BY <2>2, ClearTakeRefines DEF Abstract!Next
  <2>3. CASE ClearCancel(t) \/ ClearRecord(t)
    BY <2>3, ClearRestRefines
  <2>4. CASE \/ EnqueueRejected(t) \/ (\E wait \in BOOLEAN : PublishQueued(t, wait))
             \/ AwaitReturns(t) \/ ClearFlag(t) \/ ClearNoCurrent(t) \/ ClearStop(t)
             \/ CloseNotify(t) \/ CloseJoined(t)
    <3>1. UNCHANGED <<items, current, pending, state>>
      BY <2>4 DEF EnqueueRejected, PublishQueued, AwaitReturns, ClearFlag,
         ClearNoCurrent, ClearStop, CloseNotify, CloseJoined
    <3>. QED BY <1>1, <3>1, Invisible
  <2>. QED BY <1>5, <2>1, <2>2, <2>3, <2>4 DEF Serve
<1>6. CASE UNCHANGED vars
  <2>1. UNCHANGED <<items, current, pending, state>>
    BY <1>6 DEF vars
  <2>. QED BY <1>1, <2>1, Invisible
<1>. QED BY <1>2, <1>3, <1>4, <1>5, <1>6 DEF Next

\* RefinesSpeechQueue for all constants: whatever threads submit, stop and
\* close, the worker and its look-ahead implement a bounded first-in-first-out
\* queue with one speaking lane, in which a stop cancels all that waits in one
\* step and no outcome is ever revised.
THEOREM Refinement == Spec => RefinesSpeechQueue
<1>1. Init => Abstract!Init
  BY InitRefines
<1>2. PlaceOK /\ PlaceOK' /\ [Next]_vars => [Abstract!Next]_(Abstract!absVars)
  BY NextRefines
<1>. QED BY <1>1, <1>2, Places, PTL DEF Spec, RefinesSpeechQueue, Abstract!Spec

-----------------------------------------------------------------------------
(* What is heard *)

\* A worker that is busy has an utterance that was accepted.
LEMMA BusyFacts ==
  ASSUME PlaceOK
  PROVE  /\ wpc \in WorkerPcs
         /\ wpc \notin WorkerIdle => current \in Utt /\ state[current] # "new"
         /\ wpc = "start" => state[current] = "queued"
         /\ wpc \in {"synth", "synthesized"} => state[current] = "synthesizing"
         /\ wpc \in WorkerSpeaking => state[current] = "speaking"
  BY DEF PlaceOK, TypeOK, WorkerOK, WorkerPcs, WorkerIdle, WorkerSpeaking, Terminal

\* What no step but the worker's does to what the worker plays.
Aside ==
    /\ UNCHANGED <<current, chunk, clip, played, overrun>>
    /\ wpc' = wpc \/ (wpc = "wait" /\ wpc' = "loop")
    /\ next' = "none" <=> next = "none"
    /\ \A u \in Utt :
          /\ cancelRequested[u] => cancelRequested'[u]
          /\ \/ state'[u] = state[u]
             \/ state[u] = "new" /\ state'[u] = "queued"
             \/ state[u] = "queued" /\ state'[u] = "cancelled" /\ u # current
          /\ state[u] # "new" => chunks'[u] = chunks[u]

LEMMA AsideKeeps ==
  ASSUME PlaceOK, PlaceOK', Aside, HeardOK, LoopOK, WorkerInStep
  PROVE  HeardOK' /\ LoopOK' /\ WorkerInStep'
<1>1. (wpc' \in WorkerIdle /\ wpc \in WorkerIdle) \/ wpc' = wpc
  BY DEF Aside, WorkerIdle
<1>2. wpc \notin WorkerIdle =>
         /\ current \in Utt /\ chunks'[current] = chunks[current]
         /\ cancelRequested[current] => cancelRequested'[current]
  BY BusyFacts DEF Aside
<1>3. HeardOK'
  BY <1>1, <1>2 DEF Aside, HeardOK, WorkerIdle
<1>4. LoopOK'
  <2>1. CASE wpc \in WorkerIdle
    BY <1>1, <2>1 DEF LoopOK, WorkerIdle, WorkerSpeaking, Aside
  <2>2. CASE wpc \notin WorkerIdle
    BY <1>1, <1>2, <2>2 DEF LoopOK, WorkerIdle, WorkerSpeaking, Aside, IsLast, Flagged
  <2>. QED BY <2>1, <2>2
<1>5. PlayedInOrder'
  <2>1. ASSUME NEW u \in Utt
        PROVE  /\ Len(played[u]) <= chunks'[u]
               /\ state'[u] = "finished" => Len(played[u]) = chunks'[u]
    <3>1. CASE state[u] = "new"
      <4>1. Len(played[u]) = 0 /\ state'[u] # "finished"
        BY <3>1, <2>1 DEF Aside, HeardOK
      <4>2. chunks'[u] \in Nat
        BY DEF PlaceOK, TypeOK
      <4>. QED BY <4>1, <4>2
    <3>2. CASE state[u] # "new"
      BY <2>1, <3>2 DEF Aside, WorkerInStep, PlayedInOrder
    <3>. QED BY <3>1, <3>2
  <2>. QED BY <2>1 DEF Aside, WorkerInStep, PlayedInOrder
<1>6. OverrunBounded' /\ LookaheadReleased'
  BY <1>1 DEF Aside, WorkerInStep, OverrunBounded, LookaheadReleased, WorkerIdle
<1>. QED BY <1>3, <1>4, <1>5, <1>6 DEF WorkerInStep

\* How the worker's hands are left when the processing of an utterance ends.
LEMMA EndsInStep ==
  ASSUME PlaceOK, HeardOK, LoopOK, WorkerInStep, NEW s \in Terminal, WorkerEnds(s),
         wpc \in WorkerPcs \ (WorkerIdle \cup {"retire"}),
         next' = "none", s = "finished" => wpc = "finish"
  PROVE  HeardOK' /\ LoopOK' /\ WorkerInStep'
<1>1. /\ current \in Utt /\ state[current] \notin Terminal
  BY BusyFacts DEF WorkerPcs, WorkerIdle, WorkerSpeaking, Terminal
<1>2. /\ state' = [state EXCEPT ![current] = s] /\ state \in [Utt -> Lifecycle]
      /\ wpc' = "retire"
      /\ UNCHANGED <<current, cancelRequested, chunks, played, overrun>>
  BY <1>1 DEF WorkerEnds, Finalize, Transition, queueVars, PlaceOK, TypeOK
<1>3. HeardOK'
  BY <1>1, <1>2 DEF HeardOK, Terminal
<1>4. LoopOK'
  BY <1>2 DEF LoopOK, WorkerSpeaking
<1>5. PlayedInOrder'
  <2>1. s = "finished" => Len(played[current]) = chunks[current]
    BY DEF LoopOK, IsLast
  <2>. QED BY <1>1, <1>2, <2>1 DEF WorkerInStep, PlayedInOrder
<1>6. OverrunBounded' /\ LookaheadReleased'
  BY <1>2 DEF WorkerInStep, OverrunBounded, LookaheadReleased
<1>. QED BY <1>3, <1>4, <1>5, <1>6 DEF WorkerInStep

\* Steps of the worker that start and end no clip and leave its utterance alone.
LEMMA SilentInStep ==
  ASSUME PlaceOK, HeardOK, LoopOK, WorkerInStep,
         UNCHANGED <<state, cancelRequested, chunks, played, overrun>>,
         \A u \in Utt : overrun[u] > 0 =>
            (u = current' => wpc' \in {"playing", "played", "retire"}),
         LoopOK', LookaheadReleased'
  PROVE  HeardOK' /\ LoopOK' /\ WorkerInStep'
  BY DEF HeardOK, WorkerInStep, PlayedInOrder, OverrunBounded

\* The executor, the requests and the steps that serve them stand aside.
LEMMA AsideSteps ==
  ASSUME PlaceOK, Prefetch \/ (\E t \in Threads : Request(t) \/ Serve(t)) \/ UNCHANGED vars
  PROVE  Aside
<1>. USE DEF Aside, queueVars, uttVars, workerVars, ghostVars
<1>1. CASE Prefetch
  BY <1>1 DEF Prefetch, PrefetchStart, PrefetchEnds, OrphanEnds
<1>2. CASE \E t \in Threads : Request(t)
  BY <1>2 DEF Request, Speak, CallStop, CallClose
<1>3. CASE UNCHANGED vars
  BY <1>3 DEF vars
<1>4. ASSUME NEW t \in Threads, Serve(t) PROVE Aside
  <2>1. CASE EnqueueAccepted(t)
    <3>1. utt[t] \in Utt /\ state[utt[t]] = "new"
      BY <2>1 DEF EnqueueAccepted, PlaceOK, ThreadOK
    <3>2. /\ state' = [state EXCEPT ![utt[t]] = "queued"]
          /\ \E n \in 1..MaxChunks : chunks' = [chunks EXCEPT ![utt[t]] = n]
      BY <2>1 DEF EnqueueAccepted
    <3>3. \A u \in Utt : /\ state'[u] = IF u = utt[t] THEN "queued" ELSE state[u]
                         /\ u # utt[t] => chunks'[u] = chunks[u]
      BY <3>2 DEF PlaceOK, TypeOK
    <3>4. \A u \in Utt : state[u] # "new" => u # utt[t]
      BY <3>1
    <3>5. /\ UNCHANGED <<current, chunk, clip, played, overrun, next, cancelRequested>>
          /\ wpc' = wpc \/ (wpc = "wait" /\ wpc' = "loop")
      BY <2>1 DEF EnqueueAccepted, Notify
    <3>. QED BY <3>1, <3>3, <3>4, <3>5
  <2>2. CASE ClearCancel(t)
    <3>1. pending[t] # <<>> /\ pc[t] = "cancel"
      BY <2>2 DEF ClearCancel
    <3>. DEFINE u == pending[t][1]
    <3>2. /\ u \in Utt /\ u # current /\ state[u] = "queued" /\ u = Head(pending[t])
      BY <3>1, HeadFacts
    <3>. HIDE DEF u
    <3>3. /\ cancelRequested' = [cancelRequested EXCEPT ![u] = TRUE]
          /\ state' = [state EXCEPT ![u] = "cancelled"]
          /\ UNCHANGED <<current, chunk, clip, played, overrun, next, wpc, chunks>>
      BY <2>2, <3>2 DEF ClearCancel, Transition, Terminal
    <3>. QED BY <3>2, <3>3 DEF PlaceOK, TypeOK
  <2>3. CASE ClearFlag(t)
    BY <2>3 DEF ClearFlag, PlaceOK, TypeOK
  <2>4. CASE \/ EnqueueRejected(t) \/ (\E wait \in BOOLEAN : PublishQueued(t, wait))
             \/ AwaitReturns(t) \/ ClearTake(t) \/ ClearRecord(t) \/ ClearNoCurrent(t)
             \/ ClearStop(t) \/ CloseNotify(t) \/ CloseJoined(t)
    BY <2>4 DEF EnqueueRejected, PublishQueued, AwaitReturns, ClearTake, ClearRecord,
       ClearNoCurrent, ClearStop, CloseNotify, CloseJoined, Notify
  <2>. QED BY <1>4, <2>1, <2>2, <2>3, <2>4 DEF Serve
<1>. QED BY <1>1, <1>2, <1>3, <1>4

\* The steps of the worker that end the processing of its utterance.
LEMMA WorkerEndSteps ==
  ASSUME PlaceOK, HeardOK, LoopOK, WorkerInStep,
         \/ WorkerStartCancelled \/ WorkerSynthFails \/ WorkerSynthesizedCancelled
         \/ WorkerSubmitRaises \/ WorkerGateCancelled \/ WorkerPlayInterrupted
         \/ WorkerPlayRaises \/ WorkerPlayedCancelled \/ WorkerCollectFails
         \/ WorkerFinish
  PROVE  HeardOK' /\ LoopOK' /\ WorkerInStep'
<1>. USE DEF WorkerPcs, WorkerIdle, Terminal
<1>1. CASE WorkerStartCancelled \/ WorkerSynthFails \/ WorkerSynthesizedCancelled
  <2>1. next' = "none"
    BY <1>1 DEF WorkerStartCancelled, WorkerSynthFails, WorkerSynthesizedCancelled,
       WorkerInStep, LookaheadReleased
  <2>2. CASE WorkerSynthFails
    <3>1. WorkerEnds("failed") /\ wpc = "synth"
      BY <2>2 DEF WorkerSynthFails
    <3>. QED BY <2>1, <3>1, EndsInStep
  <2>3. CASE WorkerStartCancelled \/ WorkerSynthesizedCancelled
    <3>1. WorkerEnds("cancelled") /\ wpc \in {"start", "synthesized"}
      BY <2>3 DEF WorkerStartCancelled, WorkerSynthesizedCancelled
    <3>. QED BY <2>1, <3>1, EndsInStep
  <2>. QED BY <1>1, <2>2, <2>3
<1>2. CASE WorkerSubmitRaises \/ WorkerPlayRaises \/ WorkerCollectFails
  <2>1. next' = "none" /\ WorkerEnds("failed") /\ wpc \in {"submit", "play", "playing", "collect"}
    BY <1>2 DEF WorkerSubmitRaises, WorkerPlayRaises, WorkerCollectFails, Abandon, LoopOK
  <2>. QED BY <2>1, EndsInStep
<1>3. CASE WorkerGateCancelled \/ WorkerPlayInterrupted \/ WorkerPlayedCancelled
  <2>1. next' = "none" /\ WorkerEnds("cancelled") /\ wpc \in {"gate", "playing", "played"}
    BY <1>3 DEF WorkerGateCancelled, WorkerPlayInterrupted, WorkerPlayedCancelled, Abandon
  <2>. QED BY <2>1, EndsInStep
<1>4. CASE WorkerFinish
  <2>1. next' = "none" /\ WorkerEnds("finished") /\ wpc = "finish"
    BY <1>4 DEF WorkerFinish, LoopOK
  <2>. QED BY <2>1, EndsInStep
<1>. QED BY <1>1, <1>2, <1>3, <1>4

\* The steps by which the worker goes from one checkpoint to the next.
LEMMA WorkerSilentSteps ==
  ASSUME PlaceOK, PlaceOK', HeardOK, LoopOK, WorkerInStep,
         \/ WorkerWait \/ WorkerExit \/ WorkerTake \/ WorkerSynth \/ WorkerLookahead
         \/ WorkerSubmit \/ WorkerGate \/ WorkerPlayed \/ WorkerCollect \/ WorkerRetire
  PROVE  HeardOK' /\ LoopOK' /\ WorkerInStep'
<1>. USE DEF uttVars, ghostVars, queueVars, WorkerIdle, WorkerSpeaking
<1>0. next \in {"none", "pending", "running", "clip", "error"}
  BY DEF PlaceOK, TypeOK
<1>1. CASE WorkerWait \/ WorkerExit \/ WorkerRetire
  <2>1. LoopOK' /\ LookaheadReleased'
    BY <1>1 DEF WorkerWait, WorkerExit, WorkerRetire, LoopOK, WorkerInStep, LookaheadReleased
  <2>2. ASSUME NEW u \in Utt, overrun[u] > 0, u = current'
        PROVE  wpc' \in {"playing", "played", "retire"}
    BY <1>1, <2>2, NoneAssumption
    DEF WorkerWait, WorkerExit, WorkerRetire, HeardOK, PlaceOK, WorkerOK
  <2>. QED BY <1>1, <2>1, <2>2, SilentInStep DEF WorkerWait, WorkerExit, WorkerRetire
<1>2. CASE WorkerTake
  <2>1. LoopOK' /\ LookaheadReleased'
    BY <1>2 DEF WorkerTake, LoopOK, WorkerInStep, LookaheadReleased
  <2>2. current' \in Utt /\ state[current'] = "queued"
    <3>1. PlaceOK' /\ wpc' = "start" /\ state' = state
      BY <1>2 DEF WorkerTake
    <3>. QED BY <3>1 DEF PlaceOK, TypeOK, WorkerOK
  <2>3. overrun[current'] = 0
    BY <2>2 DEF HeardOK
  <2>. QED BY <1>2, <2>1, <2>3, SilentInStep DEF WorkerTake
<1>3. CASE WorkerSynth
  <2>1. LoopOK' /\ LookaheadReleased'
    BY <1>3 DEF WorkerSynth, LoopOK, WorkerInStep, LookaheadReleased
  <2>. QED BY <1>3, <2>1, SilentInStep DEF WorkerSynth, HeardOK
<1>4. CASE WorkerLookahead
  <2>1. LoopOK' /\ LookaheadReleased'
    BY <1>4 DEF WorkerLookahead, LoopOK, LookaheadReleased, IsLast, Flagged
  <2>. QED BY <1>4, <2>1, SilentInStep DEF WorkerLookahead, HeardOK
<1>5. CASE WorkerSubmit
  <2>1. LoopOK' /\ LookaheadReleased'
    BY <1>5 DEF WorkerSubmit, LoopOK, LookaheadReleased, IsLast, Flagged
  <2>. QED BY <1>5, <2>1, SilentInStep DEF WorkerSubmit, HeardOK
<1>6. CASE WorkerGate
  <2>1. LoopOK' /\ LookaheadReleased'
    BY <1>6 DEF WorkerGate, LoopOK, LookaheadReleased, IsLast, Flagged
  <2>. QED BY <1>6, <2>1, SilentInStep DEF WorkerGate, HeardOK
<1>7. CASE WorkerPlayed
  <2>1. overrun[current] = 0
    <3>1. current \in Utt
      BY <1>7, BusyFacts DEF WorkerPlayed
    <3>. QED BY <1>7, <3>1 DEF WorkerPlayed, Flagged, HeardOK
  <2>2. \/ IsLast /\ wpc' = "finish" /\ chunk' = chunk
        \/ ~IsLast /\ next # "none" /\ wpc' = "collect" /\ chunk' = chunk
    BY <1>7 DEF WorkerPlayed, LoopOK
  <2>3. LoopOK' /\ LookaheadReleased'
    BY <1>7, <2>2 DEF WorkerPlayed, LoopOK, LookaheadReleased, IsLast
  <2>. QED BY <1>7, <2>1, <2>3, SilentInStep DEF WorkerPlayed, HeardOK
<1>8. CASE WorkerCollect
  <2>1. /\ current \in Utt /\ chunks[current] \in Nat /\ chunk \in Nat
    BY <1>8, BusyFacts DEF WorkerCollect, PlaceOK, TypeOK
  <2>2. LoopOK' /\ LookaheadReleased'
    BY <1>8, <2>1 DEF WorkerCollect, LoopOK, LookaheadReleased, IsLast
  <2>. QED BY <1>8, <2>2, SilentInStep DEF WorkerCollect, HeardOK
<1>. QED BY <1>1, <1>2, <1>3, <1>4, <1>5, <1>6, <1>7, <1>8

\* The worker moves its utterance on, starts a clip, or hears one to its end.
LEMMA WorkerLoudSteps ==
  ASSUME PlaceOK, PlaceOK', HeardOK, LoopOK, WorkerInStep,
         WorkerStart \/ WorkerSpeak \/ WorkerPlay \/ WorkerPlayCompletes
  PROVE  HeardOK' /\ LoopOK' /\ WorkerInStep'
<1>. USE DEF queueVars, WorkerIdle, WorkerSpeaking
<1>1. /\ current \in Utt /\ chunks[current] \in Nat \ {0} /\ chunk \in Nat
      /\ state \in [Utt -> Lifecycle] /\ cancelRequested \in [Utt -> BOOLEAN]
      /\ chunks \in [Utt -> 1..MaxChunks]
  BY BusyFacts DEF WorkerStart, WorkerSpeak, WorkerPlay, WorkerPlayCompletes, PlaceOK, TypeOK
<1>2. CASE WorkerStart
  <2>1. /\ state[current] = "queued" /\ wpc = "start"
        /\ state' = [state EXCEPT ![current] = "synthesizing"] /\ wpc' = "synth"
        /\ UNCHANGED <<current, cancelRequested, chunks, chunk, clip, next, played, overrun>>
    BY <1>2, BusyFacts DEF WorkerStart, Transition, Terminal
  <2>2. HeardOK' /\ LoopOK'
    BY <1>1, <2>1 DEF HeardOK, LoopOK
  <2>. QED BY <1>1, <2>1, <2>2
       DEF WorkerInStep, PlayedInOrder, OverrunBounded, LookaheadReleased
<1>3. CASE WorkerSpeak
  <2>1. /\ state[current] = "synthesizing" /\ wpc = "synthesized"
        /\ state' = [state EXCEPT ![current] = "speaking"]
        /\ wpc' = IF chunks[current] = 1 THEN "play" ELSE "lookahead"
        /\ UNCHANGED <<current, cancelRequested, chunks, chunk, clip, next, played, overrun>>
    BY <1>3, BusyFacts DEF WorkerSpeak, Transition, Terminal
  <2>2. HeardOK'
    BY <1>1, <2>1 DEF HeardOK
  <2>3. Len(played[current]) = 0
    BY <1>1, <2>1 DEF HeardOK
  <2>4. LoopOK'
    BY <1>1, <2>1, <2>3 DEF LoopOK, IsLast, WorkerInStep, LookaheadReleased
  <2>. QED BY <1>1, <2>1, <2>2, <2>4
       DEF WorkerInStep, PlayedInOrder, OverrunBounded, LookaheadReleased
<1>4. CASE WorkerPlay
  <2>1. /\ wpc = "play" /\ wpc' = "playing" /\ state[current] = "speaking"
        /\ overrun' = [overrun EXCEPT ![current] =
              @ + IF cancelRequested[current] THEN 1 ELSE 0]
        /\ UNCHANGED <<current, state, cancelRequested, chunks, chunk, clip, next, played>>
    BY <1>4, BusyFacts DEF WorkerPlay, uttVars
  <2>2. overrun[current] = 0
    BY <1>1, <2>1 DEF HeardOK
  <2>3. \A u \in Utt : overrun'[u] = IF u # current THEN overrun[u]
                                     ELSE IF cancelRequested[current] THEN 1 ELSE 0
    BY <1>1, <2>1, <2>2 DEF HeardOK
  <2>4. overrun' \in [Utt -> Nat]
    BY <1>1, <2>1, <2>2 DEF HeardOK
  <2>5. HeardOK'
    BY <1>1, <2>1, <2>3, <2>4 DEF HeardOK
  <2>6. LoopOK'
    BY <2>1 DEF LoopOK, IsLast
  <2>. QED BY <1>1, <2>1, <2>3, <2>5, <2>6
       DEF WorkerInStep, PlayedInOrder, OverrunBounded, LookaheadReleased
<1>5. CASE WorkerPlayCompletes
  <2>1. /\ wpc = "playing" /\ wpc' = "played" /\ state[current] = "speaking"
        /\ played' = [played EXCEPT ![current] = Append(@, clip)]
        /\ UNCHANGED <<current, state, cancelRequested, chunks, chunk, clip, next, overrun>>
    BY <1>5, BusyFacts DEF WorkerPlayCompletes, uttVars
  <2>2. /\ clip = chunk /\ Len(played[current]) = chunk - 1 /\ chunk \in 1..chunks[current]
        /\ played \in [Utt -> Seq(Nat)]
    BY <2>1 DEF LoopOK, HeardOK
  <2>. DEFINE new == Append(played[current], chunk)
  <2>3. /\ new \in Seq(Nat) /\ Len(new) = chunk /\ new[chunk] = chunk
        /\ \A i \in 1..chunk - 1 : new[i] = played[current][i]
    BY <1>1, <2>2
  <2>4. new = [i \in 1..Len(new) |-> i]
    <3>1. \A i \in 1..chunk - 1 : played[current][i] = i
      BY <1>1, <2>2 DEF WorkerInStep, PlayedInOrder
    <3>2. \A i \in 1..chunk : new[i] = i
      BY <2>2, <2>3, <3>1
    <3>3. new = [i \in 1..Len(new) |-> new[i]]
      BY <2>3
    <3>. QED BY <2>3, <3>2, <3>3
  <2>. HIDE DEF new
  <2>5. \A u \in Utt : played'[u] = IF u = current THEN new ELSE played[u]
    BY <1>1, <2>1, <2>2 DEF new
  <2>6. HeardOK'
    <3>1. played' \in [Utt -> Seq(Nat)]
      BY <1>1, <2>1, <2>2, <2>3 DEF new
    <3>. QED BY <1>1, <2>1, <2>5, <3>1 DEF HeardOK
  <2>7. LoopOK'
    BY <1>1, <2>1, <2>2, <2>3, <2>5 DEF LoopOK, IsLast
  <2>8. PlayedInOrder'
    <3>1. ASSUME NEW u \in Utt
          PROVE  /\ played'[u] = [i \in 1..Len(played'[u]) |-> i]
                 /\ Len(played'[u]) <= chunks[u]
                 /\ state[u] = "finished" => Len(played'[u]) = chunks[u]
      <4>1. CASE u = current
        BY <1>1, <2>1, <2>2, <2>3, <2>4, <2>5, <4>1
      <4>2. CASE u # current
        BY <2>5, <4>2 DEF WorkerInStep, PlayedInOrder
      <4>. QED BY <4>1, <4>2
    <3>. QED BY <2>1, <3>1 DEF PlayedInOrder
  <2>. QED BY <2>1, <2>6, <2>7, <2>8 DEF WorkerInStep, OverrunBounded, LookaheadReleased
<1>. QED BY <1>2, <1>3, <1>4, <1>5

\* Every step keeps the chunks, the clips and the look-ahead in step.
LEMMA InStepKeeps ==
  ASSUME PlaceOK, PlaceOK', HeardOK, LoopOK, WorkerInStep, [Next]_vars
  PROVE  HeardOK' /\ LoopOK' /\ WorkerInStep'
<1>1. CASE Worker
  BY <1>1, WorkerEndSteps, WorkerSilentSteps, WorkerLoudSteps DEF Worker
<1>2. CASE Prefetch \/ (\E t \in Threads : Request(t) \/ Serve(t)) \/ UNCHANGED vars
  BY <1>2, AsideSteps, AsideKeeps
<1>. QED BY <1>1, <1>2 DEF Next

-----------------------------------------------------------------------------
(* What is told: the history and the events *)

Told == UnrecordedOK /\ HistoryTruthful /\ LogOK /\ EventOrder

\* An utterance that the worker or a clear() has in hand is still to be recorded;
\* it is due when its last state is decided, and, in a clear(), its event is too.
ClearDue(u, t) == InClear(u, t) /\ pc[t] = "record"
Due(u) == (InProcess(u) /\ wpc = "retire") \/ \E t \in Threads : ClearDue(u, t)
Held(u) == InProcess(u) \/ \E t \in Threads : InClear(u, t)

\* One event added at the end, that may follow all the earlier ones.
LEMMA AppendOrdered ==
  ASSUME NEW S, NEW events \in Seq(S), NEW e \in S, Ordered(events),
         \A i \in DOMAIN events :
            Rank(events[i]) < Rank(e) \/ (events[i] = "progress" /\ e = "progress")
  PROVE  Ordered(Append(events, e))
<1>1. /\ DOMAIN events = 1..Len(events) /\ Len(events) \in Nat
      /\ DOMAIN Append(events, e) = 1..Len(events) + 1
      /\ Append(events, e)[Len(events) + 1] = e
      /\ \A i \in 1..Len(events) : Append(events, e)[i] = events[i]
  OBVIOUS
<1>2. ASSUME NEW i \in 1..Len(events) + 1, NEW j \in 1..Len(events) + 1, i < j
      PROVE  \/ Rank(Append(events, e)[i]) < Rank(Append(events, e)[j])
             \/ Append(events, e)[i] = "progress" /\ Append(events, e)[j] = "progress"
  <2>1. i \in 1..Len(events)
    BY <1>1, <1>2
  <2>2. CASE j = Len(events) + 1
    BY <1>1, <2>1, <2>2
  <2>3. CASE j \in 1..Len(events)
    <3>1. \/ Rank(events[i]) < Rank(events[j])
          \/ events[i] = "progress" /\ events[j] = "progress"
      BY <1>1, <1>2, <2>1, <2>3 DEF Ordered
    <3>. QED BY <1>1, <2>1, <2>3, <3>1
  <2>. QED BY <1>1, <2>2, <2>3
<1>. QED BY <1>1, <1>2 DEF Ordered

\* The entries of the history are about utterances.
LEMMA EntryFacts ==
  ASSUME TypeOK
  PROVE  /\ DOMAIN history = 1..Len(history) /\ Len(history) \in Nat
         /\ \A i \in DOMAIN history : history[i].id \in Utt
<1>. DEFINE Entry == [id : Utt, state : Lifecycle]
<1>1. history \in Seq(Entry)
  BY DEF TypeOK
<1>2. \A x \in Entry : x.id \in Utt
  OBVIOUS
<1>. HIDE DEF Entry
<1>3. \A i \in 1..Len(history) : history[i] \in Entry
  BY <1>1
<1>4. DOMAIN history = 1..Len(history) /\ Len(history) \in Nat
  BY <1>1
<1>. QED BY <1>2, <1>3, <1>4

\* Most steps tell nothing: they end no utterance, and take into the worker's or
\* a clear()'s hands only what is still queued.
Hush ==
    /\ UNCHANGED <<history, log>>
    /\ \A u \in Utt :
          /\ state'[u] = state[u] \/ (state[u] = "new" /\ state'[u] = "queued")
          /\ Held(u)' => Held(u) \/ state[u] = "queued"
          /\ \A t \in Threads : ClearDue(u, t) <=> ClearDue(u, t)'
          /\ Due(u) => Due(u)'
    /\ \A t \in Threads :
          pc'[t] = "record" => pc[t] = "record" /\ pending'[t] = pending[t]

LEMMA HushKeeps ==
  ASSUME TypeOK, Hush, Told PROVE Told'
<1>1. \A i \in DOMAIN history : /\ history[i].id \in Utt
                                /\ history[i].state \in Terminal
                                /\ history[i].state = state[history[i].id]
  BY EntryFacts DEF Told, HistoryTruthful
<1>2. \A u \in Utt : state[u] \in Terminal <=> state'[u] \in Terminal
  BY DEF Hush, Terminal
<1>3. \A u \in Utt : state[u] \in Terminal => state'[u] = state[u]
  BY DEF Hush, Terminal
<1>4. UnrecordedOK'
  <2>1. ASSUME NEW i \in DOMAIN history PROVE ~Held(history[i].id)'
    <3>1. state[history[i].id] # "queued"
      BY <1>1 DEF Terminal
    <3>2. ~Held(history[i].id)
      BY DEF Told, UnrecordedOK, Held, InProcess
    <3>. QED BY <1>1, <3>1, <3>2 DEF Hush
  <2>. QED BY <2>1 DEF UnrecordedOK, Hush, Held, InProcess
<1>5. HistoryTruthful'
  BY <1>1, <1>2, <1>3 DEF Told, HistoryTruthful, Hush, Due, ClearDue
<1>6. LogOK'
  BY DEF Told, LogOK, Hush
<1>7. EventOrder'
  BY <1>2, <1>3 DEF Told, EventOrder, Hush, ClearDue
<1>. QED BY <1>4, <1>5, <1>6, <1>7 DEF Told

\* The worker announces what it does with its utterance.
Announced(e) ==
    /\ UNCHANGED <<history, current, pending, pc>>
    /\ current \in Utt /\ wpc # "retire" /\ (e \in Terminal => wpc' = "retire")
    /\ log' = [log EXCEPT ![current] = Append(@, e)]
    /\ state' = [state EXCEPT ![current] = IF e = "progress" THEN @ ELSE e]
    /\ \/ e = "synthesizing" /\ state[current] = "queued"
       \/ e = "speaking" /\ state[current] = "synthesizing"
       \/ e = "progress" /\ state[current] = "speaking"
       \/ e \in Terminal /\ state[current] \in {"queued", "synthesizing", "speaking"}

Events == {"synthesizing", "speaking", "progress"} \cup Terminal

LEMMA AnnouncedKeeps ==
  ASSUME PlaceOK, Told, NEW e \in Events, Announced(e) PROVE Told'
<1>. DEFINE c == current
<1>1. /\ c \in Utt /\ log \in [Utt -> Seq(Events)] /\ state \in [Utt -> Lifecycle]
      /\ state[c] \notin Terminal
  BY DEF Announced, Told, LogOK, PlaceOK, TypeOK, Events, Terminal
<1>2. \A u \in Utt : u # c => log'[u] = log[u] /\ state'[u] = state[u]
  BY <1>1 DEF Announced
<1>3. log'[c] = Append(log[c], e) /\ (state'[c] = IF e = "progress" THEN state[c] ELSE e)
  BY <1>1 DEF Announced
<1>4. /\ log[c] \in Seq(Events) /\ DOMAIN log[c] = 1..Len(log[c]) /\ Len(log[c]) \in Nat
      /\ DOMAIN Append(log[c], e) = 1..Len(log[c]) + 1
      /\ Append(log[c], e)[Len(log[c]) + 1] = e
      /\ \A i \in 1..Len(log[c]) : Append(log[c], e)[i] = log[c][i] /\ log[c][i] \in Events
  BY <1>1
<1>5. \A i \in DOMAIN history : history[i].id \in Utt \ {c}
  BY EntryFacts DEF Told, UnrecordedOK, PlaceOK
<1>6. UnrecordedOK'
  BY DEF Told, UnrecordedOK, Announced, InClear
<1>7. HistoryTruthful'
  <2>1. \A u \in Utt : Due(u) => Due(u)'
    BY DEF Due, ClearDue, InClear, InProcess, Announced
  <2>2. \A i \in DOMAIN history : state'[history[i].id] = state[history[i].id]
    BY <1>2, <1>5
  <2>3. state'[c] \in Terminal => Due(c)'
    BY <1>1, <1>3 DEF Due, InProcess, Announced, Terminal
  <2>. QED BY <1>2, <2>1, <2>2, <2>3 DEF Told, HistoryTruthful, Announced, Due, ClearDue
<1>8. LogOK'
  <2>1. log' \in [Utt -> Seq(Events)]
    BY <1>1, <1>2, <1>3, <1>4 DEF Announced
  <2>2. /\ state'[c] \in {"new", "queued"} => log'[c] = <<>>
        /\ state'[c] = "synthesizing" => \A i \in DOMAIN log'[c] : log'[c][i] = "synthesizing"
        /\ state'[c] = "speaking" => \A i \in DOMAIN log'[c] : log'[c][i] \notin Terminal
    <3>1. \A i \in 1..Len(log[c]) + 1 : i \in 1..Len(log[c]) \/ i = Len(log[c]) + 1
      BY <1>4
    <3>2. CASE e = "synthesizing"
      <4>1. log[c] = <<>>
        BY <3>2 DEF Announced, Told, LogOK, Terminal
      <4>. QED BY <1>3, <1>4, <3>1, <3>2, <4>1
    <3>3. CASE e = "speaking"
      <4>1. \A i \in DOMAIN log[c] : log[c][i] = "synthesizing"
        BY <3>3 DEF Announced, Told, LogOK, Terminal
      <4>. QED BY <1>3, <1>4, <3>1, <3>3, <4>1 DEF Terminal
    <3>4. CASE e = "progress"
      <4>1. state[c] = "speaking" /\ \A i \in DOMAIN log[c] : log[c][i] \notin Terminal
        BY <3>4 DEF Announced, Told, LogOK, Terminal
      <4>. QED BY <1>3, <1>4, <3>1, <3>4, <4>1 DEF Terminal
    <3>5. CASE e \in Terminal
      BY <1>3, <3>5 DEF Terminal
    <3>. QED BY <3>2, <3>3, <3>4, <3>5 DEF Events
  <2>3. ASSUME NEW t \in Threads, pc[t] = "record" PROVE log'[pending[t][1]] = <<>>
    <3>1. pending[t] # <<>>
      BY <2>3 DEF PlaceOK, ThreadOK
    <3>. QED BY <1>2, <2>3, <3>1, HeadFacts DEF Told, LogOK
  <2>. QED BY <1>2, <2>1, <2>2, <2>3 DEF Told, LogOK, Announced, Events
<1>9. EventOrder'
  <2>1. \A i \in DOMAIN log[c] :
           Rank(log[c][i]) < Rank(e) \/ (log[c][i] = "progress" /\ e = "progress")
    <3>1. CASE e = "synthesizing"
      BY <3>1 DEF Announced, Told, LogOK, Terminal
    <3>2. CASE e = "speaking"
      BY <3>2 DEF Announced, Told, LogOK, Terminal, Rank
    <3>3. CASE e = "progress"
      BY <1>4, <3>3 DEF Announced, Told, LogOK, Terminal, Rank, Events
    <3>4. CASE e \in Terminal
      <4>1. \A i \in DOMAIN log[c] : log[c][i] \notin Terminal
        BY <1>1 DEF Told, EventOrder
      <4>. QED BY <1>4, <3>4, <4>1 DEF Terminal, Rank, Events
    <3>. QED BY <3>1, <3>2, <3>3, <3>4 DEF Events
  <2>2. Ordered(log'[c])
    BY <1>1, <1>3, <1>4, <2>1, AppendOrdered DEF Told, EventOrder
  <2>3. /\ \A i \in DOMAIN log'[c] : log'[c][i] \in Terminal => log'[c][i] = state'[c]
        /\ state'[c] \in Terminal => \E i \in DOMAIN log'[c] : log'[c][i] = state'[c]
    <3>1. \A i \in DOMAIN log[c] : log[c][i] \notin Terminal
      BY <1>1 DEF Told, EventOrder
    <3>2. e \in Terminal => state'[c] = e
      BY <1>3 DEF Terminal
    <3>3. state'[c] \in Terminal => state'[c] = e
      BY <1>1, <1>3
    <3>4. Len(log[c]) + 1 \in 1..Len(log[c]) + 1
      BY <1>4
    <3>5. \A i \in 1..Len(log[c]) + 1 : i \in 1..Len(log[c]) \/ i = Len(log[c]) + 1
      BY <1>4
    <3>. QED BY <1>3, <1>4, <3>1, <3>2, <3>3, <3>4, <3>5
  <2>. HIDE DEF c
  <2>4. ASSUME NEW u \in Utt, u # c
        PROVE  /\ Ordered(log'[u])
               /\ \A i \in DOMAIN log'[u] : log'[u][i] \in Terminal => log'[u][i] = state'[u]
               /\ state'[u] \in Terminal =>
                     \/ \E i \in DOMAIN log'[u] : log'[u][i] = state'[u]
                     \/ \E t \in Threads : InClear(u, t)' /\ pc'[t] = "record"
    <3>1. log'[u] = log[u] /\ state'[u] = state[u]
      BY <1>2, <2>4
    <3>2. pc' = pc /\ \A t \in Threads : InClear(u, t)' <=> InClear(u, t)
      BY DEF Announced, InClear
    <3>. QED BY <3>1, <3>2 DEF Told, EventOrder
  <2>5. ASSUME NEW u \in Utt
        PROVE  /\ Ordered(log'[u])
               /\ \A i \in DOMAIN log'[u] : log'[u][i] \in Terminal => log'[u][i] = state'[u]
               /\ state'[u] \in Terminal =>
                     \/ \E i \in DOMAIN log'[u] : log'[u][i] = state'[u]
                     \/ \E t \in Threads : InClear(u, t)' /\ pc'[t] = "record"
    <3>1. CASE u = c
      BY <2>2, <2>3, <3>1
    <3>2. CASE u # c
      BY <2>4, <3>2
    <3>. QED BY <3>1, <3>2
  <2>. QED BY <2>5 DEF EventOrder
<1>. QED BY <1>6, <1>7, <1>8, <1>9 DEF Told

\* An utterance that leaves the worker's or a clear()'s hands enters the history.
LEMMA RecordedOnce ==
  ASSUME TypeOK, NEW u \in Utt, Record(u), state' = state, state[u] \in Terminal,
         UnrecordedOK, HistoryTruthful, Held(u), ~Held(u)',
         \A v \in Utt : /\ Held(v)' => Held(v)
                        /\ v # u /\ state[v] \in Terminal /\ Due(v) => Due(v)'
  PROVE  UnrecordedOK' /\ HistoryTruthful'
<1>. DEFINE entry == [id |-> u, state |-> state[u]]
            full == Append(history, entry)
            Entry == [id : Utt, state : Lifecycle]
<1>1. /\ entry \in Entry /\ history \in Seq(Entry)
      /\ entry.id = u /\ entry.state = state[u]
  BY DEF TypeOK
<1>2. history' = IF Len(full) > HistorySize THEN Tail(full) ELSE full
  BY DEF Record
<1>. HIDE DEF entry, Entry
<1>3. /\ full \in Seq(Entry) /\ Len(full) = Len(history) + 1 /\ Len(history) \in Nat
      /\ full[Len(history) + 1] = entry
      /\ \A k \in 1..Len(history) : full[k] = history[k]
      /\ DOMAIN history = 1..Len(history)
  BY <1>1
<1>4. \A k \in 1..Len(full) : k \in 1..Len(history) \/ k = Len(history) + 1
  BY <1>3
<1>. HIDE DEF full
<1>5. \A k \in 1..Len(history) : /\ history[k].id \in Utt /\ history[k].id # u
                                 /\ ~Held(history[k].id)
  BY <1>3, EntryFacts DEF UnrecordedOK, Held, InProcess
<1>6. ASSUME NEW k \in 1..Len(full)
      PROVE  /\ full[k].id \in Utt /\ (\A v \in Utt : Held(v)' => v # full[k].id)
             /\ full[k].state \in Terminal /\ full[k].state = state[full[k].id]
  <2>1. CASE k = Len(history) + 1
    BY <1>1, <1>3, <2>1
  <2>2. CASE k \in 1..Len(history)
    BY <1>3, <1>5, <2>2 DEF HistoryTruthful
  <2>. QED BY <1>4, <2>1, <2>2
<1>7. ASSUME NEW k \in 1..Len(full), NEW l \in 1..Len(full), full[k].id = full[l].id
      PROVE  k = l
  <2>1. CASE k \in 1..Len(history) /\ l \in 1..Len(history)
    BY <1>3, <1>7, <2>1 DEF HistoryTruthful
  <2>2. CASE k = Len(history) + 1 \/ l = Len(history) + 1
    BY <1>1, <1>3, <1>4, <1>5, <1>7, <2>2
  <2>. QED BY <1>4, <2>1, <2>2
<1>8. CASE Len(full) > HistorySize
  <2>1. /\ history' = Tail(full) /\ Len(history') = Len(full) - 1
        /\ DOMAIN history' = 1..Len(history')
        /\ \A i \in 1..Len(history') : i + 1 \in 1..Len(full) /\ history'[i] = full[i + 1]
    BY <1>2, <1>3, <1>8
  <2>2. ~(Len(history') < HistorySize)
    BY <1>3, <1>8, <2>1, SizeAssumption
  <2>3. UnrecordedOK'
    <3>1. ASSUME NEW i \in DOMAIN history', NEW v \in Utt, v = history'[i].id
          PROVE  v # current' /\ \A t \in Threads : ~InClear(v, t)'
      BY <1>6, <2>1, <3>1 DEF Held, InProcess
    <3>2. \A i \in DOMAIN history' : history'[i].id \in Utt
      BY <1>6, <2>1
    <3>. QED BY <3>1, <3>2 DEF UnrecordedOK, InClear
  <2>4. \A i \in DOMAIN history' :
           history'[i].state \in Terminal /\ history'[i].state = state'[history'[i].id]
    BY <1>6, <2>1
  <2>5. ASSUME NEW i \in DOMAIN history', NEW j \in DOMAIN history',
               history'[i].id = history'[j].id
        PROVE  i = j
    <3>1. /\ i + 1 \in 1..Len(full) /\ j + 1 \in 1..Len(full) /\ i \in Nat /\ j \in Nat
          /\ history'[i] = full[i + 1] /\ history'[j] = full[j + 1]
      BY <2>1
    <3>2. i + 1 = j + 1
      BY <1>7, <2>5, <3>1
    <3>. QED BY <3>1, <3>2
  <2>. QED BY <2>2, <2>3, <2>4, <2>5 DEF HistoryTruthful
<1>9. CASE ~(Len(full) > HistorySize)
  <2>1. history' = full /\ DOMAIN history' = 1..Len(full)
    BY <1>2, <1>3, <1>9
  <2>2. UnrecordedOK'
    <3>1. ASSUME NEW i \in DOMAIN history', NEW v \in Utt, v = history'[i].id
          PROVE  v # current' /\ \A t \in Threads : ~InClear(v, t)'
      BY <1>6, <2>1, <3>1 DEF Held, InProcess
    <3>2. \A i \in DOMAIN history' : history'[i].id \in Utt
      BY <1>6, <2>1
    <3>. QED BY <3>1, <3>2 DEF UnrecordedOK, InClear
  <2>3. ASSUME NEW v \in Utt, state'[v] \in Terminal
        PROVE  (\E i \in DOMAIN history' : history'[i].id = v) \/ Due(v)'
    <3>1. CASE v = u
      <4>1. Len(history) + 1 \in DOMAIN history'
        BY <1>3, <2>1
      <4>. QED BY <1>1, <1>3, <2>1, <3>1, <4>1
    <3>2. CASE v # u
      <4>1. Len(history) < HistorySize
        BY <1>3, <1>9, SizeAssumption
      <4>2. (\E i \in DOMAIN history : history[i].id = v) \/ Due(v)
        BY <2>3, <4>1 DEF HistoryTruthful, Due, ClearDue
      <4>3. \A i \in DOMAIN history : i \in DOMAIN history' /\ history'[i] = history[i]
        BY <1>3, <2>1
      <4>. QED BY <2>3, <3>2, <4>2, <4>3
    <3>. QED BY <3>1, <3>2
  <2>. QED BY <1>6, <1>7, <2>1, <2>2, <2>3 DEF HistoryTruthful, Due, ClearDue
<1>. QED BY <1>8, <1>9

\* The finally clause.
LEMMA RetireTells ==
  ASSUME PlaceOK, Told, WorkerRetire PROVE Told'
<1>1. /\ current \in Utt /\ state[current] \in Terminal /\ Record(current)
      /\ current' = None /\ UNCHANGED <<state, pending, pc, log>>
  BY DEF WorkerRetire, PlaceOK, TypeOK, WorkerOK, WorkerIdle, uttVars, apiVars, ghostVars
<1>2. PICK u \in Utt : u = current
  BY <1>1
<1>3. \A v \in Utt, t \in Threads : /\ InClear(v, t)' <=> InClear(v, t)
                                    /\ ClearDue(v, t)' <=> ClearDue(v, t)
  BY <1>1 DEF InClear, ClearDue
<1>4. \A t \in Threads : ~InClear(u, t)
  BY <1>2, InHands DEF PlaceOK, OwnerOK
<1>5. \A v \in Utt : (InProcess(v) <=> v = u) /\ ~InProcess(v)'
  BY <1>1, <1>2, NoneAssumption DEF InProcess
<1>6. UnrecordedOK' /\ HistoryTruthful'
  <2>1. Held(u) /\ ~Held(u)'
    BY <1>3, <1>4, <1>5 DEF Held
  <2>2. \A v \in Utt : /\ Held(v)' => Held(v)
                       /\ v # u /\ state[v] \in Terminal /\ Due(v) => Due(v)'
    BY <1>3, <1>5 DEF Held, Due
  <2>. QED BY <1>1, <1>2, <2>1, <2>2, RecordedOnce DEF Told, PlaceOK
<1>. QED BY <1>1, <1>3, <1>6 DEF Told, LogOK, EventOrder, ClearDue

\* clear() decides the end of an utterance, and is yet to record and announce it.
LEMMA ClearCancelTells ==
  ASSUME NEW t \in Threads, PlaceOK, Told, ClearCancel(t) PROVE Told'
<1>1. pending[t] # <<>> /\ pc[t] = "cancel"
  BY DEF ClearCancel
<1>2. PICK u \in Utt : u = pending[t][1]
  BY <1>1, HeadFacts
<1>3. u = Head(pending[t]) /\ state[u] = "queued"
  BY <1>1, <1>2, HeadFacts
<1>4. /\ state' = [state EXCEPT ![u] = "cancelled"] /\ pc' = [pc EXCEPT ![t] = "record"]
      /\ UNCHANGED <<history, current, wpc, pending, log>>
  BY <1>3 DEF ClearCancel, Transition, Terminal, queueVars, workerVars, ghostVars
<1>5. InClear(u, t)
  BY <1>1, <1>2, InHands, HeadFacts DEF PlaceOK
<1>6. \A v \in Utt : state'[v] = IF v = u THEN "cancelled" ELSE state[v]
  BY <1>4 DEF PlaceOK, TypeOK
<1>7. \A s \in Threads : pc'[s] = IF s = t THEN "record" ELSE pc[s]
  BY <1>4 DEF PlaceOK, TypeOK
<1>8. \A v \in Utt, s \in Threads : /\ InClear(v, s)' <=> InClear(v, s)
                                    /\ ClearDue(v, s) => ClearDue(v, s)'
  BY <1>1, <1>4, <1>7 DEF InClear, ClearDue
<1>9. ClearDue(u, t)'
  BY <1>5, <1>7, <1>8 DEF ClearDue
<1>10. \A i \in DOMAIN history : history[i].id \in Utt \ {u}
  BY <1>5, EntryFacts DEF Told, UnrecordedOK, PlaceOK
<1>11. UnrecordedOK'
  BY <1>4 DEF Told, UnrecordedOK, InClear
<1>12. HistoryTruthful'
  <2>1. \A v \in Utt : Due(v) => Due(v)'
    BY <1>4, <1>8 DEF Due, InProcess
  <2>2. Due(u)'
    BY <1>9 DEF Due
  <2>. QED BY <1>4, <1>6, <1>10, <2>1, <2>2 DEF Told, HistoryTruthful, Due, ClearDue
<1>13. log[u] = <<>>
  BY <1>3 DEF Told, LogOK
<1>14. LogOK'
  BY <1>2, <1>4, <1>6, <1>7, <1>13 DEF Told, LogOK
<1>15. EventOrder'
  <2>1. ASSUME NEW v \in Utt, v # u
        PROVE  state'[v] \in Terminal =>
                  \/ \E i \in DOMAIN log[v] : log[v][i] = state'[v]
                  \/ \E s \in Threads : ClearDue(v, s)'
    BY <1>6, <1>8, <2>1 DEF Told, EventOrder, ClearDue
  <2>2. ASSUME NEW v \in Utt
        PROVE  /\ Ordered(log[v])
               /\ \A i \in DOMAIN log[v] : log[v][i] \in Terminal => log[v][i] = state'[v]
    BY <1>6, <1>13 DEF Told, EventOrder
  <2>. QED BY <1>4, <1>9, <2>1, <2>2 DEF EventOrder, ClearDue
<1>. QED BY <1>11, <1>12, <1>14, <1>15 DEF Told

\* clear() records what it has cancelled, and announces it.
LEMMA ClearRecordTells ==
  ASSUME NEW t \in Threads, PlaceOK, Told, ClearRecord(t) PROVE Told'
<1>1. pc[t] = "record" /\ pending[t] # <<>>
  BY DEF ClearRecord, PlaceOK, ThreadOK
<1>2. PICK u \in Utt : u = pending[t][1]
  BY <1>1, HeadFacts
<1>3. u = Head(pending[t]) /\ state[u] = "cancelled" /\ u # current /\ log[u] = <<>>
  BY <1>1, <1>2, HeadFacts DEF Told, LogOK
<1>4. /\ Record(u) /\ log' = [log EXCEPT ![u] = Append(@, "cancelled")]
      /\ pending' = [pending EXCEPT ![t] = Tail(@)] /\ pc' = [pc EXCEPT ![t] = "cancel"]
      /\ UNCHANGED <<current, state, wpc>>
  BY <1>3 DEF ClearRecord, Publish, uttVars, workerVars
<1>5. InClear(u, t)
  BY <1>1, <1>2, InHands, HeadFacts DEF PlaceOK
<1>6. \A v \in Utt, s \in Threads : InClear(v, s)' <=> InClear(v, s) /\ v # u
  BY <1>1, <1>2, <1>4, TailHands
<1>7. \A s \in Threads : pc'[s] = IF s = t THEN "cancel" ELSE pc[s]
  BY <1>4 DEF PlaceOK, TypeOK
<1>8. ASSUME NEW v \in Utt, v # u, state[v] \in Terminal, NEW s \in Threads
      PROVE  ClearDue(v, s) => ClearDue(v, s)'
  <2>1. InClear(v, t) => state[v] = "queued"
    <3>1. InClear(v, t) => \E i \in 1..Len(pending[t]) : pending[t][i] = v /\ i # 1
      BY <1>2, <1>8, InHands DEF PlaceOK
    <3>. QED BY <3>1 DEF PlaceOK, OwnerOK
  <2>. QED BY <1>6, <1>7, <1>8, <2>1 DEF ClearDue, Terminal
<1>9. \A v \in Utt, s \in Threads : InClear(v, s)' => InClear(v, s)
  BY <1>6
<1>10. UnrecordedOK' /\ HistoryTruthful'
  <2>1. Held(u) /\ ~Held(u)'
    BY <1>3, <1>4, <1>5, <1>6 DEF Held, InProcess
  <2>2. \A v \in Utt : /\ Held(v)' => Held(v)
                       /\ v # u /\ state[v] \in Terminal /\ Due(v) => Due(v)'
    BY <1>4, <1>8, <1>9 DEF Held, Due, InProcess
  <2>. QED BY <1>3, <1>4, <2>1, <2>2, RecordedOnce DEF Told, PlaceOK, Terminal
<1>11. /\ log \in [Utt -> Seq(Events)]
       /\ \A v \in Utt : log'[v] = IF v = u THEN <<"cancelled">> ELSE log[v]
  BY <1>3, <1>4 DEF Told, LogOK, Events
<1>12. LogOK'
  <2>1. log' \in [Utt -> Seq(Events)]
    BY <1>3, <1>4, <1>11 DEF Events, Terminal
  <2>2. ASSUME NEW s \in Threads, pc'[s] = "record"
        PROVE  log'[pending'[s][1]] = <<>>
    <3>1. s # t /\ pc[s] = "record" /\ pending[s] # <<>> /\ pending'[s] = pending[s]
      BY <1>4, <1>7, <2>2 DEF PlaceOK, TypeOK, ThreadOK
    <3>2. pending[s][1] \in Utt /\ 1 \in 1..Len(pending[s]) /\ 1 \in 1..Len(pending[t])
      BY <1>1, <3>1, HeadFacts
    <3>3. pending[s][1] # u
      BY <1>2, <3>1, <3>2 DEF PlaceOK, OwnerOK
    <3>. QED BY <1>11, <3>1, <3>2, <3>3 DEF Told, LogOK
  <2>. QED BY <1>3, <1>4, <1>11, <2>1, <2>2 DEF Told, LogOK, Events
<1>13. EventOrder'
  <2>1. ASSUME NEW v \in Utt
        PROVE  /\ Ordered(log'[v])
               /\ \A i \in DOMAIN log'[v] : log'[v][i] \in Terminal => log'[v][i] = state[v]
               /\ state[v] \in Terminal =>
                     \/ \E i \in DOMAIN log'[v] : log'[v][i] = state[v]
                     \/ \E s \in Threads : ClearDue(v, s)'
    <3>1. CASE v = u
      <4>1. /\ log'[v] = <<"cancelled">> /\ DOMAIN <<"cancelled">> = {1}
            /\ <<"cancelled">>[1] = "cancelled"
        BY <1>11, <3>1
      <4>. QED BY <1>3, <3>1, <4>1 DEF Ordered
    <3>2. CASE v # u
      BY <1>8, <1>11, <3>2 DEF Told, EventOrder, ClearDue
    <3>. QED BY <3>1, <3>2
  <2>. QED BY <1>4, <2>1 DEF EventOrder, ClearDue
<1>. QED BY <1>10, <1>12, <1>13 DEF Told

\* The other steps: each hushes, or announces one event.
LEMMA OtherStepsTell ==
  ASSUME PlaceOK, Told,
         \/ Worker /\ ~WorkerRetire
         \/ Prefetch
         \/ \E t \in Threads : Request(t)
         \/ \E t \in Threads : Serve(t) /\ ~ClearCancel(t) /\ ~ClearRecord(t)
         \/ UNCHANGED vars
  PROVE  Told'
<1>1. TypeOK
  BY DEF PlaceOK
<1>3. ASSUME NEW t \in Threads, EnqueueAccepted(t) PROVE Told'
  <2>1. utt[t] \in Utt /\ state[utt[t]] = "new" /\ pc[t] = "enqueue"
    BY <1>3 DEF EnqueueAccepted, PlaceOK, ThreadOK
  <2>2. /\ state' = [state EXCEPT ![utt[t]] = "queued"]
        /\ pc' = [pc EXCEPT ![t] = "publish"]
        /\ UNCHANGED <<history, log, current, pending>>
        /\ (wpc = "retire" => wpc' = "retire")
    BY <1>3 DEF EnqueueAccepted, Notify, ghostVars
  <2>3. \A u \in Utt : state'[u] = IF u = utt[t] THEN "queued" ELSE state[u]
    BY <1>1, <2>2 DEF TypeOK
  <2>4. \A s \in Threads : pc'[s] = IF s = t THEN "publish" ELSE pc[s]
    BY <1>1, <2>2 DEF TypeOK
  <2>5. \A u \in Utt, s \in Threads : InClear(u, s)' <=> InClear(u, s)
    BY <2>2 DEF InClear
  <2>6. Hush
    BY <2>1, <2>2, <2>3, <2>4, <2>5 DEF Hush, Held, Due, ClearDue, InProcess
  <2>. QED BY <1>1, <2>6, HushKeeps
<1>2. ASSUME UNCHANGED <<history, log, state, current, pending>>,
             \A t \in Threads : pc'[t] = "record" <=> pc[t] = "record",
             wpc = "retire" => wpc' = "retire"
      PROVE  Told'
  <2>1. Hush
    BY <1>2 DEF Hush, Held, Due, ClearDue, InProcess, InClear
  <2>. QED BY <1>1, <2>1, HushKeeps
<1>4. ASSUME NEW t \in Threads, ClearTake(t) PROVE Told'
  <2>1. /\ pending' = [pending EXCEPT ![t] = items] /\ pc' = [pc EXCEPT ![t] = "cancel"]
        /\ UNCHANGED <<history, log, state, current, wpc>>
        /\ pc[t] = "clear" /\ items \in Seq(Utt) /\ pending \in [Threads -> Seq(Utt)]
        /\ pc \in [Threads -> ThreadPcs]
    BY <1>1, <1>4 DEF ClearTake, TakeAll, TypeOK, uttVars, workerVars, ghostVars
  <2>2. \A s \in Threads : /\ pending'[s] = IF s = t THEN items ELSE pending[s]
                           /\ pc'[s] = IF s = t THEN "cancel" ELSE pc[s]
    BY <2>1
  <2>3. \A u \in Utt, s \in Threads : s # t => (InClear(u, s)' <=> InClear(u, s))
    BY <2>2 DEF InClear
  <2>4. ASSUME NEW u \in Utt, InClear(u, t)' PROVE state[u] = "queued"
    <3>1. u \in Range(items)
      BY <2>2, <2>4 DEF InClear
    <3>2. \E i \in 1..Len(items) : items[i] = u
      BY <2>1, <3>1 DEF Range
    <3>. QED BY <3>2 DEF PlaceOK, OwnerOK
  <2>5. \A u \in Utt, s \in Threads : ClearDue(u, s) <=> ClearDue(u, s)'
    BY <2>1, <2>2, <2>3 DEF ClearDue
  <2>6. \A u \in Utt : (Held(u)' => Held(u) \/ state[u] = "queued") /\ (Due(u) => Due(u)')
    BY <2>1, <2>3, <2>4, <2>5 DEF Held, Due, InProcess
  <2>7. Hush
    BY <2>1, <2>2, <2>5, <2>6 DEF Hush
  <2>. QED BY <1>1, <2>7, HushKeeps
<1>5. ASSUME NEW t \in Threads,
             \/ EnqueueRejected(t) \/ (\E wait \in BOOLEAN : PublishQueued(t, wait))
             \/ AwaitReturns(t) \/ ClearFlag(t) \/ ClearNoCurrent(t) \/ ClearStop(t)
             \/ CloseNotify(t) \/ CloseJoined(t)
      PROVE  Told'
  <2>1. /\ UNCHANGED <<history, log, state, current, pending>>
        /\ wpc = "retire" => wpc' = "retire"
    BY <1>5 DEF EnqueueRejected, PublishQueued, AwaitReturns, ClearFlag, ClearNoCurrent,
       ClearStop, CloseNotify, CloseJoined, Notify, queueVars, uttVars, workerVars, ghostVars
  <2>2. /\ pc[t] # "record" /\ \E p \in ThreadPcs \ {"record"} : pc' = [pc EXCEPT ![t] = p]
    BY <1>5 DEF EnqueueRejected, PublishQueued, AwaitReturns, ClearFlag, ClearNoCurrent,
       ClearStop, AfterClear, CloseNotify, CloseJoined, ThreadPcs
  <2>3. \A s \in Threads : pc'[s] = "record" <=> pc[s] = "record"
    BY <1>1, <2>2 DEF TypeOK
  <2>. QED BY <1>2, <2>1, <2>3
<1>6. CASE \E t \in Threads : Serve(t) /\ ~ClearCancel(t) /\ ~ClearRecord(t)
  BY <1>3, <1>4, <1>5, <1>6 DEF Serve
<1>7. CASE Prefetch \/ UNCHANGED vars
  BY <1>2, <1>7 DEF Prefetch, PrefetchStart, PrefetchEnds, OrphanEnds, vars, queueVars,
     uttVars, workerVars, apiVars, ghostVars
<1>8. ASSUME NEW t \in Threads, Request(t) PROVE Told'
  <2>1. /\ UNCHANGED <<history, log, state, current, pending, wpc>> /\ pc[t] = "idle"
        /\ \E p \in {"clear", "enqueue"} : pc' = [pc EXCEPT ![t] = p]
    BY <1>8 DEF Request, Speak, CallStop, CallClose, queueVars, uttVars, workerVars, ghostVars
  <2>2. \A s \in Threads : pc'[s] = "record" <=> pc[s] = "record"
    BY <1>1, <2>1 DEF TypeOK
  <2>. QED BY <1>2, <2>1, <2>2
<1>9. CASE \/ WorkerWait \/ WorkerExit \/ WorkerSynth \/ WorkerLookahead \/ WorkerSubmit
           \/ WorkerPlay \/ WorkerPlayCompletes \/ WorkerPlayed \/ WorkerCollect
  <2>1. /\ UNCHANGED <<history, log, state, current, pending, pc>>
        /\ wpc # "retire"
    BY <1>9 DEF WorkerWait, WorkerExit, WorkerSynth, WorkerLookahead, WorkerSubmit,
       WorkerPlay, WorkerPlayCompletes, WorkerPlayed, WorkerCollect,
       queueVars, uttVars, apiVars, ghostVars
  <2>. QED BY <1>2, <2>1
<1>10. CASE WorkerTake
  <2>1. /\ items # <<>> /\ items \in Seq(Utt) /\ wpc = "loop" /\ current' = items[1]
        /\ UNCHANGED <<history, log, state, pending, pc>>
    BY <1>1, <1>10 DEF WorkerTake, Pop, TypeOK, uttVars, apiVars, ghostVars
  <2>2. state[items[1]] = "queued"
    BY <2>1 DEF PlaceOK, OwnerOK
  <2>3. Hush
    BY <2>1, <2>2 DEF Hush, Held, Due, ClearDue, InProcess, InClear
  <2>. QED BY <1>1, <2>3, HushKeeps
<1>11. CASE WorkerStart \/ WorkerSpeak \/ WorkerGate
  <2>1. /\ current \in Utt /\ wpc # "retire" /\ state \in [Utt -> Lifecycle]
        /\ UNCHANGED <<history, current, pending, pc>>
    BY <1>1, <1>11, BusyFacts
    DEF WorkerStart, WorkerSpeak, WorkerGate, TypeOK, WorkerIdle, queueVars, apiVars
  <2>2. CASE WorkerStart
    <3>1. Announced("synthesizing")
      BY <2>1, <2>2, BusyFacts DEF WorkerStart, Announced, Transition, Publish, Terminal
    <3>. QED BY <3>1, AnnouncedKeeps DEF Events
  <2>3. CASE WorkerSpeak
    <3>1. Announced("speaking")
      BY <2>1, <2>3, BusyFacts DEF WorkerSpeak, Announced, Transition, Publish, Terminal
    <3>. QED BY <3>1, AnnouncedKeeps DEF Events
  <2>4. CASE WorkerGate
    <3>1. Announced("progress")
      BY <2>1, <2>4, BusyFacts
      DEF WorkerGate, Announced, Publish, Terminal, WorkerSpeaking, uttVars
    <3>. QED BY <3>1, AnnouncedKeeps DEF Events
  <2>. QED BY <1>11, <2>2, <2>3, <2>4
<1>12. CASE \/ WorkerStartCancelled \/ WorkerSynthFails \/ WorkerSynthesizedCancelled
            \/ WorkerSubmitRaises \/ WorkerGateCancelled \/ WorkerPlayInterrupted
            \/ WorkerPlayRaises \/ WorkerPlayedCancelled \/ WorkerCollectFails
            \/ WorkerFinish
  <2>1. PICK s \in Terminal : WorkerEnds(s)
    BY <1>12 DEF WorkerStartCancelled, WorkerSynthFails, WorkerSynthesizedCancelled,
       WorkerSubmitRaises, WorkerGateCancelled, WorkerPlayInterrupted,
       WorkerPlayRaises, WorkerPlayedCancelled, WorkerCollectFails, WorkerFinish, Terminal
  <2>2. wpc \notin WorkerIdle \cup {"retire"}
    BY <1>12 DEF WorkerStartCancelled, WorkerSynthFails, WorkerSynthesizedCancelled,
       WorkerSubmitRaises, WorkerGateCancelled, WorkerPlayInterrupted,
       WorkerPlayRaises, WorkerPlayedCancelled, WorkerCollectFails, WorkerFinish, WorkerIdle
  <2>3. current \in Utt /\ state[current] \in {"queued", "synthesizing", "speaking"}
    BY <2>2, BusyFacts DEF WorkerPcs, WorkerIdle, WorkerSpeaking
  <2>4. Announced(s)
    BY <2>1, <2>2, <2>3 DEF WorkerEnds, Finalize, Transition, Publish, Announced, Terminal,
       queueVars, apiVars
  <2>. QED BY <2>4, AnnouncedKeeps DEF Events
<1>. QED BY <1>6, <1>7, <1>8, <1>9, <1>10, <1>11, <1>12 DEF Worker

\* Every step keeps what is told true.
LEMMA ToldKeeps == PlaceOK /\ Told /\ [Next]_vars => Told'
<1>1. ASSUME NEW t \in Threads, PlaceOK, Told, Serve(t) PROVE Told'
  BY <1>1, OtherStepsTell, ClearCancelTells, ClearRecordTells
<1>. QED BY <1>1, OtherStepsTell, RetireTells DEF Next

-----------------------------------------------------------------------------
(* Every reachable state *)

\* At first nothing was heard or told.
LEMMA InitIInv == Init => IInv
<1> SUFFICES ASSUME Init PROVE IInv
  OBVIOUS
<1>. USE DEF Init
<1>1. PlaceOK
  BY InitPlaceOK
<1>2. HeardOK /\ LoopOK /\ WorkerInStep
  <2>1. \A u \in Utt : played[u] = [i \in 1..Len(played[u]) |-> i]
    OBVIOUS
  <2>. QED BY <2>1, <1>1 DEF HeardOK, LoopOK, WorkerInStep, PlayedInOrder, OverrunBounded,
          LookaheadReleased, WorkerSpeaking, PlaceOK, TypeOK
<1>3. UnrecordedOK /\ HistoryTruthful
  BY DEF UnrecordedOK, HistoryTruthful, Terminal
<1>4. LogOK /\ EventOrder
  BY DEF LogOK, EventOrder, Ordered, Terminal
<1>. QED BY <1>1, <1>2, <1>3, <1>4 DEF IInv

\* The invariant of the queue holds in every reachable state: the places of the
\* utterances, what is heard of them and what is told of them agree.
THEOREM Invariance == Spec => []IInv
<1>1. IInv /\ [Next]_vars => IInv'
  BY NextKeepsPlaceOK, InStepKeeps, ToldKeeps DEF IInv, Told
<1>. QED BY <1>1, InitIInv, PTL DEF Spec

\* WorkerInStep for all constants: however long the text, and whenever a stop or
\* a failure comes, chunks are heard in order and once, at most one clip starts
\* after the flag, and no look-ahead is left behind.
THEOREM WorkerInStepHolds == Spec => []WorkerInStep
<1>1. IInv => WorkerInStep
  BY DEF IInv
<1>. QED BY <1>1, Invariance, PTL

\* HistoryTruthful for all constants: whoever ends an utterance records it, once,
\* with its last state, whatever the length of the history.
THEOREM HistoryTruthfulHolds == Spec => []HistoryTruthful
<1>1. IInv => HistoryTruthful
  BY DEF IInv
<1>. QED BY <1>1, Invariance, PTL

\* EventOrder for all constants: the events of an utterance tell its life in
\* order, and end with how it ended.
THEOREM EventOrderHolds == Spec => []EventOrder
<1>1. IInv => EventOrder
  BY DEF IInv
<1>. QED BY <1>1, Invariance, PTL

-----------------------------------------------------------------------------
(* What a stop covers *)

\* No step revises an ended utterance, takes a flag back, or lets one slip out
\* of a clear()'s hands.
LEMMA NothingSlips ==
  ASSUME PlaceOK, [Next]_vars, NEW u \in Utt
  PROVE  /\ state[u] \in Terminal => state'[u] = state[u]
         /\ cancelRequested[u] => cancelRequested'[u]
         /\ \A s \in Threads : InClear(u, s) => InClear(u, s)' \/ state[u] \in Terminal
<1>1. CASE Worker
  <2>1. UNCHANGED <<cancelRequested, pending>>
    BY <1>1 DEF Worker, WorkerWait, WorkerExit, WorkerTake, WorkerStartCancelled,
       WorkerStart, WorkerSynth, WorkerSynthFails, WorkerSynthesizedCancelled, WorkerSpeak,
       WorkerLookahead, WorkerSubmit, WorkerSubmitRaises, WorkerGateCancelled, WorkerGate,
       WorkerPlay, WorkerPlayCompletes, WorkerPlayInterrupted, WorkerPlayRaises,
       WorkerPlayedCancelled, WorkerPlayed, WorkerCollect, WorkerCollectFails,
       WorkerFinish, WorkerRetire, WorkerEnds, uttVars, apiVars
  <2>2. state[u] \in Terminal => state'[u] = state[u]
    <3>1. \/ state' = state
          \/ \E s \in Lifecycle : Transition(current, s)
      BY <1>1 DEF Worker, WorkerWait, WorkerExit, WorkerTake, WorkerStartCancelled,
         WorkerStart, WorkerSynth, WorkerSynthFails, WorkerSynthesizedCancelled, WorkerSpeak,
         WorkerLookahead, WorkerSubmit, WorkerSubmitRaises, WorkerGateCancelled, WorkerGate,
         WorkerPlay, WorkerPlayCompletes, WorkerPlayInterrupted, WorkerPlayRaises,
         WorkerPlayedCancelled, WorkerPlayed, WorkerCollect, WorkerCollectFails,
         WorkerFinish, WorkerRetire, WorkerEnds, Finalize, uttVars, Lifecycle, Terminal
    <3>. QED BY <3>1 DEF Transition, PlaceOK, TypeOK
  <2>. QED BY <2>1, <2>2 DEF InClear
<1>2. CASE Prefetch \/ (\E t \in Threads : Request(t) \/ Serve(t)) \/ UNCHANGED vars
  <2>1. /\ state[u] \in Terminal => state'[u] = state[u]
        /\ cancelRequested[u] => cancelRequested'[u]
    BY <1>2, AsideSteps DEF Aside, Terminal
  <2>2. CASE \/ Prefetch \/ UNCHANGED vars
             \/ \E t \in Threads : (Request(t) \/ Serve(t)) /\ ~ClearTake(t) /\ ~ClearCancel(t)
                                                /\ ~ClearRecord(t)
    <3>1. UNCHANGED pending
      BY <2>2 DEF Prefetch, PrefetchStart, PrefetchEnds, OrphanEnds, Request, Speak,
         CallStop, CallClose, Serve, EnqueueRejected, EnqueueAccepted, PublishQueued,
         AwaitReturns, ClearFlag, ClearNoCurrent, ClearStop, CloseNotify, CloseJoined,
         vars, apiVars
    <3>. QED BY <2>1, <3>1 DEF InClear
  <2>3. ASSUME NEW t \in Threads, ClearTake(t), NEW s \in Threads, InClear(u, s)
        PROVE  InClear(u, s)'
    <3>1. pending[t] = <<>> /\ pending' = [pending EXCEPT ![t] = items]
      BY <2>3 DEF ClearTake, TakeAll, PlaceOK, ThreadOK
    <3>2. s # t
      BY <2>3, <3>1 DEF InClear, Range
    <3>. QED BY <2>3, <3>1, <3>2 DEF InClear, PlaceOK, TypeOK
  <2>4. ASSUME NEW t \in Threads, ClearCancel(t) PROVE UNCHANGED pending
    <3>1. pending[t] # <<>> /\ pc[t] = "cancel"
      BY <2>4 DEF ClearCancel
    <3>. QED BY <2>4, <3>1, HeadFacts DEF ClearCancel, Terminal
  <2>5. ASSUME NEW t \in Threads, ClearRecord(t), NEW s \in Threads, InClear(u, s)
        PROVE  InClear(u, s)' \/ state[u] \in Terminal
    <3>1. pc[t] = "record" /\ pending[t] # <<>> /\ pending' = [pending EXCEPT ![t] = Tail(@)]
      BY <2>5 DEF ClearRecord, PlaceOK, ThreadOK
    <3>. QED BY <2>5, <3>1, TailHands, HeadFacts DEF Terminal
  <2>. QED BY <1>2, <2>1, <2>2, <2>3, <2>4, <2>5 DEF InClear
<1>. QED BY <1>1, <1>2 DEF Next

\* How a thread gets into, through and out of clear().
LEMMA ClearingSteps ==
  ASSUME PlaceOK, [Next]_vars, NEW t \in Threads
  PROVE  /\ pc'[t] \in Clearing => pc[t] \in Clearing \cup {"clear"}
         /\ pc'[t] \in Clearing /\ pc[t] = "clear" => ClearTake(t)
         /\ pc'[t] \in Clearing /\ pc[t] \in Clearing =>
               /\ snap'[t] = snap[t]
               /\ pc'[t] = "stop" => pc[t] = "stop" \/ ClearFlag(t)
         /\ pc[t] \in Clearing /\ pc'[t] \notin Clearing =>
               ClearNoCurrent(t) \/ ClearStop(t)
<1>. USE DEF PlaceOK, TypeOK, ThreadPcs, Clearing
<1>1. CASE \/ Worker \/ Prefetch \/ UNCHANGED vars
  <2>1. UNCHANGED <<pc, snap>>
    BY <1>1 DEF Worker, WorkerWait, WorkerExit, WorkerTake, WorkerStartCancelled,
       WorkerStart, WorkerSynth, WorkerSynthFails, WorkerSynthesizedCancelled, WorkerSpeak,
       WorkerLookahead, WorkerSubmit, WorkerSubmitRaises, WorkerGateCancelled, WorkerGate,
       WorkerPlay, WorkerPlayCompletes, WorkerPlayInterrupted, WorkerPlayRaises,
       WorkerPlayedCancelled, WorkerPlayed, WorkerCollect, WorkerCollectFails,
       WorkerFinish, WorkerRetire, WorkerEnds, Prefetch, PrefetchStart, PrefetchEnds,
       OrphanEnds, vars, apiVars
  <2>. QED BY <2>1
<1>2. ASSUME NEW s \in Threads, Request(s) \/ Serve(s), s # t
      PROVE  pc'[t] = pc[t] /\ snap'[t] = snap[t]
  <2>1. /\ \E p \in ThreadPcs : pc' = [pc EXCEPT ![s] = p] \/ pc' = pc
        /\ \E c \in Utt \cup {None} : snap' = [snap EXCEPT ![s] = c] \/ snap' = snap
    BY <1>2 DEF Request, Speak, CallStop, CallClose, Serve, EnqueueRejected,
       EnqueueAccepted, PublishQueued, AwaitReturns, ClearTake, ClearCancel, ClearRecord,
       ClearFlag, ClearNoCurrent, ClearStop, AfterClear, CloseNotify, CloseJoined
  <2>. QED BY <1>2, <2>1
<1>3. CASE Request(t) \/ EnqueueRejected(t) \/ EnqueueAccepted(t) \/ AwaitReturns(t)
           \/ (\E wait \in BOOLEAN : PublishQueued(t, wait)) \/ CloseNotify(t) \/ CloseJoined(t)
  <2>1. pc[t] \notin Clearing \cup {"clear"} /\ pc'[t] \notin Clearing
    BY <1>3 DEF Request, Speak, CallStop, CallClose, EnqueueRejected,
       EnqueueAccepted, PublishQueued, AwaitReturns, CloseNotify, CloseJoined
  <2>. QED BY <2>1
<1>4. CASE ClearTake(t)
  BY <1>4 DEF ClearTake
<1>5. CASE ClearCancel(t) \/ ClearRecord(t)
  BY <1>5 DEF ClearCancel, ClearRecord
<1>6. CASE ClearFlag(t)
  BY <1>6 DEF ClearFlag
<1>7. CASE ClearNoCurrent(t) \/ ClearStop(t)
  <2>1. pc[t] \in {"cancel", "stop"} /\ pc'[t] \notin Clearing
    BY <1>7 DEF ClearNoCurrent, ClearStop, AfterClear
  <2>. QED BY <1>7, <2>1
<1>. QED BY <1>1, <1>2, <1>3, <1>4, <1>5, <1>6, <1>7 DEF Next, Serve

\* When a clear() takes the deque, every live utterance is captured, or in its
\* hands, or in those of another.
LEMMA TakeCovers ==
  ASSUME PlaceOK, NEW t \in Threads, ClearTake(t), NEW u \in Utt, Live(u)
  PROVE  u = snap'[t] \/ \E s \in Threads : InClear(u, s)'
<1>1. /\ pending' = [pending EXCEPT ![t] = items] /\ snap' = [snap EXCEPT ![t] = current]
      /\ pending[t] = <<>> /\ items \in Seq(Utt)
  BY DEF ClearTake, TakeAll, PlaceOK, TypeOK, ThreadOK
<1>2. /\ snap'[t] = current
      /\ \A s \in Threads : pending'[s] = IF s = t THEN items ELSE pending[s]
  BY <1>1 DEF PlaceOK, TypeOK
<1>3. CASE \E i \in 1..Len(items) : items[i] = u
  <2>1. u \in Range(pending'[t])
    BY <1>1, <1>2, <1>3 DEF Range
  <2>. QED BY <2>1 DEF InClear
<1>4. ASSUME NEW s \in Threads, NEW i \in 1..Len(pending[s]), pending[s][i] = u
      PROVE  InClear(u, s)'
  <2>1. s # t /\ InClear(u, s)
    BY <1>1, <1>4, InHands DEF PlaceOK
  <2>. QED BY <1>2, <2>1 DEF InClear
<1>. QED BY <1>2, <1>3, <1>4 DEF PlaceOK, NoneLost

LEMMA BacklogKeeps ==
  PlaceOK /\ PlaceOK' /\ BacklogOK /\ [ObsNext]_obsVars => BacklogOK'
<1> SUFFICES ASSUME PlaceOK, PlaceOK', BacklogOK, [ObsNext]_obsVars PROVE BacklogOK'
  OBVIOUS
<1>1. [Next]_vars
  BY DEF ObsNext, obsVars
<1>2. ASSUME NEW t \in Threads, pc'[t] \in Clearing
      PROVE  \/ pc[t] \in Clearing /\ backlog'[t] = backlog[t]
             \/ pc[t] = "clear" /\ ClearTake(t) /\ backlog'[t] = {u \in Utt : Live(u)}
  BY <1>1, <1>2, ClearingSteps DEF ObsNext, obsVars, vars, apiVars, Clearing
<1>3. backlog' \in [Threads -> SUBSET Utt]
  BY DEF BacklogOK, ObsNext, obsVars
<1>4. ASSUME NEW t \in Threads, pc'[t] \in Clearing, NEW u \in backlog'[t]
      PROVE  \/ state'[u] \in Terminal \/ cancelRequested'[u]
             \/ u = snap'[t]
             \/ \E s \in Threads : InClear(u, s)'
  <2>1. CASE pc[t] \in Clearing /\ backlog'[t] = backlog[t]
    <3>1. u \in Utt /\ u \in backlog[t]
      BY <1>4, <2>1 DEF BacklogOK
    <3>2. \/ state[u] \in Terminal \/ cancelRequested[u]
          \/ u = snap[t]
          \/ \E s \in Threads : InClear(u, s)
      BY <2>1, <3>1 DEF BacklogOK
    <3>3. snap'[t] = snap[t]
      BY <1>1, <1>4, <2>1, ClearingSteps
    <3>. QED BY <1>1, <3>1, <3>2, <3>3, NothingSlips
  <2>2. CASE ClearTake(t) /\ backlog'[t] = {v \in Utt : Live(v)}
    BY <2>2, TakeCovers
  <2>. QED BY <1>2, <1>4, <2>1, <2>2
<1>5. ASSUME NEW t \in Threads, pc'[t] = "stop" PROVE cancelRequested'[snap'[t]]
  <2>1. pc[t] \in Clearing /\ snap'[t] = snap[t] /\ (pc[t] = "stop" \/ ClearFlag(t))
    BY <1>1, <1>5, ClearingSteps DEF Clearing, ClearTake, PlaceOK, TypeOK
  <2>2. CASE ClearFlag(t)
    <3>1. snap[t] \in Utt
      BY <2>2 DEF ClearFlag, CapturedLive, PlaceOK, TypeOK
    <3>. QED BY <2>1, <2>2, <3>1 DEF ClearFlag, PlaceOK, TypeOK
  <2>3. CASE pc[t] = "stop"
    <3>1. snap[t] \in Utt /\ cancelRequested[snap[t]]
      BY <2>3 DEF BacklogOK, PlaceOK, TypeOK, ThreadOK
    <3>. QED BY <1>1, <2>1, <3>1, NothingSlips
  <2>. QED BY <2>1, <2>2, <2>3
<1>. QED BY <1>3, <1>4, <1>5 DEF BacklogOK, InClear

\* What holds when a clear() returns.
Covered ==
    \A t \in Threads :
        pc[t] \in Clearing /\ pc'[t] \notin Clearing =>
            \A u \in backlog[t] :
                \/ state[u] \in Terminal \/ cancelRequested'[u]
                \/ \E s \in Threads \ {t} : InClear(u, s)

LEMMA ReturnCovers ==
  PlaceOK /\ BacklogOK /\ [ObsNext]_obsVars => [Covered]_obsVars
<1> SUFFICES ASSUME PlaceOK, BacklogOK, [ObsNext]_obsVars,
                    NEW t \in Threads, pc[t] \in Clearing, pc'[t] \notin Clearing,
                    NEW u \in backlog[t]
             PROVE  \/ state[u] \in Terminal \/ cancelRequested'[u]
                    \/ \E s \in Threads \ {t} : InClear(u, s)
  BY DEF Covered
<1>1. [Next]_vars
  BY DEF ObsNext, obsVars
<1>2. u \in Utt
  BY DEF BacklogOK
<1>3. \/ state[u] \in Terminal \/ cancelRequested[u]
      \/ u = snap[t]
      \/ \E s \in Threads : InClear(u, s)
  BY DEF BacklogOK
<1>4. ClearNoCurrent(t) \/ ClearStop(t)
  BY <1>1, ClearingSteps
<1>5. pending[t] = <<>>
  BY <1>4 DEF ClearNoCurrent, ClearStop, PlaceOK, ThreadOK
<1>6. ~InClear(u, t)
  BY <1>5 DEF InClear, Range
<1>7. cancelRequested[u] => cancelRequested'[u]
  BY <1>1, <1>2, NothingSlips
<1>8. ASSUME u = snap[t] PROVE state[u] \in Terminal \/ cancelRequested[u]
  <2>1. CASE ClearNoCurrent(t)
    BY <1>2, <1>8, <2>1, NoneAssumption DEF ClearNoCurrent, CapturedLive
  <2>2. CASE ClearStop(t)
    BY <1>8, <2>2 DEF ClearStop, BacklogOK
  <2>. QED BY <1>4, <2>1, <2>2
<1>. QED BY <1>3, <1>6, <1>7, <1>8

\* StopCoversBacklog for any number of utterances and threads: a stop that has
\* returned has ended or flagged all that was live when it took the deque, but
\* for what another stop is about to cancel.
THEOREM StopCovers == ObsSpec => StopCoversBacklog
<1>1. ObsInit => PlaceOK /\ BacklogOK
  BY InitPlaceOK DEF ObsInit, BacklogOK, Init, Clearing
<1>2. PlaceOK /\ BacklogOK /\ [ObsNext]_obsVars => (PlaceOK /\ BacklogOK)'
  BY NextKeepsPlaceOK, BacklogKeeps DEF ObsNext, obsVars
<1>3. PlaceOK /\ BacklogOK /\ [ObsNext]_obsVars => [Covered]_obsVars
  BY ReturnCovers
<1>4. [][Covered]_obsVars => StopCoversBacklog
  BY PTL DEF Covered, StopCoversBacklog
<1>. QED BY <1>1, <1>2, <1>3, <1>4, PTL DEF ObsSpec
=============================================================================
