--------------------------- MODULE ApiRequestsProofs ---------------------------
(***************************************************************************)
(* Theorems about the requests and commands on their way, for any number   *)
(* of them, of sockets and of threads, and every size of the queue.        *)
(***************************************************************************)
EXTENDS ApiRequests, FiniteSetTheorems, SequenceTheorems, TLAPS

-----------------------------------------------------------------------------
(* The inductive invariant *)

Phases == {"new", "line", "sent", "call", "cleared", "await", "waiting", "done"}

Replies == {"none", "200", "202", "404", "422", "429", "500", "502", "503",
            "result", "error", "raised"}

QueueTypeOK ==
    /\ waiting \in Seq(Calls) /\ lane \in Calls \cup {None}
    /\ outcome \in [Calls -> {"new", "pending"} \cup Ends]

CallTypeOK ==
    /\ kind \in [Calls -> Kinds] /\ phase \in [Calls -> Phases]
    /\ line \in Seq(Requests)
    /\ reply \in [Calls -> Replies]
    /\ inbox \in [Sockets -> Seq(Commands)]
    /\ link \in [Sockets -> {"open", "gone", "ended"}]
    /\ stream \in BOOLEAN /\ server \in {"running", "draining", "closed"}
    /\ cleared \subseteq Calls

TypeOK == QueueTypeOK /\ CallTypeOK

Once(s) == \A i, j \in DOMAIN s : s[i] = s[j] => i = j

\* What waits or is spoken has no outcome yet, and is there once.
QueueOK ==
    /\ Once(waiting)
    /\ \A c \in Range(waiting) : outcome[c] = "pending"
    /\ lane # None => outcome[lane] = "pending" /\ lane \notin Range(waiting)

\* The line holds the requests that need a thread, each once.
LineOK == Once(line) /\ \A c \in Calls : c \in Range(line) <=> phase[c] \in {"line", "await"}

\* The limiter has not given away more threads than it has.
TokensOK == IsFiniteSet(Holders) /\ Cardinality(Holders) <= Tokens

\* Nothing is queued or cleared before its time.
Staged(c) ==
    /\ phase[c] \in {"new", "sent", "line", "call", "cleared"} => outcome[c] = "new"
    /\ phase[c] \in {"new", "sent", "line", "call"} => c \notin cleared
    /\ phase[c] \in {"await", "waiting"} => outcome[c] # "new"

StageOK == \A c \in Calls : Staged(c)

\* A command is worked on for a socket that has not ended.
Served(c) == \E s \in Sockets : link[s] # "ended" /\ inbox[s] # <<>> /\ c = Head(inbox[s])

SocketsOK == \A c \in Calls \ Requests : phase[c] \in {"call", "cleared"} => Served(c)

\* At the close of the service nothing is worked on any more.
ClosedOK ==
    server = "closed" =>
        /\ \A r \in Requests : phase[r] \in {"new", "done"}
        /\ \A s \in Sockets : link[s] = "ended"

FlightOK == SocketsOK /\ ClosedOK

\* AnswersHonest, of one call.
Honest(c) ==
    phase[c] = "done" /\ kind[c].op = "speak" =>
        /\ reply[c] \in {"202", "result"} => outcome[c] # "new"
        /\ reply[c] = "200" => outcome[c] \in Ends
        /\ reply[c] \in {"404", "422", "429", "503", "error"} => outcome[c] = "new"
        /\ reply[c] \in {"404", "422", "503"} => c \notin cleared
        /\ reply[c] \notin {"500", "raised"}

IInv ==
    /\ TypeOK /\ QueueOK /\ LineOK /\ TokensOK /\ StageOK /\ FlightOK
    /\ AnswersHonest

-----------------------------------------------------------------------------
(* Sequences *)

\* What is left after the head, when nothing is there twice.
LEMMA TailOnce ==
  ASSUME NEW S, NEW s \in Seq(S), s # <<>>, Once(s)
  PROVE  /\ Head(s) \in S /\ Head(s) \in Range(s) /\ Tail(s) \in Seq(S) /\ Once(Tail(s))
         /\ \A x : x \in Range(Tail(s)) <=> x \in Range(s) /\ x # Head(s)
<1>1. /\ Head(s) \in S /\ Head(s) = s[1] /\ Tail(s) \in Seq(S)
      /\ Len(s) \in Nat \ {0} /\ DOMAIN s = 1..Len(s)
      /\ DOMAIN Tail(s) = 1..Len(s) - 1
      /\ \A i \in 1..Len(s) - 1 : Tail(s)[i] = s[i + 1]
  OBVIOUS
<1>2. Once(Tail(s))
  <2>1. SUFFICES ASSUME NEW i \in 1..Len(s) - 1, NEW j \in 1..Len(s) - 1,
                        s[i + 1] = s[j + 1]
                 PROVE  i = j
    BY <1>1 DEF Once
  <2>2. i + 1 \in 1..Len(s) /\ j + 1 \in 1..Len(s)
    BY <1>1
  <2>3. i + 1 = j + 1
    BY <1>1, <2>1, <2>2 DEF Once
  <2>. QED BY <1>1, <2>3
<1>3. ASSUME NEW x, x \in Range(Tail(s)) PROVE x \in Range(s) /\ x # Head(s)
  <2>1. PICK i \in 1..Len(s) - 1 : x = s[i + 1]
    BY <1>1, <1>3 DEF Range
  <2>2. i + 1 \in 1..Len(s) /\ 1 \in 1..Len(s) /\ i + 1 # 1
    BY <1>1
  <2>3. s[i + 1] # s[1]
    BY <1>1, <2>2 DEF Once
  <2>. QED BY <1>1, <2>1, <2>2, <2>3 DEF Range
<1>4. ASSUME NEW x, x \in Range(s), x # Head(s) PROVE x \in Range(Tail(s))
  <2>1. PICK i \in 1..Len(s) : x = s[i]
    BY <1>1, <1>4 DEF Range
  <2>2. i # 1
    BY <1>1, <1>4, <2>1
  <2>3. i - 1 \in 1..Len(s) - 1 /\ (i - 1) + 1 = i
    BY <1>1, <2>2
  <2>4. Tail(s)[i - 1] = x
    BY <1>1, <2>1, <2>3
  <2>. QED BY <1>1, <2>3, <2>4 DEF Range
<1>5. Head(s) \in Range(s)
  BY <1>1 DEF Range
<1>. QED BY <1>1, <1>2, <1>3, <1>4, <1>5

\* What is appended was not there before.
LEMMA AppendOnce ==
  ASSUME NEW S, NEW s \in Seq(S), NEW e \in S, e \notin Range(s), Once(s)
  PROVE  /\ Append(s, e) \in Seq(S) /\ Once(Append(s, e))
         /\ \A x : x \in Range(Append(s, e)) <=> x \in Range(s) \/ x = e
<1>. DEFINE a == Append(s, e)
<1>1. /\ a \in Seq(S) /\ Len(s) \in Nat /\ DOMAIN s = 1..Len(s)
      /\ DOMAIN a = 1..Len(s) + 1
      /\ \A i \in 1..Len(s) : a[i] = s[i]
      /\ a[Len(s) + 1] = e
      /\ \A i \in 1..Len(s) + 1 : i \in 1..Len(s) \/ i = Len(s) + 1
      /\ 1..Len(s) \subseteq 1..Len(s) + 1 /\ Len(s) + 1 \in 1..Len(s) + 1
  OBVIOUS
<1>. HIDE DEF a
<1>2. \A i \in 1..Len(s) : s[i] # e
  BY <1>1 DEF Range
<1>3. Once(a)
  BY <1>1, <1>2 DEF Once
<1>4. \A x : x \in Range(a) <=> x \in Range(s) \/ x = e
  BY <1>1 DEF Range
<1>. QED BY <1>1, <1>3, <1>4 DEF a

-----------------------------------------------------------------------------
(* The queue *)

\* An outcome is given once, to what waits or is spoken.
Kept == \A c \in Calls : \/ outcome'[c] = outcome[c]
                         \/ outcome[c] = "pending" /\ outcome'[c] \in Ends

Clears == IF waiting = <<>> THEN UNCHANGED queueVars ELSE Queue!CancelWaiting

LEMMA ClearsKept ==
  ASSUME QueueTypeOK, QueueOK, Clears
  PROVE  QueueTypeOK' /\ QueueOK' /\ Kept
<1>. USE DEF QueueTypeOK, QueueOK
<1>1. CASE UNCHANGED queueVars
  BY <1>1 DEF queueVars, Kept, Once, Range, Ends
<1>2. CASE waiting # <<>> /\ Queue!CancelWaiting
  <2>1. /\ waiting' = <<>> /\ lane' = lane
        /\ outcome' = [u \in Calls |-> IF \E i \in 1..Len(waiting) : waiting[i] = u
                                       THEN "cancelled" ELSE outcome[u]]
    BY <1>2 DEF Queue!CancelWaiting
  <2>2. \A u : (\E i \in 1..Len(waiting) : waiting[i] = u) <=> u \in Range(waiting)
    BY DEF Range
  <2>3. \A u \in Calls : outcome'[u] = IF u \in Range(waiting) THEN "cancelled" ELSE outcome[u]
    BY <2>1, <2>2
  <2>4. "cancelled" \in Ends
    BY DEF Ends, Queue!Outcomes
  <2>5. Kept
    BY <2>3, <2>4 DEF Kept
  <2>6. outcome' \in [Calls -> {"new", "pending"} \cup Ends]
    BY <2>1, <2>4
  <2>7. waiting' \in Seq(Calls) /\ Range(waiting') = {} /\ Once(waiting')
    BY <2>1 DEF Range, Once
  <2>8. lane # None => outcome'[lane] = "pending" /\ lane \notin Range(waiting')
    BY <2>3, <2>7
  <2>. QED BY <2>1, <2>5, <2>6, <2>7, <2>8
<1>. QED BY <1>1, <1>2 DEF Clears

LEMMA WorkerKept ==
  ASSUME QueueTypeOK, QueueOK, Queue!Begin \/ Queue!End
  PROVE  QueueTypeOK' /\ QueueOK' /\ Kept
<1>. USE DEF QueueTypeOK, QueueOK
<1>1. CASE Queue!Begin
  <2>1. /\ lane = None /\ waiting # <<>> /\ lane' = Head(waiting)
        /\ waiting' = Tail(waiting) /\ outcome' = outcome
    BY <1>1 DEF Queue!Begin
  <2>2. /\ Head(waiting) \in Calls /\ Head(waiting) \in Range(waiting)
        /\ Tail(waiting) \in Seq(Calls) /\ Once(Tail(waiting))
        /\ \A x : x \in Range(Tail(waiting)) <=> x \in Range(waiting) /\ x # Head(waiting)
    BY <2>1, TailOnce
  <2>. QED BY <2>1, <2>2 DEF Kept
<1>2. CASE Queue!End
  <2>1. PICK o \in Ends : /\ lane # None /\ lane' = None /\ waiting' = waiting
                          /\ outcome' = [outcome EXCEPT ![lane] = o]
    BY <1>2 DEF Queue!End, Ends
  <2>2. \A c \in Calls : outcome'[c] = IF c = lane THEN o ELSE outcome[c]
    BY <2>1
  <2>3. \A c \in Range(waiting) : c \in Calls
    BY DEF Range
  <2>4. QueueTypeOK'
    BY <2>1
  <2>5. QueueOK'
    <3>1. \A c \in Range(waiting) : c # lane /\ outcome'[c] = "pending"
      BY <2>1, <2>2, <2>3
    <3>. QED BY <2>1, <3>1
  <2>6. Kept
    BY <2>1, <2>2 DEF Kept
  <2>. QED BY <2>4, <2>5, <2>6
<1>. QED BY <1>1, <1>2

LEMMA AcceptKept ==
  ASSUME QueueTypeOK, QueueOK, NEW c \in Calls, Queue!Accept(c)
  PROVE  /\ QueueTypeOK' /\ QueueOK' /\ outcome[c] = "new" /\ outcome'[c] = "pending"
         /\ \A d \in Calls \ {c} : outcome'[d] = outcome[d]
<1>. USE DEF QueueTypeOK, QueueOK
<1>1. /\ outcome[c] = "new" /\ waiting' = Append(waiting, c) /\ lane' = lane
      /\ outcome' = [outcome EXCEPT ![c] = "pending"]
  BY DEF Queue!Accept
<1>2. c \notin Range(waiting) /\ (lane # None => c # lane)
  BY <1>1
<1>3. /\ waiting' \in Seq(Calls) /\ Once(waiting')
      /\ \A x : x \in Range(waiting') <=> x \in Range(waiting) \/ x = c
  BY <1>1, <1>2, AppendOnce
<1>4. \A x \in Range(waiting) : x \in Calls
  BY DEF Range
<1>5. QueueTypeOK'
  BY <1>1, <1>3
<1>6. outcome'[c] = "pending" /\ \A d \in Calls \ {c} : outcome'[d] = outcome[d]
  BY <1>1
<1>7. QueueOK'
  <2>1. \A x \in Range(waiting') : outcome'[x] = "pending"
    BY <1>2, <1>3, <1>4, <1>6
  <2>2. lane' # None => outcome'[lane'] = "pending" /\ lane' \notin Range(waiting')
    BY <1>1, <1>2, <1>3, <1>6
  <2>. QED BY <1>3, <2>1, <2>2
<1>. QED BY <1>1, <1>5, <1>6, <1>7

-----------------------------------------------------------------------------
(* The steps, by what they touch *)

LEMMA EndsAreEnds == Ends = {"finished", "cancelled", "failed"}
  BY DEF Ends, Queue!Outcomes

LEMMA HonestAll == AnswersHonest <=> \A c \in Calls : Honest(c)
  BY DEF AnswersHonest, Honest

LEMMA HonestAllNext == AnswersHonest' <=> \A c \in Calls : Honest(c)'
  BY DEF AnswersHonest, Honest

\* A call of which nothing changes, but perhaps its outcome, given now.
LEMMA Rests ==
  ASSUME NEW d \in Calls, QueueTypeOK, Staged(d), Honest(d),
         outcome'[d] = outcome[d] \/ (outcome[d] = "pending" /\ outcome'[d] \in Ends),
         phase'[d] = phase[d], kind'[d] = kind[d], reply'[d] = reply[d],
         d \in cleared' <=> d \in cleared
  PROVE  Staged(d)' /\ Honest(d)'
<1>1. outcome'[d] = "new" <=> outcome[d] = "new"
  BY EndsAreEnds
<1>2. outcome[d] \in Ends => outcome'[d] \in Ends
  BY EndsAreEnds
<1>. QED BY <1>1, <1>2 DEF Staged, Honest

\* Threads may only be returned.
LEMMA FewerHolders ==
  ASSUME TokensOK, Holders' \subseteq Holders
  PROVE  TokensOK'
<1>1. IsFiniteSet(Holders') /\ Cardinality(Holders') <= Cardinality(Holders)
  BY FS_Subset DEF TokensOK
<1>2. Cardinality(Holders) \in Nat /\ Cardinality(Holders') \in Nat
  BY <1>1, FS_CardinalityType DEF TokensOK
<1>. QED BY <1>1, <1>2, TokensAssumption DEF TokensOK

\* One call goes on, and it neither enters nor leaves the line.
LEMMA OneMoves ==
  ASSUME IInv, NEW c \in Calls, NEW p \in Phases \ {"line", "await"},
         phase' = [phase EXCEPT ![c] = p], phase[c] \notin {"line", "await"},
         UNCHANGED <<line, inbox, link, server>>,
         \A d \in Calls \ {c} :
            /\ outcome'[d] = outcome[d] \/ (outcome[d] = "pending" /\ outcome'[d] \in Ends)
            /\ kind'[d] = kind[d] /\ reply'[d] = reply[d] /\ (d \in cleared' <=> d \in cleared),
         c \in Requests => p = "done" \/ c \in Holders,
         c \notin Requests /\ p \in {"call", "cleared"} => Served(c),
         c \in Requests => p = "done" \/ server # "closed",
         Staged(c)', Honest(c)'
  PROVE  LineOK' /\ TokensOK' /\ StageOK' /\ FlightOK' /\ AnswersHonest'
<1>. USE DEF IInv, TypeOK, CallTypeOK
<1>1. phase'[c] = p /\ \A d \in Calls \ {c} : phase'[d] = phase[d]
  OBVIOUS
<1>2. LineOK'
  BY <1>1 DEF LineOK
<1>3. TokensOK'
  <2>1. Holders' \subseteq Holders
    BY <1>1 DEF Holders, Calls
  <2>. QED BY <2>1, FewerHolders
<1>4. \A d \in Calls : Staged(d)' /\ Honest(d)'
  <2>1. ASSUME NEW d \in Calls \ {c} PROVE Staged(d)' /\ Honest(d)'
    <3>1. Staged(d) /\ Honest(d)
      BY HonestAll DEF StageOK
    <3>. QED BY <1>1, <3>1, Rests
  <2>. QED BY <2>1
<1>5. StageOK' /\ AnswersHonest'
  BY <1>4, HonestAllNext DEF StageOK
<1>6. SocketsOK'
  BY <1>1 DEF FlightOK, SocketsOK, Served
<1>7. ClosedOK'
  BY <1>1 DEF FlightOK, ClosedOK, Calls
<1>. QED BY <1>2, <1>3, <1>5, <1>6, <1>7 DEF FlightOK

\* Only outcomes are given.
LEMMA NoneMoves ==
  ASSUME IInv, QueueTypeOK', QueueOK', Kept, UNCHANGED callVars
  PROVE  QueueOK' /\ LineOK' /\ TokensOK' /\ StageOK' /\ AnswersHonest'
<1>. USE DEF IInv, TypeOK, callVars
<1>1. LineOK' /\ TokensOK'
  BY DEF LineOK, TokensOK, Holders
<1>2. ASSUME NEW d \in Calls PROVE Staged(d)' /\ Honest(d)'
  <2>1. Staged(d) /\ Honest(d)
    BY HonestAll DEF StageOK
  <2>2. outcome'[d] = outcome[d] \/ (outcome[d] = "pending" /\ outcome'[d] \in Ends)
    BY DEF Kept
  <2>3. /\ phase'[d] = phase[d] /\ kind'[d] = kind[d] /\ reply'[d] = reply[d]
        /\ d \in cleared' <=> d \in cleared
    OBVIOUS
  <2>. QED BY <2>1, <2>2, <2>3, Rests
<1>. QED BY <1>1, <1>2, HonestAllNext DEF StageOK

-----------------------------------------------------------------------------
(* The steps *)

LEMMA InitHolds == Init => IInv
<1>. SUFFICES ASSUME Init PROVE IInv
  OBVIOUS
<1>. USE DEF Init, Queue!Init
<1>1. QueueTypeOK /\ QueueOK
  BY DEF QueueTypeOK, QueueOK, Once, Range
<1>2. CallTypeOK
  <2>1. [op |-> "look", wait |-> FALSE, interrupt |-> FALSE] \in Kinds
    BY DEF Kinds, Asking
  <2>2. kind \in [Calls -> Kinds]
    BY <2>1
  <2>3. phase \in [Calls -> Phases] /\ reply \in [Calls -> Replies]
    BY DEF Phases, Replies
  <2>4. inbox \in [Sockets -> Seq(Commands)] /\ link \in [Sockets -> {"open", "gone", "ended"}]
    OBVIOUS
  <2>5. line \in Seq(Requests) /\ cleared \subseteq Calls
    OBVIOUS
  <2>6. stream \in BOOLEAN /\ server \in {"running", "draining", "closed"}
    OBVIOUS
  <2>. QED BY <2>2, <2>3, <2>4, <2>5, <2>6 DEF CallTypeOK
<1>3. LineOK
  BY DEF LineOK, Once, Range
<1>4. TokensOK
  <2>1. Holders = {}
    BY DEF Holders, Calls
  <2>. QED BY <2>1, FS_EmptySet, TokensAssumption DEF TokensOK
<1>5. StageOK
  BY DEF StageOK, Staged
<1>6. FlightOK
  BY DEF FlightOK, SocketsOK, ClosedOK
<1>7. AnswersHonest
  BY DEF AnswersHonest
<1>. QED BY <1>1, <1>2, <1>3, <1>4, <1>5, <1>6, <1>7 DEF IInv, TypeOK

\* Every refusal has an answer of its class.
LEMMA Answers ==
  ASSUME NEW c \in Calls, NEW exc
  PROVE  /\ Answer(c, exc) \in Replies \ {"none", "200", "202", "result"}
         /\ exc \in {"ValueError", "UnknownProviderError", "ProviderUnavailableError"} =>
               Answer(c, exc) \in {"404", "422", "503", "error"}
         /\ exc = "QueueFullError" => Answer(c, exc) \in {"429", "error"}
<1>1. StatusCode(exc) \in {"404", "422", "429", "500", "502", "503"}
  BY DEF StatusCode
<1>2. /\ exc = "ValueError" => StatusCode(exc) = "422"
      /\ exc = "UnknownProviderError" => StatusCode(exc) = "404"
      /\ exc = "ProviderUnavailableError" => StatusCode(exc) = "503"
      /\ exc = "QueueFullError" => StatusCode(exc) = "429"
  BY DEF StatusCode
<1>. QED BY <1>1, <1>2 DEF Answer, Replies, GatewayErrors

LEMMA FreshIsNew == ASSUME NEW S, NEW c \in Fresh(S) PROVE c \in S /\ phase[c] = "new"
<1>. DEFINE new == {d \in S : phase[d] = "new"}
<1>1. new # {} /\ c = CHOOSE d \in new : TRUE
  BY DEF Fresh
<1>. HIDE DEF new
<1>2. c \in new
  BY <1>1
<1>. QED BY <1>2 DEF new

LEMMA ArriveStep ==
  ASSUME IInv, NEW r \in Requests, NEW k \in HttpKinds, Arrive(r, k)
  PROVE  IInv'
<1>. USE DEF IInv, TypeOK, CallTypeOK
<1>1. /\ server = "running" /\ phase[r] = "new" /\ k \in Kinds /\ r \in Calls
      /\ kind' = [kind EXCEPT ![r] = k]
      /\ UNCHANGED <<queueVars, cleared, socketVars, stream, server>>
  BY FreshIsNew, KindsAssumption DEF Arrive, Calls
<1>2. QueueTypeOK' /\ QueueOK'
  BY <1>1 DEF QueueTypeOK, QueueOK, queueVars, Once
<1>3. Staged(r) /\ r \notin Holders
  BY <1>1 DEF StageOK, Holders
<1>4. CASE k.op = "look"
  <2>1. /\ phase' = [phase EXCEPT ![r] = "done"] /\ reply' = [reply EXCEPT ![r] = "200"]
        /\ UNCHANGED line
    BY <1>4 DEF Arrive, Done
  <2>2. CallTypeOK'
    BY <1>1, <2>1 DEF Phases, Replies, socketVars
  <2>3. Staged(r)' /\ Honest(r)'
    BY <1>1, <1>4, <2>1 DEF Staged, Honest
  <2>4. LineOK' /\ TokensOK' /\ StageOK' /\ FlightOK' /\ AnswersHonest'
    BY <1>1, <2>1, <2>3, OneMoves DEF queueVars, socketVars, Phases
  <2>. QED BY <1>2, <2>2, <2>4
<1>5. CASE k.op # "look"
  <2>1. /\ phase' = [phase EXCEPT ![r] = "line"] /\ line' = Append(line, r)
        /\ UNCHANGED reply
    BY <1>5 DEF Arrive
  <2>2. r \notin Range(line)
    BY <1>1 DEF LineOK
  <2>3. /\ line' \in Seq(Requests) /\ Once(line')
        /\ \A x : x \in Range(line') <=> x \in Range(line) \/ x = r
    BY <2>1, <2>2, AppendOnce DEF LineOK
  <2>4. CallTypeOK'
    BY <1>1, <2>1, <2>3 DEF Phases, socketVars
  <2>5. LineOK'
    BY <1>1, <2>1, <2>3 DEF LineOK
  <2>6. TokensOK'
    <3>1. Holders' \subseteq Holders
      BY <2>1 DEF Holders, Calls
    <3>. QED BY <3>1, FewerHolders
  <2>7. ASSUME NEW d \in Calls PROVE Staged(d)' /\ Honest(d)'
    <3>1. CASE d = r
      BY <1>1, <1>3, <2>1, <3>1 DEF Staged, Honest, queueVars
    <3>2. CASE d # r
      BY <1>1, <2>1, <3>2, HonestAll, Rests DEF StageOK, queueVars
    <3>. QED BY <3>1, <3>2
  <2>8. FlightOK'
    BY <1>1, <2>1 DEF FlightOK, SocketsOK, ClosedOK, Served, socketVars, Calls
  <2>. QED BY <1>2, <2>4, <2>5, <2>6, <2>7, <2>8, HonestAllNext DEF StageOK
<1>. QED BY <1>4, <1>5

LEMMA GrantStep == ASSUME IInv, Grant PROVE IInv'
<1>. USE DEF IInv, TypeOK, CallTypeOK
<1>. DEFINE r == Head(line)
<1>1. /\ line # <<>> /\ Cardinality(Holders) < Tokens /\ line' = Tail(line)
      /\ phase' = [phase EXCEPT ![r] = IF phase[r] = "line" THEN "call" ELSE "waiting"]
      /\ UNCHANGED <<queueVars, kind, reply, cleared, socketVars, stream, server>>
  BY DEF Grant
<1>2. /\ r \in Requests /\ r \in Range(line) /\ Tail(line) \in Seq(Requests)
      /\ Once(Tail(line))
      /\ \A x : x \in Range(Tail(line)) <=> x \in Range(line) /\ x # r
  BY <1>1, TailOnce DEF LineOK
<1>. HIDE DEF r
<1>3. r \in Calls /\ phase[r] \in {"line", "await"}
  BY <1>2 DEF LineOK, Calls
<1>4. phase'[r] \in {"call", "waiting"} /\ \A d \in Calls \ {r} : phase'[d] = phase[d]
  BY <1>1, <1>3
<1>5. QueueTypeOK' /\ QueueOK'
  BY <1>1 DEF QueueTypeOK, QueueOK, queueVars, Once
<1>6. CallTypeOK'
  BY <1>1, <1>2, <1>3 DEF Phases, socketVars
<1>7. LineOK'
  BY <1>1, <1>2, <1>4 DEF LineOK
<1>8. TokensOK'
  <2>1. Holders' = Holders \cup {r} /\ r \notin Holders
    BY <1>2, <1>3, <1>4 DEF Holders, Calls
  <2>2. IsFiniteSet(Holders') /\ Cardinality(Holders') = Cardinality(Holders) + 1
    BY <2>1, FS_AddElement DEF TokensOK
  <2>3. Cardinality(Holders) \in Nat
    BY FS_CardinalityType DEF TokensOK
  <2>. QED BY <1>1, <2>2, <2>3, TokensAssumption DEF TokensOK
<1>9. ASSUME NEW d \in Calls PROVE Staged(d)' /\ Honest(d)'
  <2>1. Staged(d) /\ Honest(d)
    BY HonestAll DEF StageOK
  <2>2. CASE d = r
    <3>1. phase[r] = "line" => phase'[r] = "call"
      BY <1>1, <1>3
    <3>2. phase[r] = "await" => phase'[r] = "waiting"
      BY <1>1, <1>3
    <3>. QED BY <1>1, <1>3, <2>1, <2>2, <3>1, <3>2 DEF Staged, Honest, queueVars
  <2>3. CASE d # r
    BY <1>1, <1>4, <2>1, <2>3, Rests DEF queueVars
  <2>. QED BY <2>2, <2>3
<1>10. FlightOK'
  <2>1. server # "closed"
    BY <1>2, <1>3 DEF FlightOK, ClosedOK
  <2>. QED BY <1>1, <1>2, <1>4, <2>1 DEF FlightOK, SocketsOK, ClosedOK, Served, socketVars
<1>. QED BY <1>5, <1>6, <1>7, <1>8, <1>9, <1>10, HonestAllNext DEF StageOK

\* A call is answered, and nothing else happens.
LEMMA FinishStep ==
  ASSUME IInv, NEW c \in Calls, NEW status \in Replies, Done(c, status),
         phase[c] \notin {"line", "await"},
         UNCHANGED <<queueVars, line, cleared>>, Quiet, Honest(c)'
  PROVE  IInv'
<1>. USE DEF IInv, TypeOK, CallTypeOK, Done, Quiet, socketVars
<1>1. QueueTypeOK' /\ QueueOK'
  BY DEF QueueTypeOK, QueueOK, queueVars, Once
<1>2. CallTypeOK'
  BY DEF Phases
<1>3. Staged(c)'
  BY DEF Staged
<1>4. LineOK' /\ TokensOK' /\ StageOK' /\ FlightOK' /\ AnswersHonest'
  BY <1>3, OneMoves DEF queueVars, Phases
<1>. QED BY <1>1, <1>2, <1>4

LEMMA RefuseStep == ASSUME IInv, NEW c \in Calls, Refuse(c) PROVE IInv'
<1>1. PICK exc \in Refusals :
         /\ kind[c].op = "speak" =>
               exc \in {"ValueError", "UnknownProviderError", "ProviderUnavailableError"}
         /\ Done(c, Answer(c, exc))
  BY DEF Refuse
<1>2. /\ phase[c] = "call" /\ UNCHANGED <<queueVars, line, cleared>> /\ Quiet
      /\ outcome[c] = "new" /\ c \notin cleared
  BY DEF Refuse, IInv, StageOK, Staged
<1>3. /\ Answer(c, exc) \in Replies \ {"none", "200", "202", "result"}
      /\ exc \in {"ValueError", "UnknownProviderError", "ProviderUnavailableError"} =>
             Answer(c, exc) \in {"404", "422", "503", "error"}
  BY Answers
<1>4. reply'[c] = Answer(c, exc)
  BY <1>1 DEF Done, IInv, TypeOK, CallTypeOK
<1>5. Honest(c)'
  BY <1>1, <1>2, <1>3, <1>4 DEF Honest, Quiet, queueVars
<1>. QED BY <1>1, <1>2, <1>3, <1>5, FinishStep

LEMMA ReadStep == ASSUME IInv, NEW c \in Calls, Read(c) PROVE IInv'
<1>1. /\ phase[c] = "call" /\ kind[c].op = "read" /\ Done(c, "200")
      /\ UNCHANGED <<queueVars, line, cleared>> /\ Quiet
  BY DEF Read
<1>2. Honest(c)' /\ "200" \in Replies
  BY <1>1 DEF Honest, Quiet, Replies
<1>. QED BY <1>1, <1>2, FinishStep

LEMMA AwaitReturnsStep == ASSUME IInv, NEW c \in Calls, AwaitReturns(c) PROVE IInv'
<1>1. /\ phase[c] = "waiting" /\ outcome[c] \in Ends /\ Done(c, "200")
      /\ UNCHANGED <<queueVars, line, cleared>> /\ Quiet
  BY DEF AwaitReturns
<1>2. reply'[c] = "200" /\ "200" \in Replies /\ outcome'[c] = outcome[c]
  BY <1>1 DEF Done, Replies, IInv, TypeOK, CallTypeOK, queueVars
<1>3. Honest(c)'
  BY <1>1, <1>2, EndsAreEnds DEF Honest
<1>. QED BY <1>1, <1>2, <1>3, FinishStep

LEMMA ClearStep == ASSUME IInv, NEW c \in Calls, Clear(c) PROVE IInv'
<1>. USE DEF IInv, TypeOK, CallTypeOK, Quiet, socketVars
<1>1. /\ phase[c] = "call" /\ Clears /\ cleared' = cleared \cup {c} /\ UNCHANGED line /\ Quiet
      /\ IF kind[c].op = "stop"
         THEN Done(c, IF c \in Requests THEN "200" ELSE "result")
         ELSE phase' = [phase EXCEPT ![c] = "cleared"] /\ UNCHANGED reply
  BY DEF Clear, Clears
<1>2. QueueTypeOK' /\ QueueOK' /\ Kept
  BY <1>1, ClearsKept
<1>3. \A d \in Calls \ {c} :
         /\ outcome'[d] = outcome[d] \/ (outcome[d] = "pending" /\ outcome'[d] \in Ends)
         /\ kind'[d] = kind[d] /\ reply'[d] = reply[d] /\ (d \in cleared' <=> d \in cleared)
  BY <1>1, <1>2 DEF Kept, Done
<1>4. outcome[c] = "new" /\ outcome'[c] = "new"
  BY <1>1, <1>2 DEF Kept, StageOK, Staged
<1>5. CASE kind[c].op = "stop"
  <2>1. PICK status \in Replies : Done(c, status)
    BY <1>1, <1>5 DEF Replies
  <2>2. phase' = [phase EXCEPT ![c] = "done"] /\ CallTypeOK'
    BY <1>1, <2>1 DEF Done, Phases
  <2>3. Staged(c)' /\ Honest(c)'
    BY <1>1, <1>5, <2>2 DEF Staged, Honest
  <2>4. LineOK' /\ TokensOK' /\ StageOK' /\ FlightOK' /\ AnswersHonest'
    BY <1>1, <1>3, <2>2, <2>3, OneMoves DEF Phases
  <2>. QED BY <1>2, <2>2, <2>4
<1>6. CASE kind[c].op # "stop"
  <2>1. phase' = [phase EXCEPT ![c] = "cleared"] /\ UNCHANGED reply
    BY <1>1, <1>6
  <2>2. CallTypeOK'
    BY <1>1, <2>1 DEF Phases
  <2>3. Staged(c)' /\ Honest(c)'
    BY <1>4, <2>1 DEF Staged, Honest
  <2>4. c \in Requests => c \in Holders /\ server # "closed"
    BY <1>1 DEF Holders, FlightOK, ClosedOK
  <2>5. c \notin Requests => Served(c)
    BY <1>1 DEF FlightOK, SocketsOK
  <2>6. LineOK' /\ TokensOK' /\ StageOK' /\ FlightOK' /\ AnswersHonest'
    BY <1>1, <1>3, <2>1, <2>3, <2>4, <2>5, OneMoves DEF Phases
  <2>. QED BY <1>2, <2>2, <2>6
<1>. QED BY <1>5, <1>6

\* A call in the hands of the service keeps the server from closing.
LEMMA ServesThenRuns ==
  ASSUME IInv, NEW c \in Calls, phase[c] \in {"call", "cleared"}
  PROVE  server # "closed"
  BY DEF IInv, FlightOK, SocketsOK, ClosedOK, Served

LEMMA EnqueueStep == ASSUME IInv, NEW c \in Calls, Enqueue(c) PROVE IInv'
<1>. USE DEF IInv, TypeOK, CallTypeOK, Quiet, socketVars
<1>1. /\ phase[c] \in {"call", "cleared"} /\ kind[c].op = "speak"
      /\ UNCHANGED cleared /\ Quiet /\ server # "closed" /\ outcome[c] = "new"
  BY ServesThenRuns DEF Enqueue, StageOK, Staged
<1>2. CASE Len(waiting) >= MaxSize
  <2>1. /\ Done(c, Answer(c, "QueueFullError")) /\ UNCHANGED <<queueVars, line>>
    BY <1>1, <1>2 DEF Enqueue
  <2>2. Answer(c, "QueueFullError") \in Replies /\ Answer(c, "QueueFullError") \in {"429", "error"}
    BY Answers
  <2>3. reply'[c] = Answer(c, "QueueFullError")
    BY <2>1 DEF Done
  <2>4. Honest(c)'
    BY <1>1, <2>1, <2>2, <2>3 DEF Honest, queueVars
  <2>. QED BY <1>1, <2>1, <2>2, <2>4, FinishStep
<1>3. CASE ~(Len(waiting) >= MaxSize)
  <2>1. /\ Queue!Accept(c)
        /\ IF Waits(c)
           THEN phase' = [phase EXCEPT ![c] = "await"] /\ line' = Append(line, c) /\ UNCHANGED reply
           ELSE Done(c, IF c \in Requests THEN "202" ELSE "result") /\ UNCHANGED line
    BY <1>1, <1>3 DEF Enqueue
  <2>2. /\ QueueTypeOK' /\ QueueOK' /\ outcome'[c] = "pending"
        /\ \A d \in Calls \ {c} : outcome'[d] = outcome[d]
    BY <2>1, AcceptKept
  <2>3. CASE Waits(c)
    <3>1. /\ phase' = [phase EXCEPT ![c] = "await"] /\ line' = Append(line, c)
          /\ UNCHANGED reply /\ c \in Requests
      BY <2>1, <2>3 DEF Waits
    <3>2. c \notin Range(line)
      BY <1>1 DEF LineOK
    <3>3. /\ line' \in Seq(Requests) /\ Once(line')
          /\ \A x : x \in Range(line') <=> x \in Range(line) \/ x = c
      BY <3>1, <3>2, AppendOnce DEF LineOK
    <3>4. CallTypeOK'
      BY <1>1, <3>1, <3>3 DEF Phases
    <3>5. LineOK'
      BY <3>1, <3>3 DEF LineOK
    <3>6. Holders' \subseteq Holders
      BY <3>1 DEF Holders, Calls
    <3>7. ASSUME NEW d \in Calls PROVE Staged(d)' /\ Honest(d)'
      <4>1. Staged(d) /\ Honest(d)
        BY HonestAll DEF StageOK
      <4>2. CASE d = c
        BY <2>2, <3>1, <4>2 DEF Staged, Honest
      <4>3. CASE d # c
        BY <1>1, <2>2, <3>1, <4>1, <4>3, Rests
      <4>. QED BY <4>2, <4>3
    <3>8. FlightOK'
      BY <1>1, <3>1 DEF FlightOK, SocketsOK, ClosedOK, Served
    <3>. QED BY <2>2, <3>4, <3>5, <3>6, <3>7, <3>8, FewerHolders, HonestAllNext DEF StageOK
  <2>4. CASE ~Waits(c)
    <3>1. PICK status \in {"202", "result"} : Done(c, status)
      BY <2>1, <2>4
    <3>2. /\ phase' = [phase EXCEPT ![c] = "done"] /\ reply' = [reply EXCEPT ![c] = status]
          /\ UNCHANGED line
      BY <2>1, <2>4, <3>1 DEF Done
    <3>3. CallTypeOK'
      BY <1>1, <3>2 DEF Phases, Replies
    <3>4. Staged(c)' /\ Honest(c)'
      BY <2>2, <3>2, EndsAreEnds DEF Staged, Honest
    <3>5. LineOK' /\ TokensOK' /\ StageOK' /\ FlightOK' /\ AnswersHonest'
      BY <1>1, <2>2, <3>2, <3>4, OneMoves DEF Phases
    <3>. QED BY <2>2, <3>3, <3>5
  <2>. QED BY <2>3, <2>4
<1>. QED BY <1>2, <1>3

LEMMA SendStep ==
  ASSUME IInv, NEW s \in Sockets, NEW c \in Commands, NEW k \in SocketKinds, Send(s, c, k)
  PROVE  IInv'
<1>. USE DEF IInv, TypeOK, CallTypeOK
<1>1. /\ link[s] = "open" /\ phase[c] = "new" /\ c \in Calls /\ k \in Kinds
      /\ kind' = [kind EXCEPT ![c] = k]
      /\ phase' = [phase EXCEPT ![c] = "sent"]
      /\ inbox' = [inbox EXCEPT ![s] = Append(inbox[s], c)]
      /\ UNCHANGED <<queueVars, line, reply, cleared, link, stream, server>>
  BY FreshIsNew, KindsAssumption DEF Send, Calls
<1>2. QueueTypeOK' /\ QueueOK'
  BY <1>1 DEF QueueTypeOK, QueueOK, queueVars, Once
<1>3. CallTypeOK'
  <2>1. inbox' \in [Sockets -> Seq(Commands)]
    BY <1>1
  <2>. QED BY <1>1, <2>1 DEF Phases
<1>4. LineOK'
  BY <1>1 DEF LineOK
<1>5. TokensOK'
  <2>1. Holders' \subseteq Holders
    BY <1>1 DEF Holders, Calls
  <2>. QED BY <2>1, FewerHolders
<1>6. ASSUME NEW d \in Calls PROVE Staged(d)' /\ Honest(d)'
  <2>1. Staged(d) /\ Honest(d)
    BY HonestAll DEF StageOK
  <2>2. CASE d = c
    BY <1>1, <2>1, <2>2 DEF Staged, Honest, queueVars
  <2>3. CASE d # c
    BY <1>1, <2>1, <2>3, Rests DEF queueVars
  <2>. QED BY <2>2, <2>3
<1>7. SocketsOK'
  <2>1. SUFFICES ASSUME NEW d \in Calls \ Requests, phase'[d] \in {"call", "cleared"}
                 PROVE  Served(d)'
    BY DEF SocketsOK
  <2>2. phase[d] \in {"call", "cleared"}
    BY <1>1, <2>1
  <2>3. PICK z \in Sockets : link[z] # "ended" /\ inbox[z] # <<>> /\ d = Head(inbox[z])
    BY <2>1, <2>2 DEF FlightOK, SocketsOK, Served
  <2>4. inbox'[z] # <<>> /\ d = Head(inbox'[z])
    <3>1. CASE z = s
      <4>1. inbox[s] \in Seq(Commands) /\ inbox[s] # <<>> /\ inbox'[s] = Append(inbox[s], c)
        BY <1>1, <2>3, <3>1
      <4>2. Append(inbox[s], c) # <<>> /\ Head(Append(inbox[s], c)) = Head(inbox[s])
        BY <4>1
      <4>. QED BY <2>3, <3>1, <4>1, <4>2
    <3>2. CASE z # s
      BY <1>1, <2>3, <3>2
    <3>. QED BY <3>1, <3>2
  <2>. QED BY <1>1, <2>3, <2>4 DEF Served
<1>8. ClosedOK'
  <2>1. server # "closed"
    BY <1>1 DEF FlightOK, ClosedOK
  <2>. QED BY <1>1, <2>1 DEF ClosedOK
<1>. QED BY <1>2, <1>3, <1>4, <1>5, <1>6, <1>7, <1>8, HonestAllNext DEF StageOK, FlightOK

LEMMA ReceiveStep == ASSUME IInv, NEW s \in Sockets, Receive(s) PROVE IInv'
<1>. USE DEF IInv, TypeOK, CallTypeOK
<1>. PICK c : c = Head(inbox[s])
  OBVIOUS
<1>1. /\ link[s] # "ended" /\ inbox[s] # <<>> /\ phase[c] = "sent"
      /\ IF kind[c].op = "look" THEN Done(c, "result")
         ELSE phase' = [phase EXCEPT ![c] = "call"] /\ UNCHANGED reply
      /\ UNCHANGED <<queueVars, kind, line, cleared, socketVars, stream, server>>
  BY DEF Receive
<1>2. c \in Commands
  <2>1. inbox[s] \in Seq(Commands)
    OBVIOUS
  <2>. QED BY <1>1, <2>1
<1>3. c \in Calls \ Requests /\ Served(c)
  BY <1>1, <1>2, CallsAssumption DEF Calls, Served
<1>4. CASE kind[c].op = "look"
  <2>1. Done(c, "result") /\ "result" \in Replies
    BY <1>1, <1>4 DEF Replies
  <2>2. Honest(c)'
    BY <1>1, <1>4 DEF Honest
  <2>. QED BY <1>1, <1>3, <2>1, <2>2, FinishStep DEF Quiet
<1>5. CASE kind[c].op # "look"
  <2>1. phase' = [phase EXCEPT ![c] = "call"] /\ UNCHANGED reply
    BY <1>1, <1>5
  <2>2. QueueTypeOK' /\ QueueOK'
    BY <1>1 DEF QueueTypeOK, QueueOK, queueVars, Once
  <2>3. CallTypeOK'
    BY <1>1, <2>1 DEF Phases, socketVars
  <2>4. Staged(c)' /\ Honest(c)'
    BY <1>1, <1>3, <2>1 DEF StageOK, Staged, Honest, queueVars
  <2>5. LineOK' /\ TokensOK' /\ StageOK' /\ FlightOK' /\ AnswersHonest'
    BY <1>1, <1>3, <2>1, <2>4, OneMoves DEF Phases, queueVars, socketVars
  <2>. QED BY <2>2, <2>3, <2>5
<1>. QED BY <1>4, <1>5

\* What leaves the calls and the queue alone.
LEMMA LinksStep ==
  ASSUME IInv, UNCHANGED <<queueVars, callVars>>,
         CallTypeOK', FlightOK'
  PROVE  IInv'
<1>. USE DEF IInv, TypeOK
<1>1. QueueTypeOK' /\ QueueOK' /\ Kept
  BY DEF QueueTypeOK, QueueOK, queueVars, Once, Kept
<1>. QED BY <1>1, NoneMoves

LEMMA DeliverStep == ASSUME IInv, NEW s \in Sockets, Deliver(s) PROVE IInv'
<1>. USE DEF IInv, TypeOK, CallTypeOK
<1>1. /\ link[s] # "ended" /\ inbox[s] # <<>> /\ phase[Head(inbox[s])] = "done"
      /\ UNCHANGED <<queueVars, callVars, stream, server>>
      /\ \/ inbox' = [inbox EXCEPT ![s] = Tail(inbox[s])] /\ UNCHANGED link
         \/ link' = [link EXCEPT ![s] = "ended"] /\ UNCHANGED inbox
  BY DEF Deliver
<1>2. inbox[s] \in Seq(Commands)
  OBVIOUS
<1>3. CallTypeOK'
  <2>1. Tail(inbox[s]) \in Seq(Commands)
    BY <1>1, <1>2
  <2>. QED BY <1>1, <2>1 DEF callVars
<1>4. SocketsOK'
  <2>1. SUFFICES ASSUME NEW d \in Calls \ Requests, phase[d] \in {"call", "cleared"}
                 PROVE  Served(d)'
    BY <1>1 DEF SocketsOK, callVars
  <2>2. PICK z \in Sockets : link[z] # "ended" /\ inbox[z] # <<>> /\ d = Head(inbox[z])
    BY <2>1 DEF FlightOK, SocketsOK, Served
  <2>3. z # s
    BY <1>1, <2>1, <2>2
  <2>4. link'[z] = link[z] /\ inbox'[z] = inbox[z]
    BY <1>1, <2>3
  <2>. QED BY <2>2, <2>4 DEF Served
<1>5. ClosedOK'
  <2>1. server # "closed"
    BY <1>1 DEF FlightOK, ClosedOK
  <2>. QED BY <1>1, <2>1 DEF ClosedOK
<1>. QED BY <1>1, <1>3, <1>4, <1>5, LinksStep DEF FlightOK

LEMMA LeaveStep ==
  ASSUME IInv, NEW s \in Sockets, HangUp(s) \/ SocketEnds(s)
  PROVE  IInv'
<1>. USE DEF IInv, TypeOK, CallTypeOK
<1>1. /\ link[s] # "ended" /\ UNCHANGED <<queueVars, callVars, inbox, stream, server>>
      /\ \/ link' = [link EXCEPT ![s] = "gone"]
         \/ inbox[s] = <<>> /\ link' = [link EXCEPT ![s] = "ended"]
  BY DEF HangUp, SocketEnds
<1>2. CallTypeOK'
  BY <1>1 DEF callVars
<1>3. SocketsOK'
  <2>1. SUFFICES ASSUME NEW d \in Calls \ Requests, phase[d] \in {"call", "cleared"}
                 PROVE  Served(d)'
    BY <1>1 DEF SocketsOK, callVars
  <2>2. PICK z \in Sockets : link[z] # "ended" /\ inbox[z] # <<>> /\ d = Head(inbox[z])
    BY <2>1 DEF FlightOK, SocketsOK, Served
  <2>3. link'[z] # "ended" /\ inbox'[z] = inbox[z]
    BY <1>1, <2>2
  <2>. QED BY <2>2, <2>3 DEF Served
<1>4. ClosedOK'
  <2>1. server # "closed"
    BY <1>1 DEF FlightOK, ClosedOK
  <2>. QED BY <1>1, <2>1 DEF ClosedOK
<1>. QED BY <1>1, <1>2, <1>3, <1>4, LinksStep DEF FlightOK

LEMMA WorkerStep == ASSUME IInv, WorkerBegins \/ WorkerEnds PROVE IInv'
<1>. USE DEF IInv, TypeOK
<1>1. /\ Queue!Begin \/ Queue!End
      /\ UNCHANGED <<callVars, socketVars, stream, server>>
  BY DEF WorkerBegins, WorkerEnds
<1>2. QueueTypeOK' /\ QueueOK' /\ Kept
  BY <1>1, WorkerKept
<1>3. CallTypeOK' /\ FlightOK'
  BY <1>1 DEF CallTypeOK, FlightOK, SocketsOK, ClosedOK, Served, callVars, socketVars
<1>. QED BY <1>1, <1>2, <1>3, NoneMoves

LEMMA StreamStep == ASSUME IInv, StreamOpens \/ StreamLeaves PROVE IInv'
<1>1. UNCHANGED <<queueVars, callVars, socketVars, server>> /\ stream' \in BOOLEAN
  BY DEF StreamOpens, StreamLeaves
<1>2. CallTypeOK' /\ FlightOK'
  BY <1>1 DEF IInv, TypeOK, CallTypeOK, FlightOK, SocketsOK, ClosedOK, Served, callVars, socketVars
<1>. QED BY <1>1, <1>2, LinksStep

LEMMA DrainStep == ASSUME IInv, Drain PROVE IInv'
<1>. USE DEF IInv, TypeOK, CallTypeOK
<1>1. /\ server = "running" /\ server' = "draining"
      /\ UNCHANGED <<queueVars, callVars, inbox, stream>>
      /\ link' = [s \in Sockets |-> IF link[s] = "open" THEN "gone" ELSE link[s]]
  BY DEF Drain
<1>2. CallTypeOK'
  BY <1>1 DEF callVars
<1>3. FlightOK'
  BY <1>1 DEF FlightOK, SocketsOK, ClosedOK, Served, callVars
<1>. QED BY <1>1, <1>2, <1>3, LinksStep

LEMMA CloseServiceStep == ASSUME IInv, CloseService PROVE IInv'
<1>. USE DEF IInv, TypeOK, CallTypeOK
<1>1. /\ \A r \in Requests : phase[r] \in {"new", "done"}
      /\ \A s \in Sockets : link[s] = "ended"
      /\ server' = "closed" /\ Clears
      /\ UNCHANGED <<callVars, socketVars, stream>>
  BY DEF CloseService, Clears
<1>2. QueueTypeOK' /\ QueueOK' /\ Kept
  BY <1>1, ClearsKept
<1>3. CallTypeOK'
  BY <1>1 DEF callVars, socketVars
<1>4. FlightOK'
  BY <1>1 DEF FlightOK, SocketsOK, ClosedOK, Served, callVars, socketVars
<1>. QED BY <1>1, <1>2, <1>3, <1>4, NoneMoves

-----------------------------------------------------------------------------
(* The theorems *)

LEMMA Inductive == ASSUME IInv, [Next]_vars PROVE IInv'
<1>1. ASSUME NEW r \in Requests, NEW k \in HttpKinds, Arrive(r, k) PROVE IInv'
  BY <1>1, ArriveStep
<1>2. CASE Grant
  BY <1>2, GrantStep
<1>3. ASSUME NEW c \in Calls, Work(c) PROVE IInv'
  BY <1>3, RefuseStep, ReadStep, ClearStep, EnqueueStep, AwaitReturnsStep DEF Work
<1>4. ASSUME NEW s \in Sockets, NEW c \in Commands, NEW k \in SocketKinds, Send(s, c, k)
      PROVE  IInv'
  BY <1>4, SendStep
<1>5. ASSUME NEW s \in Sockets, Receive(s) \/ Deliver(s) \/ HangUp(s) \/ SocketEnds(s)
      PROVE  IInv'
  BY <1>5, ReceiveStep, DeliverStep, LeaveStep
<1>6. CASE WorkerBegins \/ WorkerEnds
  BY <1>6, WorkerStep
<1>7. CASE StreamOpens \/ StreamLeaves
  BY <1>7, StreamStep
<1>8. CASE Drain \/ CloseService
  BY <1>8, DrainStep, CloseServiceStep
<1>9. CASE UNCHANGED vars
  BY <1>9, LinksStep DEF vars, IInv, TypeOK, CallTypeOK, FlightOK, SocketsOK, ClosedOK, Served,
                         callVars, socketVars
<1>. QED BY <1>1, <1>2, <1>3, <1>4, <1>5, <1>6, <1>7, <1>8, <1>9 DEF Next

\* The invariant of the requests: the limiter never gives away more threads than
\* it has, a request that needs one is in its line once, what is worked on for a
\* socket keeps that socket alive, nobody is in service code when the service
\* closes, and what is not yet accepted is nowhere in the queue (api/app.py,
\* api/http.py, api/ws.py).
THEOREM Invariance == Spec => []IInv
<1>1. Init => IInv
  BY InitHolds
<1>2. IInv /\ [Next]_vars => IInv'
  BY Inductive
<1>. QED BY <1>1, <1>2, PTL DEF Spec

\* What a client is told is so: an accepted utterance is queued, one it waited for
\* has ended, a refused one is nowhere and (but for a full queue) silenced nobody,
\* and nobody is refused because the server closes (api/http.py, api/ws.py).
THEOREM AnswersHonestHolds == Spec => []AnswersHonest
<1>1. IInv => AnswersHonest
  BY DEF IInv
<1>. QED BY <1>1, Invariance, PTL
=============================================================================
