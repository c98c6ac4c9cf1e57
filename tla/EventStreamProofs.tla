--------------------------- MODULE EventStreamProofs ---------------------------
(***************************************************************************)
(* Theorems about the way of an event from the thread that publishes it to *)
(* the client, for any number of threads, clients and events and every     *)
(* size of the clients' queues.                                            *)
(***************************************************************************)
EXTENDS EventStream, SequenceTheorems, TLAPS

-----------------------------------------------------------------------------
(* The inductive invariant *)

GhostsOK ==
    /\ offered \in [Clients -> Seq(1..MaxEvents)]
    /\ taken \in [Clients -> Seq(1..MaxEvents)]
    /\ Len(author) = count

\* The bus knows a connection once, from its subscription to its end, and a client
\* knows of its connection only when it is subscribed.
HandlersOK ==
    /\ \A i, j \in DOMAIN handlers : handlers[i] = handlers[j] => i = j
    /\ \A c \in Clients :
          /\ c \in Range(handlers) <=> conn[c] \in {"created", "open", "abandoned"}
          /\ conn[c] \in {"none", "accepted", "created"} => since[c] = None

\* The event a thread delivers is the last it has published, and it calls no
\* handler twice.
PublishersOK ==
    \A p \in Publishers :
        /\ event[p] = 0 => left[p] = <<>>
        /\ event[p] <= count
        /\ \A i, j \in DOMAIN left[p] : left[p][i] = left[p][j] => i = j
        /\ event[p] # 0 =>
              /\ author[event[p]] = p
              /\ \A e \in 1..count : author[e] = p => e <= event[p]

\* A queue holds the latest of what was offered, and what was taken came before.
QueueOK(given, queue, read) ==
    LET n == Len(given)  q == Len(queue)
    IN  /\ q <= n
        /\ \A i \in 1..q : queue[i] = given[n - q + i]
        /\ q < Buffer /\ n > q => read # <<>> /\ read[Len(read)] = given[n - q]
        /\ \A i \in DOMAIN read : \E k \in 1..(n - q) : read[i] = given[k]

QueuesOK == \A c \in Clients : QueueOK(offered[c], buffer[c], taken[c])

\* Of two events of one thread the first is the earlier.
Earlier(by, e, f) == by[e] = by[f] => e < f

InOrder(by, events) ==
    \A i, j \in DOMAIN events : i < j => Earlier(by, events[i], events[j])

\* On its way an event never overtakes an earlier one of its thread, whether that
\* was taken, is queued, waits for the loop or is still to be handed to it.
PublishedOK ==
    /\ \A c \in Clients : \A k \in DOMAIN offered[c] : offered[c][k] <= count
    /\ \A i \in DOMAIN ready : ready[i][2] <= count

OfferedOK == \A c \in Clients : InOrder(author, offered[c]) /\ InOrder(author, taken[c])

ReadyOK ==
    \A i \in DOMAIN ready :
        /\ \A j \in DOMAIN ready :
              i < j /\ ready[i][1] = ready[j][1] => Earlier(author, ready[i][2], ready[j][2])
        /\ \A c \in Clients : \A k \in DOMAIN offered[c] :
              ready[i][1] = c => Earlier(author, offered[c][k], ready[i][2])

LeftOK ==
    \A p \in Publishers : \A m \in DOMAIN left[p] :
        /\ \A c \in Clients : \A k \in DOMAIN offered[c] :
              left[p][m] = c => Earlier(author, offered[c][k], event[p])
        /\ \A i \in DOMAIN ready :
              ready[i][1] = left[p][m] => Earlier(author, ready[i][2], event[p])

OrderOK == PublishedOK /\ OfferedOK /\ ReadyOK /\ LeftOK

\* What a connected client is owed was offered, waits for the loop, or is still to
\* be handed to it.
Owed(c, e) == loop = "running" /\ conn[c] = "open" /\ since[c] # None /\ since[c] < e

UnderWay(c, e) ==
    \/ \E k \in DOMAIN offered[c] : offered[c][k] = e
    \/ \E i \in DOMAIN ready : ready[i] = <<c, e>>
    \/ \E p \in Publishers : event[p] = e /\ \E m \in DOMAIN left[p] : left[p][m] = c

OwedOK == \A c \in Clients, e \in 1..count : Owed(c, e) => UnderWay(c, e)

IInv ==
    /\ TypeOK /\ GhostsOK
    /\ HandlersOK /\ PublishersOK /\ QueuesOK /\ OrderOK /\ OwedOK

-----------------------------------------------------------------------------
(* Sequences *)

\* list.remove() on a list without duplicates takes the one value out.
LEMMA RemoveFirstOnce ==
  ASSUME NEW S, NEW s \in Seq(S), NEW e,
         \A i, j \in DOMAIN s : s[i] = s[j] => i = j
  PROVE  /\ RemoveFirst(s, e) \in Seq(S)
         /\ \A x : x \in Range(RemoveFirst(s, e)) <=> x \in Range(s) /\ x # e
         /\ \A i, j \in DOMAIN RemoveFirst(s, e) :
               RemoveFirst(s, e)[i] = RemoveFirst(s, e)[j] => i = j
<1>1. DOMAIN s = 1..Len(s) /\ Len(s) \in Nat
  OBVIOUS
<1>2. CASE ~ \E i \in 1..Len(s) : s[i] = e
  BY <1>1, <1>2 DEF RemoveFirst, Range
<1>3. CASE \E i \in 1..Len(s) : s[i] = e
  <2>1. PICK k \in 1..Len(s) : s[k] = e
    BY <1>3
  <2>. DEFINE I == {i \in 1..Len(s) : s[i] = e}
  <2>2. I = {k}
    BY <1>1, <2>1
  <2>3. SelectInSeq(s, LAMBDA v : v = e) = k
    <3>1. SelectInSeq(s, LAMBDA v : v = e) = IF I # {} THEN Min(I) ELSE 0
      BY DEF SelectInSeq
    <3>2. Min({k}) = k
      BY DEF Min
    <3>. QED BY <2>2, <3>1, <3>2
  <2>. DEFINE r == RemoveFirst(s, e)
  <2>4. r = SubSeq(s, 1, k - 1) \o SubSeq(s, k + 1, Len(s))
    BY <1>3, <2>3 DEF RemoveFirst, RemoveAt
  <2>. DEFINE a == SubSeq(s, 1, k - 1)
              b == SubSeq(s, k + 1, Len(s))
  <2>5. /\ a \in Seq(S) /\ Len(a) = k - 1 /\ \A i \in 1..k - 1 : a[i] = s[i]
        /\ b \in Seq(S) /\ Len(b) = Len(s) - k /\ \A i \in 1..Len(s) - k : b[i] = s[k + i]
    <3>1. \A i \in 1..Len(s) : s[i] \in S
      OBVIOUS
    <3>2. 1..(k - 1) \subseteq 1..Len(s) /\ (k + 1)..Len(s) \subseteq 1..Len(s)
      BY <1>1, <2>1
    <3>3. /\ a \in Seq(S) /\ Len(a) = IF 1 <= k - 1 THEN (k - 1) - 1 + 1 ELSE 0
          /\ \A i \in 1..((k - 1) - 1 + 1) : a[i] = s[1 + i - 1]
      BY <2>1, <3>1, <3>2, SubSeqProperties
    <3>4. /\ b \in Seq(S)
          /\ Len(b) = IF k + 1 <= Len(s) THEN Len(s) - (k + 1) + 1 ELSE 0
          /\ \A i \in 1..(Len(s) - (k + 1) + 1) : b[i] = s[(k + 1) + i - 1]
      BY <1>1, <2>1, <3>1, <3>2, SubSeqProperties
    <3>. HIDE DEF a, b
    <3>5. Len(a) = k - 1 /\ Len(b) = Len(s) - k
      <4>1. k \in Int /\ Len(s) \in Int /\ 1 <= k /\ k <= Len(s)
        BY <1>1, <2>1
      <4>2. Len(a) = IF 1 <= k - 1 THEN (k - 1) - 1 + 1 ELSE 0
        BY <3>3
      <4>3. Len(b) = IF k + 1 <= Len(s) THEN Len(s) - (k + 1) + 1 ELSE 0
        BY <3>4
      <4>4. Len(a) = k - 1
        BY <4>1, <4>2
      <4>5. Len(b) = Len(s) - k
        BY <4>1, <4>3
      <4>. QED BY <4>4, <4>5
    <3>6. ASSUME NEW i \in 1..k - 1 PROVE a[i] = s[i]
      <4>1. i \in 1..((k - 1) - 1 + 1) /\ 1 + i - 1 = i
        BY <2>1
      <4>. QED BY <3>3, <4>1
    <3>7. ASSUME NEW i \in 1..Len(s) - k PROVE b[i] = s[k + i]
      <4>1. i \in 1..(Len(s) - (k + 1) + 1) /\ (k + 1) + i - 1 = k + i
        BY <1>1, <2>1
      <4>. QED BY <3>4, <4>1
    <3>. QED BY <3>3, <3>4, <3>5, <3>6, <3>7
  <2>. HIDE DEF a, b
  <2>6. /\ r \in Seq(S) /\ Len(r) = Len(s) - 1
        /\ \A i \in 1..k - 1 : r[i] = s[i]
        /\ \A i \in k..Len(s) - 1 : r[i] = s[i + 1]
    <3>1. r = a \o b
      BY <2>4 DEF a, b
    <3>2. /\ a \o b \in Seq(S) /\ Len(a \o b) = Len(a) + Len(b)
          /\ \A i \in 1..Len(a) + Len(b) :
                (a \o b)[i] = IF i <= Len(a) THEN a[i] ELSE b[i - Len(a)]
      BY <2>5, ConcatProperties
    <3>. HIDE DEF r
    <3>3. ASSUME NEW i \in k..Len(s) - 1 PROVE r[i] = s[i + 1]
      <4>1. i \in 1..Len(a) + Len(b) /\ ~(i <= Len(a)) /\ i - Len(a) \in 1..Len(s) - k
            /\ k + (i - Len(a)) = i + 1
        BY <1>1, <2>1, <2>5
      <4>. QED BY <2>5, <3>1, <3>2, <4>1
    <3>. QED BY <1>1, <2>1, <2>5, <3>1, <3>2, <3>3
  <2>. HIDE DEF r
  <2>7. DOMAIN r = 1..Len(s) - 1
    BY <1>1, <2>6
  <2>8. \A i \in DOMAIN r : \E j \in 1..Len(s) : j # k /\ r[i] = s[j] /\ j = IF i < k THEN i ELSE i + 1
    BY <1>1, <2>1, <2>6, <2>7
  <2>9. \A j \in 1..Len(s) : j # k => \E i \in DOMAIN r : r[i] = s[j]
    <3>1. ASSUME NEW j \in 1..Len(s), j # k PROVE \E i \in DOMAIN r : r[i] = s[j]
      <4>1. CASE j < k
        BY <1>1, <2>1, <2>6, <2>7, <4>1
      <4>2. CASE j > k
        <5>1. j - 1 \in k..Len(s) - 1 /\ (j - 1) + 1 = j
          BY <1>1, <2>1, <4>2
        <5>2. r[j - 1] = s[j] /\ j - 1 \in DOMAIN r
          BY <1>1, <2>1, <2>6, <2>7, <5>1
        <5>. QED BY <5>2
      <4>. QED BY <2>1, <3>1, <4>1, <4>2
    <3>. QED BY <3>1
  <2>10. \A x : x \in Range(r) <=> x \in Range(s) /\ x # e
    <3>1. ASSUME NEW x, x \in Range(r) PROVE x \in Range(s) /\ x # e
      BY <1>1, <2>1, <2>8, <3>1 DEF Range
    <3>2. ASSUME NEW x, x \in Range(s), x # e PROVE x \in Range(r)
      <4>1. PICK j \in 1..Len(s) : s[j] = x
        BY <1>1, <3>2 DEF Range
      <4>2. \E i \in DOMAIN r : r[i] = x
        BY <2>1, <2>9, <3>2, <4>1
      <4>. QED BY <4>2 DEF Range
    <3>. QED BY <3>1, <3>2
  <2>11. \A i, j \in DOMAIN r : r[i] = r[j] => i = j
    <3>1. ASSUME NEW i \in DOMAIN r, NEW j \in DOMAIN r, r[i] = r[j] PROVE i = j
      <4>1. PICK m \in 1..Len(s) : r[i] = s[m] /\ m = IF i < k THEN i ELSE i + 1
        BY <2>8
      <4>2. PICK n \in 1..Len(s) : r[j] = s[n] /\ n = IF j < k THEN j ELSE j + 1
        BY <2>8
      <4>3. m = n
        BY <1>1, <3>1, <4>1, <4>2
      <4>. QED BY <2>1, <2>7, <4>1, <4>2, <4>3
    <3>. QED BY <3>1
  <2>. QED BY <2>6, <2>10, <2>11 DEF r
<1>. QED BY <1>2, <1>3

\* What is left after the head.
LEMMA TailFacts ==
  ASSUME NEW S, NEW s \in Seq(S), s # <<>>
  PROVE  /\ Head(s) \in S /\ Head(s) = s[1] /\ Tail(s) \in Seq(S)
         /\ Len(s) \in Nat \ {0} /\ Len(Tail(s)) = Len(s) - 1
         /\ DOMAIN s = 1..Len(s) /\ DOMAIN Tail(s) = 1..Len(s) - 1
         /\ \A i \in 1..Len(s) - 1 : Tail(s)[i] = s[i + 1]
  OBVIOUS

\* What is appended comes last.
LEMMA AppendFacts ==
  ASSUME NEW S, NEW s \in Seq(S), NEW e \in S
  PROVE  /\ Append(s, e) \in Seq(S)
         /\ Len(s) \in Nat /\ Len(Append(s, e)) = Len(s) + 1
         /\ DOMAIN s = 1..Len(s) /\ DOMAIN Append(s, e) = 1..Len(s) + 1
         /\ \A i \in 1..Len(s) : Append(s, e)[i] = s[i]
         /\ Append(s, e)[Len(s) + 1] = e
         /\ \A i \in 1..Len(s) + 1 : i \in 1..Len(s) \/ i = Len(s) + 1
  OBVIOUS

-----------------------------------------------------------------------------
(* The steps, by what they touch *)

Quiet(c) == Sent(c) \/ Accept(c) \/ SendFails(c) \/ StreamAbandoned(c)
Introduces(c) == Answer(c) \/ StreamStarts(c)
Subscribes(c) == SocketSubscribe(c) \/ StreamSubscribe(c)
Leaves(c) == SocketEnds(c) \/ StreamEnds(c)

\* A step of an endpoint that neither subscribes nor leaves moves it on.
LEMMA ConnectionSteps ==
  ASSUME NEW c \in Clients, Connection(c)
  PROVE  Take(c) \/ Quiet(c) \/ Introduces(c) \/ Subscribes(c) \/ Leaves(c)
  BY DEF Connection, Quiet, Introduces, Subscribes, Leaves

\* What the callback that was scheduled first does.
LEMMA ReadyOffers ==
  ASSUME TypeOK, RunReady
  PROVE  \E c \in Clients, e \in 1..MaxEvents :
            /\ ready # <<>> /\ Head(ready) = <<c, e>> /\ ready' = Tail(ready)
            /\ buffer' = [buffer EXCEPT ![c] = Offer(buffer[c], e)]
            /\ offered' = [offered EXCEPT ![c] = Append(offered[c], e)]
            /\ UNCHANGED <<handlers, event, left, count, author, loop, taken, conn, task, since>>
<1>1. ready \in Seq(Clients \X (1..MaxEvents)) /\ ready # <<>>
  BY DEF RunReady, TypeOK
<1>2. Head(ready) \in Clients \X (1..MaxEvents)
  BY <1>1, TailFacts
<1>3. PICK c \in Clients, e \in 1..MaxEvents : Head(ready) = <<c, e>>
  BY <1>2
<1>4. Head(ready)[1] = c /\ Head(ready)[2] = e
  BY <1>3
<1>. QED BY <1>3, <1>4 DEF RunReady, Set, busVars, clientVars

\* Types, and the limit of the queues.
LEMMA TypesKept ==
  ASSUME TypeOK, GhostsOK, HandlersOK, [Next]_vars
  PROVE  TypeOK' /\ GhostsOK'
<1>. USE DEF Set, None, busVars, queueVars, clientVars
<1>1. CASE UNCHANGED vars
  BY <1>1 DEF vars, TypeOK, GhostsOK
<1>2. ASSUME NEW p \in Publishers, Publish(p) PROVE TypeOK' /\ GhostsOK'
  <2>1. author' \in Seq(Publishers) /\ Len(author') = Len(author) + 1
    BY <1>2 DEF Publish, TypeOK
  <2>2. count' \in 0..MaxEvents /\ count' = count + 1
    BY <1>2, EventsAssumption DEF Publish, TypeOK
  <2>. QED BY <1>2, <2>1, <2>2 DEF Publish, TypeOK, GhostsOK
<1>3. ASSUME NEW p \in Publishers, Forward(p) PROVE TypeOK' /\ GhostsOK'
  <2>1. /\ left[p] \in Seq(Clients) /\ left[p] # <<>> /\ event[p] \in 1..MaxEvents
        /\ Head(left[p]) \in Clients /\ Tail(left[p]) \in Seq(Clients)
    BY <1>3, EventsAssumption DEF Forward, TypeOK
  <2>2. ready' \in Seq(Clients \X (1..MaxEvents))
    <3>1. <<Head(left[p]), event[p]>> \in Clients \X (1..MaxEvents)
      BY <2>1
    <3>. QED BY <1>3, <3>1 DEF Forward, TypeOK
  <2>. QED BY <1>3, <2>1, <2>2 DEF Forward, TypeOK, GhostsOK
<1>4. ASSUME NEW p \in Publishers, PublishReturns(p) PROVE TypeOK' /\ GhostsOK'
  BY <1>4, EventsAssumption DEF PublishReturns, TypeOK, GhostsOK
<1>5. CASE RunReady
  <2>2. PICK c \in Clients, e \in 1..MaxEvents :
          /\ ready' = Tail(ready) /\ ready # <<>>
          /\ buffer' = [buffer EXCEPT ![c] = Offer(buffer[c], e)]
          /\ offered' = [offered EXCEPT ![c] = Append(offered[c], e)]
          /\ UNCHANGED <<handlers, event, left, count, author, loop, taken, conn, task, since>>
    BY <1>5, ReadyOffers
  <2>3. Offer(buffer[c], e) \in Seq(1..MaxEvents) /\ Len(Offer(buffer[c], e)) <= Buffer
    <3>1. /\ buffer[c] \in Seq(1..MaxEvents) /\ Len(buffer[c]) <= Buffer
          /\ Len(buffer[c]) \in Nat /\ Buffer \in Nat \ {0}
      BY BufferAssumption DEF TypeOK
    <3>2. CASE Len(buffer[c]) < Buffer
      BY <3>1, <3>2 DEF Offer
    <3>3. CASE ~(Len(buffer[c]) < Buffer)
      <4>1. buffer[c] # <<>>
        BY <3>1, <3>3
      <4>2. Tail(buffer[c]) \in Seq(1..MaxEvents) /\ Len(Tail(buffer[c])) = Len(buffer[c]) - 1
        BY <3>1, <4>1, TailFacts
      <4>3. Offer(buffer[c], e) = Append(Tail(buffer[c]), e)
        BY <3>3 DEF Offer
      <4>. HIDE DEF Offer
      <4>4. /\ Append(Tail(buffer[c]), e) \in Seq(1..MaxEvents)
            /\ Len(Append(Tail(buffer[c]), e)) = Len(Tail(buffer[c])) + 1
        BY <4>2, AppendFacts
      <4>. QED BY <3>1, <4>2, <4>3, <4>4
    <3>. QED BY <3>2, <3>3
  <2>4. offered' \in [Clients -> Seq(1..MaxEvents)]
    BY <2>2 DEF GhostsOK
  <2>5. ready' \in Seq(Clients \X (1..MaxEvents))
    <3>1. ready \in Seq(Clients \X (1..MaxEvents))
      BY DEF TypeOK
    <3>. QED BY <2>2, <3>1, TailFacts
  <2>6. buffer' \in [Clients -> Seq(1..MaxEvents)] /\ \A d \in Clients : Len(buffer'[d]) <= Buffer
    BY <2>2, <2>3 DEF TypeOK
  <2>. QED BY <2>2, <2>4, <2>5, <2>6 DEF TypeOK, GhostsOK
<1>6. CASE LoopCloses
  BY <1>6 DEF LoopCloses, TypeOK, GhostsOK
<1>7. ASSUME NEW c \in Clients, Take(c) PROVE TypeOK' /\ GhostsOK'
  <2>1. /\ buffer[c] \in Seq(1..MaxEvents) /\ buffer[c] # <<>> /\ Len(buffer[c]) <= Buffer
        /\ Buffer \in Nat
    BY <1>7, BufferAssumption DEF Take, TypeOK
  <2>2. /\ Tail(buffer[c]) \in Seq(1..MaxEvents) /\ Len(Tail(buffer[c])) <= Buffer
        /\ Head(buffer[c]) \in 1..MaxEvents
    <3>1. /\ Tail(buffer[c]) \in Seq(1..MaxEvents) /\ Len(Tail(buffer[c])) = Len(buffer[c]) - 1
          /\ Head(buffer[c]) \in 1..MaxEvents /\ Len(buffer[c]) \in Nat
      BY <2>1, TailFacts
    <3>. QED BY <2>1, <3>1
  <2>3. taken' \in [Clients -> Seq(1..MaxEvents)]
    BY <1>7, <2>2 DEF Take, GhostsOK
  <2>4. buffer' \in [Clients -> Seq(1..MaxEvents)] /\ \A d \in Clients : Len(buffer'[d]) <= Buffer
    BY <1>7, <2>2 DEF Take, TypeOK
  <2>5. task' \in [Clients -> {"none", "get", "send", "failed"}]
    BY <1>7 DEF Take, TypeOK
  <2>. QED BY <1>7, <2>3, <2>4, <2>5 DEF Take, TypeOK, GhostsOK
<1>8. ASSUME NEW c \in Clients, Quiet(c) \/ Introduces(c) PROVE TypeOK' /\ GhostsOK'
  <2>1. UNCHANGED <<handlers, event, left, loop, ready, buffer, count, author, offered, taken>>
    BY <1>8
    DEF Quiet, Introduces, Sent, Accept, SendFails, StreamAbandoned, Answer, StreamStarts
  <2>2. /\ conn' \in [Clients -> {"none", "accepted", "created", "open", "gone", "abandoned"}]
        /\ task' \in [Clients -> {"none", "get", "send", "failed"}]
    BY <1>8
    DEF Quiet, Introduces, Sent, Accept, SendFails, StreamAbandoned, Answer, StreamStarts, TypeOK
  <2>3. since' \in [Clients -> 0..None]
    <3>1. since' = since \/ since' = [since EXCEPT ![c] = count]
      BY <1>8
      DEF Quiet, Introduces, Sent, Accept, SendFails, StreamAbandoned, Answer, StreamStarts
    <3>2. count \in 0..None
      BY EventsAssumption DEF TypeOK
    <3>. QED BY <3>1, <3>2 DEF TypeOK
  <2>. QED BY <2>1, <2>2, <2>3 DEF TypeOK, GhostsOK
<1>9. ASSUME NEW c \in Clients, Subscribes(c) PROVE TypeOK' /\ GhostsOK'
  <2>1. /\ handlers' = Append(handlers, c)
        /\ UNCHANGED <<event, left, loop, ready, buffer, count, author, offered, taken, since>>
    BY <1>9 DEF Subscribes, SocketSubscribe, StreamSubscribe, Subscribe
  <2>2. /\ conn' \in [Clients -> {"none", "accepted", "created", "open", "gone", "abandoned"}]
        /\ task' \in [Clients -> {"none", "get", "send", "failed"}]
    BY <1>9 DEF Subscribes, SocketSubscribe, StreamSubscribe, TypeOK
  <2>3. handlers' \in Seq(Clients)
    BY <2>1, AppendFacts DEF TypeOK
  <2>. QED BY <2>1, <2>2, <2>3 DEF TypeOK, GhostsOK
<1>10. ASSUME NEW c \in Clients, Leaves(c) PROVE TypeOK' /\ GhostsOK'
  <2>1. handlers' \in Seq(Clients)
    <3>1. handlers' = RemoveFirst(handlers, c)
      BY <1>10 DEF Leaves, SocketEnds, StreamEnds, Unsubscribe
    <3>2. handlers \in Seq(Clients) /\ \A i, j \in DOMAIN handlers : handlers[i] = handlers[j] => i = j
      BY DEF TypeOK, HandlersOK
    <3>. QED BY <3>1, <3>2, RemoveFirstOnce
  <2>. QED BY <1>10, <2>1 DEF Leaves, SocketEnds, StreamEnds, TypeOK, GhostsOK
<1>. QED BY <1>1, <1>2, <1>3, <1>4, <1>5, <1>6, <1>7, <1>8, <1>9, <1>10, ConnectionSteps
     DEF Next, Bus

\* Who is subscribed.
LEMMA HandlersKept ==
  ASSUME TypeOK, TypeOK', HandlersOK, [Next]_vars PROVE HandlersOK'
<1>. USE DEF Set, busVars, queueVars, clientVars
<1>1. ASSUME UNCHANGED <<handlers, since>>,
             \A c \in Clients :
                /\ conn'[c] \in {"created", "open", "abandoned"}
                      <=> conn[c] \in {"created", "open", "abandoned"}
                /\ conn'[c] \in {"none", "accepted", "created"} =>
                      conn[c] \in {"none", "accepted", "created"}
      PROVE  HandlersOK'
  BY <1>1 DEF HandlersOK
<1>2. ASSUME UNCHANGED <<handlers, conn, since>> PROVE HandlersOK'
  BY <1>2 DEF HandlersOK
<1>3. ASSUME NEW c \in Clients, Quiet(c) PROVE HandlersOK'
  BY <1>1, <1>3 DEF Quiet, Sent, Accept, SendFails, StreamAbandoned, TypeOK
<1>4. ASSUME NEW c \in Clients, Introduces(c) PROVE HandlersOK'
  <2>1. /\ conn[c] \in {"created", "open"} /\ conn' = [conn EXCEPT ![c] = "open"]
        /\ handlers' = handlers /\ \A d \in Clients : d # c => since'[d] = since[d]
    BY <1>4 DEF Introduces, Answer, StreamStarts, TypeOK
  <2>. QED BY <2>1 DEF HandlersOK, TypeOK
<1>5. ASSUME NEW c \in Clients, Subscribes(c) PROVE HandlersOK'
  <2>1. /\ handlers' = Append(handlers, c) /\ conn[c] \in {"none", "accepted"}
        /\ conn' = [conn EXCEPT ![c] = IF c \in Sockets THEN "open" ELSE "created"]
        /\ since' = since
    BY <1>5, ClientsAssumption
    DEF Subscribes, SocketSubscribe, StreamSubscribe, Subscribe
  <2>2. /\ handlers \in Seq(Clients) /\ Len(handlers) \in Nat
        /\ DOMAIN handlers = 1..Len(handlers) /\ DOMAIN handlers' = 1..Len(handlers) + 1
        /\ handlers'[Len(handlers) + 1] = c
        /\ \A i \in 1..Len(handlers) : handlers'[i] = handlers[i]
    BY <2>1 DEF TypeOK
  <2>3. \A i \in 1..Len(handlers) + 1 : i \in 1..Len(handlers) \/ i = Len(handlers) + 1
    BY <2>2
  <2>4. \A i \in 1..Len(handlers) : handlers[i] # c
    BY <2>1, <2>2 DEF HandlersOK, Range
  <2>5. \A d \in Clients : d \in Range(handlers') <=> d \in Range(handlers) \/ d = c
    <3>1. Len(handlers) + 1 \in 1..Len(handlers) + 1
      BY <2>2
    <3>. QED BY <2>2, <2>3, <3>1 DEF Range
  <2>6. \A i, j \in DOMAIN handlers' : handlers'[i] = handlers'[j] => i = j
    BY <2>2, <2>3, <2>4 DEF HandlersOK
  <2>7. \A d \in Clients : conn'[d] = IF d = c THEN IF c \in Sockets THEN "open" ELSE "created"
                                             ELSE conn[d]
    BY <2>1 DEF TypeOK
  <2>. QED BY <2>1, <2>5, <2>6, <2>7 DEF HandlersOK
<1>6. ASSUME NEW c \in Clients, Leaves(c) PROVE HandlersOK'
  <2>1. /\ handlers' = RemoveFirst(handlers, c) /\ since' = since
        /\ conn' = [conn EXCEPT ![c] = "gone"]
    BY <1>6 DEF Leaves, SocketEnds, StreamEnds, Unsubscribe
  <2>2. /\ \A d : d \in Range(handlers') <=> d \in Range(handlers) /\ d # c
        /\ \A i, j \in DOMAIN handlers' : handlers'[i] = handlers'[j] => i = j
    <3>1. handlers \in Seq(Clients) /\ \A i, j \in DOMAIN handlers : handlers[i] = handlers[j] => i = j
      BY DEF TypeOK, HandlersOK
    <3>. QED BY <2>1, <3>1, RemoveFirstOnce
  <2>. QED BY <2>1, <2>2 DEF HandlersOK, TypeOK
<1>7. ASSUME NEW p \in Publishers, Bus(p) PROVE HandlersOK'
  BY <1>2, <1>7 DEF Bus, Publish, Forward, PublishReturns
<1>8. CASE RunReady \/ LoopCloses \/ UNCHANGED vars
  BY <1>2, <1>8 DEF RunReady, LoopCloses, vars
<1>9. ASSUME NEW c \in Clients, Take(c) PROVE HandlersOK'
  BY <1>2, <1>9 DEF Take
<1>. QED BY <1>3, <1>4, <1>5, <1>6, <1>7, <1>8, <1>9, ConnectionSteps DEF Next

\* What the threads that publish have to do.
LEMMA PublishersKept ==
  ASSUME TypeOK, GhostsOK, HandlersOK, PublishersOK, [Next]_vars PROVE PublishersOK'
<1>. USE DEF Set, busVars, queueVars, clientVars
<1>1. CASE UNCHANGED <<event, left, count, author>>
  BY <1>1 DEF PublishersOK
<1>2. ASSUME NEW p \in Publishers, Publish(p) PROVE PublishersOK'
  <2>1. /\ count' = count + 1 /\ author' = Append(author, p)
        /\ event' = [event EXCEPT ![p] = count + 1]
        /\ left' = [left EXCEPT ![p] = handlers]
        /\ event[p] = 0
    BY <1>2 DEF Publish
  <2>2. /\ author \in Seq(Publishers) /\ Len(author) = count /\ count \in Nat
        /\ author'[count + 1] = p /\ \A e \in 1..count : author'[e] = author[e]
    BY <2>1 DEF TypeOK, GhostsOK
  <2>3. ASSUME NEW q \in Publishers
        PROVE  /\ event'[q] = IF q = p THEN count + 1 ELSE event[q]
               /\ left'[q] = IF q = p THEN handlers ELSE left[q]
               /\ event[q] \in Nat
    BY <2>1 DEF TypeOK
  <2>4. \A e \in 1..count + 1 : e \in 1..count \/ e = count + 1
    BY <2>2
  <2>5. ASSUME NEW q \in Publishers
        PROVE  /\ event'[q] = 0 => left'[q] = <<>>
               /\ event'[q] <= count'
               /\ \A i, j \in DOMAIN left'[q] : left'[q][i] = left'[q][j] => i = j
               /\ event'[q] # 0 =>
                     /\ author'[event'[q]] = q
                     /\ \A e \in 1..count' : author'[e] = q => e <= event'[q]
    <3>1. CASE q = p
      BY <2>1, <2>2, <2>3, <3>1 DEF HandlersOK
    <3>2. CASE q # p
      <4>1. event'[q] = event[q] /\ left'[q] = left[q] /\ event[q] <= count
        BY <2>3, <3>2 DEF PublishersOK
      <4>2. event[q] # 0 => event[q] \in 1..count
        BY <2>2, <2>3, <4>1
      <4>. QED BY <2>1, <2>2, <2>3, <2>4, <3>2, <4>1, <4>2 DEF PublishersOK
    <3>. QED BY <3>1, <3>2
  <2>. QED BY <2>5 DEF PublishersOK
<1>3. ASSUME NEW p \in Publishers, Forward(p) PROVE PublishersOK'
  <2>1. /\ left' = [left EXCEPT ![p] = Tail(left[p])] /\ UNCHANGED <<event, count, author>>
        /\ event[p] # 0 /\ left[p] # <<>> /\ left[p] \in Seq(Clients)
    BY <1>3 DEF Forward, TypeOK
  <2>2. /\ DOMAIN left[p] = 1..Len(left[p]) /\ Len(left[p]) \in Nat
        /\ DOMAIN Tail(left[p]) = 1..Len(left[p]) - 1
        /\ \A i \in 1..Len(left[p]) - 1 : Tail(left[p])[i] = left[p][i + 1]
    BY <2>1
  <2>3. \A i, j \in DOMAIN Tail(left[p]) : Tail(left[p])[i] = Tail(left[p])[j] => i = j
    <3>1. ASSUME NEW i \in 1..Len(left[p]) - 1, NEW j \in 1..Len(left[p]) - 1,
                 left[p][i + 1] = left[p][j + 1]
          PROVE  i = j
      <4>1. i + 1 \in DOMAIN left[p] /\ j + 1 \in DOMAIN left[p]
        BY <2>2
      <4>2. i + 1 = j + 1
        BY <3>1, <4>1 DEF PublishersOK
      <4>. QED BY <4>2
    <3>. QED BY <2>2, <3>1
  <2>4. \A q \in Publishers : left'[q] = IF q = p THEN Tail(left[p]) ELSE left[q]
    BY <2>1 DEF TypeOK
  <2>. QED BY <2>1, <2>3, <2>4 DEF PublishersOK
<1>4. ASSUME NEW p \in Publishers, PublishReturns(p) PROVE PublishersOK'
  <2>1. /\ event' = [event EXCEPT ![p] = 0] /\ left[p] = <<>> /\ UNCHANGED <<left, count, author>>
    BY <1>4 DEF PublishReturns
  <2>2. \A q \in Publishers : event'[q] = IF q = p THEN 0 ELSE event[q]
    BY <2>1 DEF TypeOK
  <2>. QED BY <2>1, <2>2 DEF PublishersOK, TypeOK
<1>5. CASE RunReady \/ LoopCloses \/ UNCHANGED vars
  BY <1>1, <1>5 DEF RunReady, LoopCloses, vars
<1>6. ASSUME NEW c \in Clients, Connection(c) PROVE PublishersOK'
  BY <1>1, <1>6, ConnectionSteps
  DEF Take, Quiet, Introduces, Subscribes, Leaves, Sent, Accept, SendFails, StreamAbandoned,
      Answer, StreamStarts, SocketSubscribe, StreamSubscribe, SocketEnds, StreamEnds
<1>. QED BY <1>2, <1>3, <1>4, <1>5, <1>6 DEF Next, Bus

-----------------------------------------------------------------------------
(* The queues *)

\* offer() keeps a queue the latest of what was offered.
LEMMA OfferKeeps ==
  ASSUME NEW S, NEW o \in Seq(S), NEW b \in Seq(S), NEW t \in Seq(S), NEW e \in S,
         QueueOK(o, b, t), Len(b) <= Buffer
  PROVE  QueueOK(Append(o, e), Offer(b, e), t)
<1>. DEFINE n == Len(o)  q == Len(b)  m == Len(Append(o, e))
<1>1. /\ n \in Nat /\ q \in Nat /\ m = n + 1 /\ Buffer \in Nat \ {0}
      /\ \A i \in 1..n : Append(o, e)[i] = o[i]
      /\ Append(o, e)[n + 1] = e /\ q <= n
  BY AppendFacts, BufferAssumption DEF QueueOK
<1>2. CASE q < Buffer
  <2>1. Offer(b, e) = Append(b, e)
    BY <1>2 DEF Offer
  <2>2. /\ Len(Offer(b, e)) = q + 1 /\ \A i \in 1..q : Offer(b, e)[i] = b[i]
        /\ Offer(b, e)[q + 1] = e
    BY <2>1, AppendFacts
  <2>. HIDE DEF Offer
  <2>3. ASSUME NEW i \in 1..q + 1 PROVE Offer(b, e)[i] = Append(o, e)[(n + 1) - (q + 1) + i]
    <3>1. CASE i = q + 1
      <4>1. (n + 1) - (q + 1) + i = n + 1
        BY <1>1, <3>1
      <4>. QED BY <1>1, <2>2, <3>1, <4>1
    <3>2. CASE i # q + 1
      <4>1. i \in 1..q /\ (n + 1) - (q + 1) + i = n - q + i /\ n - q + i \in 1..n
        BY <1>1, <3>2
      <4>2. b[i] = o[n - q + i]
        BY <4>1 DEF QueueOK
      <4>. QED BY <1>1, <2>2, <4>1, <4>2
    <3>. QED BY <3>1, <3>2
  <2>4. ASSUME n > q PROVE t # <<>> /\ t[Len(t)] = Append(o, e)[(n + 1) - (q + 1)]
    <3>1. n - q \in 1..n /\ (n + 1) - (q + 1) = n - q
      BY <1>1, <2>4
    <3>2. t # <<>> /\ t[Len(t)] = o[n - q]
      BY <1>2, <2>4 DEF QueueOK
    <3>. QED BY <1>1, <3>1, <3>2
  <2>5. ASSUME NEW i \in DOMAIN t PROVE \E k \in 1..((n + 1) - (q + 1)) : t[i] = Append(o, e)[k]
    <3>1. PICK k \in 1..(n - q) : t[i] = o[k]
      BY DEF QueueOK
    <3>2. k \in 1..n /\ k \in 1..((n + 1) - (q + 1))
      BY <1>1
    <3>. QED BY <1>1, <3>1, <3>2
  <2>6. q + 1 <= n + 1 /\ (n + 1 > q + 1 => n > q)
    BY <1>1
  <2>. HIDE DEF n, q, m
  <2>. QED BY <1>1, <2>2, <2>3, <2>4, <2>5, <2>6 DEF QueueOK, n, q, m
<1>3. CASE ~(q < Buffer)
  <2>1. Offer(b, e) = Append(Tail(b), e) /\ b # <<>> /\ q = Buffer /\ q > 0
    BY <1>1, <1>3 DEF Offer
  <2>2. /\ Tail(b) \in Seq(S) /\ Len(Tail(b)) = q - 1
        /\ \A i \in 1..q - 1 : Tail(b)[i] = b[i + 1]
    BY <2>1, TailFacts
  <2>3. /\ Len(Offer(b, e)) = (q - 1) + 1 /\ \A i \in 1..q - 1 : Offer(b, e)[i] = Tail(b)[i]
        /\ Offer(b, e)[(q - 1) + 1] = e
    BY <2>1, <2>2, AppendFacts
  <2>. HIDE DEF Offer
  <2>4. (q - 1) + 1 = q
    BY <1>1
  <2>5. ASSUME NEW i \in 1..q PROVE Offer(b, e)[i] = Append(o, e)[(n + 1) - q + i]
    <3>1. CASE i = q
      <4>1. (n + 1) - q + i = n + 1
        BY <1>1, <3>1
      <4>. QED BY <1>1, <2>3, <2>4, <3>1, <4>1
    <3>2. CASE i # q
      <4>1. /\ i \in 1..q - 1 /\ i + 1 \in 1..q /\ (n + 1) - q + i = n - q + (i + 1)
            /\ n - q + (i + 1) \in 1..n
        BY <1>1, <3>2
      <4>2. b[i + 1] = o[n - q + (i + 1)]
        BY <4>1 DEF QueueOK
      <4>. QED BY <1>1, <2>2, <2>3, <4>1, <4>2
    <3>. QED BY <3>1, <3>2
  <2>6. ASSUME NEW i \in DOMAIN t PROVE \E k \in 1..((n + 1) - q) : t[i] = Append(o, e)[k]
    <3>1. PICK k \in 1..(n - q) : t[i] = o[k]
      BY DEF QueueOK
    <3>2. k \in 1..n /\ k \in 1..((n + 1) - q)
      BY <1>1
    <3>. QED BY <1>1, <3>1, <3>2
  <2>7. q <= n + 1 /\ ~(q < Buffer)
    BY <1>1, <1>3
  <2>. HIDE DEF n, q, m
  <2>. QED BY <1>1, <2>3, <2>4, <2>5, <2>6, <2>7 DEF QueueOK, n, q, m
<1>. QED BY <1>2, <1>3

\* Taking the oldest event keeps a queue the latest of what was offered.
LEMMA TakeKeeps ==
  ASSUME NEW S, NEW o \in Seq(S), NEW b \in Seq(S), NEW t \in Seq(S), b # <<>>,
         QueueOK(o, b, t)
  PROVE  /\ QueueOK(o, Tail(b), Append(t, Head(b)))
         /\ Len(o) - Len(b) + 1 \in 1..Len(o) /\ Head(b) = o[Len(o) - Len(b) + 1]
<1>. DEFINE n == Len(o)  q == Len(b)  r == Append(t, Head(b))
<1>1. /\ n \in Nat /\ q \in Nat /\ q > 0 /\ q <= n /\ Tail(b) \in Seq(S) /\ Len(Tail(b)) = q - 1
      /\ \A i \in 1..q - 1 : Tail(b)[i] = b[i + 1]
      /\ Head(b) = b[1] /\ Head(b) \in S
  BY TailFacts DEF QueueOK
<1>2. /\ Len(t) \in Nat /\ Len(r) = Len(t) + 1 /\ DOMAIN t = 1..Len(t)
      /\ DOMAIN r = 1..Len(t) + 1 /\ \A i \in 1..Len(t) : r[i] = t[i]
      /\ r[Len(t) + 1] = Head(b) /\ r # <<>>
      /\ \A i \in 1..Len(t) + 1 : i \in 1..Len(t) \/ i = Len(t) + 1
  BY <1>1, AppendFacts
<1>3. n - q + 1 \in 1..n /\ n - (q - 1) = n - q + 1 /\ q - 1 <= n /\ 1 \in 1..q
  BY <1>1
<1>4. Head(b) = o[n - q + 1]
  BY <1>1, <1>3 DEF QueueOK
<1>5. ASSUME NEW i \in 1..q - 1 PROVE Tail(b)[i] = o[n - (q - 1) + i]
  <2>1. i + 1 \in 1..q /\ n - (q - 1) + i = n - q + (i + 1)
    BY <1>1
  <2>2. b[i + 1] = o[n - q + (i + 1)]
    BY <2>1 DEF QueueOK
  <2>. QED BY <1>1, <2>1, <2>2
<1>6. ASSUME NEW i \in DOMAIN r PROVE \E k \in 1..(n - (q - 1)) : r[i] = o[k]
  <2>1. CASE i \in 1..Len(t)
    <3>1. PICK k \in 1..(n - q) : t[i] = o[k]
      BY <1>2, <2>1 DEF QueueOK
    <3>2. k \in 1..(n - (q - 1))
      BY <1>1
    <3>. QED BY <1>2, <2>1, <3>1, <3>2
  <2>2. CASE i = Len(t) + 1
    <3>1. n - q + 1 \in 1..(n - (q - 1))
      BY <1>1
    <3>. QED BY <1>2, <1>4, <2>2, <3>1
  <2>. QED BY <1>2, <2>1, <2>2
<1>. HIDE DEF n, q, r
<1>. QED BY <1>1, <1>2, <1>3, <1>4, <1>5, <1>6 DEF QueueOK, n, q, r

\* The queues stay the latest of what was offered.
LEMMA QueuesKept ==
  ASSUME TypeOK, GhostsOK, QueuesOK, [Next]_vars PROVE QueuesOK'
<1>. USE DEF Set, busVars, queueVars, clientVars
<1>1. CASE UNCHANGED <<buffer, offered, taken>>
  BY <1>1 DEF QueuesOK, QueueOK
<1>2. CASE RunReady
  <2>1. PICK c \in Clients, e \in 1..MaxEvents :
           /\ buffer' = [buffer EXCEPT ![c] = Offer(buffer[c], e)]
           /\ offered' = [offered EXCEPT ![c] = Append(offered[c], e)]
           /\ taken' = taken
    BY <1>2, ReadyOffers
  <2>2. QueueOK(Append(offered[c], e), Offer(buffer[c], e), taken[c])
    BY OfferKeeps DEF TypeOK, GhostsOK, QueuesOK
  <2>3. ASSUME NEW d \in Clients PROVE QueueOK(offered'[d], buffer'[d], taken'[d])
    <3>1. CASE d = c
      BY <2>1, <2>2, <3>1 DEF TypeOK, GhostsOK
    <3>2. CASE d # c
      BY <2>1, <3>2 DEF TypeOK, GhostsOK, QueuesOK
    <3>. QED BY <3>1, <3>2
  <2>. QED BY <2>3 DEF QueuesOK, QueueOK
<1>3. ASSUME NEW c \in Clients, Take(c) PROVE QueuesOK'
  <2>1. /\ buffer[c] # <<>>
        /\ buffer' = [buffer EXCEPT ![c] = Tail(buffer[c])]
        /\ taken' = [taken EXCEPT ![c] = Append(taken[c], Head(buffer[c]))]
        /\ offered' = offered
    BY <1>3 DEF Take
  <2>2. QueueOK(offered[c], Tail(buffer[c]), Append(taken[c], Head(buffer[c])))
    BY <2>1, TakeKeeps DEF TypeOK, GhostsOK, QueuesOK
  <2>3. ASSUME NEW d \in Clients PROVE QueueOK(offered'[d], buffer'[d], taken'[d])
    <3>1. CASE d = c
      BY <2>1, <2>2, <3>1 DEF TypeOK, GhostsOK
    <3>2. CASE d # c
      BY <2>1, <3>2 DEF TypeOK, GhostsOK, QueuesOK
    <3>. QED BY <3>1, <3>2
  <2>. QED BY <2>3 DEF QueuesOK, QueueOK
<1>4. ASSUME NEW p \in Publishers, Bus(p) PROVE QueuesOK'
  BY <1>1, <1>4 DEF Bus, Publish, Forward, PublishReturns
<1>5. CASE LoopCloses \/ UNCHANGED vars
  BY <1>1, <1>5 DEF LoopCloses, vars
<1>6. ASSUME NEW c \in Clients, Quiet(c) \/ Introduces(c) \/ Subscribes(c) \/ Leaves(c)
      PROVE  QueuesOK'
  BY <1>1, <1>6
  DEF Quiet, Introduces, Subscribes, Leaves, Sent, Accept, SendFails, StreamAbandoned,
      Answer, StreamStarts, SocketSubscribe, StreamSubscribe, SocketEnds, StreamEnds
<1>. QED BY <1>2, <1>3, <1>4, <1>5, <1>6, ConnectionSteps DEF Next

-----------------------------------------------------------------------------
(* The order *)

\* The events underway are numbered by those published, and every sequence of
\* them has a domain to speak of.
LEMMA Underway ==
  ASSUME TypeOK, GhostsOK, PublishersOK, OrderOK
  PROVE  /\ count \in Nat
         /\ \A c \in Clients : /\ offered[c] \in Seq(1..MaxEvents)
                               /\ taken[c] \in Seq(1..MaxEvents)
                               /\ \A k \in DOMAIN offered[c] : offered[c][k] \in 1..count
         /\ \A i \in DOMAIN ready : ready[i] \in Clients \X (1..MaxEvents) /\ ready[i][2] \in 1..count
         /\ \A p \in Publishers : /\ left[p] \in Seq(Clients)
                                  /\ \A m \in DOMAIN left[p] : event[p] \in 1..count
<1>1. count \in Nat
  BY DEF TypeOK
<1>2. ASSUME NEW c \in Clients
      PROVE  /\ offered[c] \in Seq(1..MaxEvents)
             /\ taken[c] \in Seq(1..MaxEvents)
             /\ \A k \in DOMAIN offered[c] : offered[c][k] \in 1..count
  <2>1. offered[c] \in Seq(1..MaxEvents) /\ taken[c] \in Seq(1..MaxEvents)
    BY DEF GhostsOK
  <2>2. ASSUME NEW k \in DOMAIN offered[c] PROVE offered[c][k] \in 1..count
    <3>1. offered[c][k] \in 1..MaxEvents
      <4>1. k \in 1..Len(offered[c])
        BY <2>1, LenProperties
      <4>. QED BY <2>1, <4>1, ElementOfSeq
    <3>2. offered[c][k] <= count
      BY DEF OrderOK, PublishedOK
    <3>. QED BY <1>1, <3>1, <3>2
  <2>. QED BY <2>1, <2>2
<1>3. ASSUME NEW i \in DOMAIN ready
      PROVE  ready[i] \in Clients \X (1..MaxEvents) /\ ready[i][2] \in 1..count
  <2>1. ready[i] \in Clients \X (1..MaxEvents)
    BY DEF TypeOK
  <2>2. ready[i][2] <= count
    BY DEF OrderOK, PublishedOK
  <2>. QED BY <1>1, <2>1, <2>2
<1>4. ASSUME NEW p \in Publishers
      PROVE  left[p] \in Seq(Clients) /\ \A m \in DOMAIN left[p] : event[p] \in 1..count
  <2>1. left[p] \in Seq(Clients) /\ event[p] \in 0..MaxEvents
    BY DEF TypeOK
  <2>2. event[p] <= count /\ (event[p] = 0 => left[p] = <<>>)
    BY DEF PublishersOK
  <2>. QED BY <1>1, <2>1, <2>2
<1>. QED BY <1>1, <1>2, <1>3, <1>4

\* A new event is the last of its thread.
LEMMA PublishInOrder ==
  ASSUME TypeOK, GhostsOK, HandlersOK, PublishersOK, QueuesOK, OrderOK,
         NEW p \in Publishers, Publish(p)
  PROVE  OrderOK'
<1>1. /\ count' = count + 1 /\ author' = Append(author, p)
      /\ event' = [event EXCEPT ![p] = count + 1]
      /\ left' = [left EXCEPT ![p] = handlers]
      /\ UNCHANGED <<ready, offered, taken>>
  BY DEF Publish, Set, queueVars
<1>2. count \in Nat /\ \A e \in 1..count : author'[e] = author[e]
  BY <1>1 DEF TypeOK, GhostsOK
<1>3. \A e, f \in 1..count : Earlier(author, e, f) => Earlier(author', e, f)
  BY <1>2 DEF Earlier
<1>4. \A e \in 1..count : Earlier(author', e, count + 1)
  BY <1>2 DEF Earlier
<1>5. PublishedOK'
  <2>1. ASSUME NEW e \in 1..count PROVE e <= count'
    BY <1>1, <1>2
  <2>. QED BY <1>1, <2>1, Underway DEF PublishedOK
<1>6. ASSUME NEW c \in Clients PROVE InOrder(author', offered[c]) /\ InOrder(author', taken[c])
  <2>1. InOrder(author', offered[c])
    BY <1>3, Underway DEF OrderOK, OfferedOK, InOrder
  <2>2. \A i \in DOMAIN taken[c] : taken[c][i] \in 1..count
    <3>1. ASSUME NEW i \in DOMAIN taken[c] PROVE taken[c][i] \in 1..count
      <4>1. PICK k \in 1..(Len(offered[c]) - Len(buffer[c])) : taken[c][i] = offered[c][k]
        BY DEF QueuesOK, QueueOK
      <4>2. k \in DOMAIN offered[c]
        BY Underway DEF TypeOK
      <4>. QED BY <4>1, <4>2, Underway
    <3>. QED BY <3>1
  <2>3. InOrder(author', taken[c])
    BY <1>3, <2>2 DEF OrderOK, OfferedOK, InOrder
  <2>. QED BY <2>1, <2>3
<1>7. OfferedOK'
  BY <1>1, <1>6 DEF OfferedOK, InOrder, Earlier
<1>8. ReadyOK'
  <2>1. ASSUME NEW i \in DOMAIN ready
        PROVE  /\ \A j \in DOMAIN ready :
                     i < j /\ ready[i][1] = ready[j][1]
                        => Earlier(author', ready[i][2], ready[j][2])
               /\ \A c \in Clients : \A k \in DOMAIN offered[c] :
                     ready[i][1] = c => Earlier(author', offered[c][k], ready[i][2])
    BY <1>3, Underway DEF OrderOK, ReadyOK
  <2>. QED BY <1>1, <2>1 DEF ReadyOK, Earlier
<1>9. LeftOK'
  <2>1. ASSUME NEW q \in Publishers, NEW m \in DOMAIN left'[q]
        PROVE  /\ \A c \in Clients : \A k \in DOMAIN offered[c] :
                     left'[q][m] = c => Earlier(author', offered[c][k], event'[q])
               /\ \A i \in DOMAIN ready :
                     ready[i][1] = left'[q][m] => Earlier(author', ready[i][2], event'[q])
    <3>1. CASE q = p
      <4>1. event'[q] = count + 1
        BY <1>1, <3>1 DEF TypeOK
      <4>. QED BY <1>4, <4>1, Underway
    <3>2. CASE q # p
      <4>1. event'[q] = event[q] /\ left'[q] = left[q]
        BY <1>1, <3>2 DEF TypeOK
      <4>. QED BY <1>3, <4>1, Underway DEF OrderOK, LeftOK
    <3>. QED BY <3>1, <3>2
  <2>. QED BY <1>1, <2>1 DEF LeftOK, Earlier
<1>. QED BY <1>5, <1>7, <1>8, <1>9 DEF OrderOK

\* What a thread hands over comes after what it handed over before.
LEMMA ForwardInOrder ==
  ASSUME TypeOK, GhostsOK, PublishersOK, OrderOK, NEW p \in Publishers, Forward(p)
  PROVE  OrderOK'
<1>. DEFINE c == Head(left[p])
<1>1. /\ left' = [left EXCEPT ![p] = Tail(left[p])]
      /\ ready' = IF loop = "running" THEN Append(ready, <<c, event[p]>>) ELSE ready
      /\ left[p] # <<>> /\ left[p] \in Seq(Clients)
      /\ UNCHANGED <<event, count, author, offered, taken>>
  BY DEF Forward, Set, TypeOK
<1>2. /\ c \in Clients /\ c = left[p][1] /\ Len(left[p]) \in Nat \ {0}
      /\ DOMAIN left[p] = 1..Len(left[p])
      /\ DOMAIN Tail(left[p]) = 1..Len(left[p]) - 1
      /\ \A m \in 1..Len(left[p]) - 1 : Tail(left[p])[m] = left[p][m + 1]
  BY <1>1, TailFacts
<1>3. 1 \in DOMAIN left[p] /\ event[p] \in 1..count
  BY <1>2, Underway
<1>4. /\ \A d \in Clients : \A k \in DOMAIN offered[d] :
            d = c => Earlier(author, offered[d][k], event[p])
      /\ \A i \in DOMAIN ready : ready[i][1] = c => Earlier(author, ready[i][2], event[p])
  BY <1>2, <1>3 DEF OrderOK, LeftOK
<1>5. \A m \in DOMAIN Tail(left[p]) : Tail(left[p])[m] # c
  <2>1. ASSUME NEW m \in 1..Len(left[p]) - 1 PROVE left[p][m + 1] # left[p][1]
    <3>1. m + 1 \in DOMAIN left[p] /\ m + 1 # 1
      BY <1>2
    <3>. QED BY <1>3, <3>1 DEF PublishersOK
  <2>. QED BY <1>2, <2>1
<1>6. \A q \in Publishers : q # p /\ event[q] # 0 => Earlier(author, event[p], event[q])
  <2>1. event[p] # 0
    BY <1>3
  <2>. QED BY <2>1 DEF PublishersOK, Earlier
<1>7. \A q \in Publishers : left'[q] = IF q = p THEN Tail(left[p]) ELSE left[q]
  BY <1>1 DEF TypeOK
<1>. DEFINE pair == <<c, event[p]>>
<1>8. ready \in Seq(Clients \X (1..MaxEvents)) /\ pair \in Clients \X (1..MaxEvents)
  BY <1>2, <1>3, EventsAssumption DEF TypeOK
<1>9. ready' = ready \/ ready' = Append(ready, pair)
  BY <1>1
<1>10. pair[1] = c /\ pair[2] = event[p]
  OBVIOUS
<1>. HIDE DEF c, pair
<1>11. ASSUME NEW i \in DOMAIN ready'
       PROVE  \/ i \in DOMAIN ready /\ ready'[i] = ready[i]
              \/ ready'[i][1] = c /\ ready'[i][2] = event[p] /\ \A j \in DOMAIN ready' : j <= i
  <2>1. CASE ready' = ready
    BY <2>1
  <2>2. CASE ready' = Append(ready, pair)
    <3>1. /\ Len(ready) \in Nat /\ DOMAIN ready = 1..Len(ready)
          /\ DOMAIN ready' = 1..Len(ready) + 1
          /\ \A j \in 1..Len(ready) : ready'[j] = ready[j]
          /\ ready'[Len(ready) + 1] = pair
          /\ \A j \in 1..Len(ready) + 1 : j \in 1..Len(ready) \/ j = Len(ready) + 1
      BY <1>8, <2>2, AppendFacts
    <3>2. i \in 1..Len(ready) \/ i = Len(ready) + 1
      BY <3>1
    <3>3. CASE i \in 1..Len(ready)
      BY <3>1, <3>3
    <3>4. CASE i = Len(ready) + 1
      BY <1>10, <3>1, <3>4
    <3>. QED BY <3>2, <3>3, <3>4
  <2>. QED BY <1>9, <2>1, <2>2
<1>12. PublishedOK'
  <2>1. ASSUME NEW i \in DOMAIN ready' PROVE ready'[i][2] <= count'
    BY <1>1, <1>3, <1>11, Underway DEF OrderOK, PublishedOK
  <2>. QED BY <1>1, <2>1 DEF OrderOK, PublishedOK
<1>13. OfferedOK'
  BY <1>1 DEF OrderOK, OfferedOK, InOrder, Earlier
<1>14. ReadyOK'
  <2>1. ASSUME NEW i \in DOMAIN ready', NEW j \in DOMAIN ready', i < j,
               ready'[i][1] = ready'[j][1]
        PROVE  Earlier(author, ready'[i][2], ready'[j][2])
    <3>1. DOMAIN ready' \subseteq Nat
      BY <1>8, <1>9
    <3>2. i \in DOMAIN ready /\ ready'[i] = ready[i]
      <4>1. ~(j <= i)
        BY <2>1, <3>1
      <4>. QED BY <1>11, <4>1
    <3>3. CASE j \in DOMAIN ready /\ ready'[j] = ready[j]
      BY <2>1, <3>2, <3>3 DEF OrderOK, ReadyOK
    <3>4. CASE ready'[j][1] = c /\ ready'[j][2] = event[p]
      BY <1>4, <2>1, <3>2, <3>4
    <3>. QED BY <1>11, <3>3, <3>4
  <2>2. ASSUME NEW i \in DOMAIN ready', NEW d \in Clients, NEW k \in DOMAIN offered[d],
               ready'[i][1] = d
        PROVE  Earlier(author, offered[d][k], ready'[i][2])
    <3>1. CASE i \in DOMAIN ready /\ ready'[i] = ready[i]
      BY <2>2, <3>1 DEF OrderOK, ReadyOK
    <3>2. CASE ready'[i][1] = c /\ ready'[i][2] = event[p]
      BY <1>4, <2>2, <3>2
    <3>. QED BY <1>11, <3>1, <3>2
  <2>. QED BY <1>1, <2>1, <2>2 DEF ReadyOK, Earlier
<1>15. LeftOK'
  <2>1. ASSUME NEW q \in Publishers, NEW m \in DOMAIN left'[q]
        PROVE  \E n \in DOMAIN left[q] : left'[q][m] = left[q][n] /\ (q = p => left[q][n] # c)
    <3>1. CASE q = p
      <4>1. m \in 1..Len(left[p]) - 1 /\ left'[q][m] = left[p][m + 1]
        BY <1>2, <1>7, <3>1
      <4>2. m + 1 \in DOMAIN left[p]
        BY <1>2, <4>1
      <4>. QED BY <1>5, <1>2, <1>7, <3>1, <4>1, <4>2
    <3>2. CASE q # p
      BY <1>7, <3>2
    <3>. QED BY <3>1, <3>2
  <2>2. ASSUME NEW q \in Publishers, NEW m \in DOMAIN left'[q], NEW d \in Clients,
               NEW k \in DOMAIN offered[d], left'[q][m] = d
        PROVE  Earlier(author, offered[d][k], event[q])
    BY <2>1, <2>2 DEF OrderOK, LeftOK
  <2>3. ASSUME NEW q \in Publishers, NEW m \in DOMAIN left'[q], NEW i \in DOMAIN ready',
               ready'[i][1] = left'[q][m]
        PROVE  Earlier(author, ready'[i][2], event[q])
    <3>1. PICK n \in DOMAIN left[q] : left'[q][m] = left[q][n] /\ (q = p => left[q][n] # c)
      BY <2>1
    <3>2. CASE i \in DOMAIN ready /\ ready'[i] = ready[i]
      BY <2>3, <3>1, <3>2 DEF OrderOK, LeftOK
    <3>3. CASE ready'[i][1] = c /\ ready'[i][2] = event[p]
      <4>1. q # p /\ event[q] # 0
        BY <2>3, <3>1, <3>3, Underway
      <4>. QED BY <1>6, <3>3, <4>1
    <3>. QED BY <1>11, <3>2, <3>3
  <2>. QED BY <1>1, <2>2, <2>3 DEF LeftOK, Earlier
<1>. QED BY <1>12, <1>13, <1>14, <1>15 DEF OrderOK

\* The loop runs the callbacks in the order in which they were handed to it.
LEMMA OfferInOrder ==
  ASSUME TypeOK, GhostsOK, PublishersOK, OrderOK, RunReady
  PROVE  OrderOK'
<1>1. PICK c \in Clients, e \in 1..MaxEvents :
         /\ ready # <<>> /\ Head(ready) = <<c, e>> /\ ready' = Tail(ready)
         /\ offered' = [offered EXCEPT ![c] = Append(offered[c], e)]
         /\ UNCHANGED <<event, left, count, author, taken>>
  BY ReadyOffers
<1>2. /\ Len(ready) \in Nat \ {0} /\ ready[1] = <<c, e>>
      /\ DOMAIN ready = 1..Len(ready) /\ DOMAIN ready' = 1..Len(ready) - 1
      /\ \A i \in 1..Len(ready) - 1 : ready'[i] = ready[i + 1]
  <2>1. ready \in Seq(Clients \X (1..MaxEvents))
    BY DEF TypeOK
  <2>. QED BY <1>1, <2>1, TailFacts
<1>3. 1 \in DOMAIN ready /\ ready[1][1] = c /\ ready[1][2] = e
  BY <1>2
<1>4. \A i \in DOMAIN ready' : i + 1 \in DOMAIN ready /\ ready'[i] = ready[i + 1] /\ 1 < i + 1
  BY <1>2
<1>. DEFINE o == Append(offered[c], e)
<1>5. /\ Len(offered[c]) \in Nat
      /\ DOMAIN offered[c] = 1..Len(offered[c]) /\ DOMAIN o = 1..Len(offered[c]) + 1
      /\ \A k \in 1..Len(offered[c]) : o[k] = offered[c][k]
      /\ o[Len(offered[c]) + 1] = e
      /\ \A k \in 1..Len(offered[c]) + 1 : k \in 1..Len(offered[c]) \/ k = Len(offered[c]) + 1
  <2>1. offered[c] \in Seq(1..MaxEvents)
    BY DEF GhostsOK
  <2>. QED BY <2>1, AppendFacts
<1>6. \A d \in Clients : offered'[d] = IF d = c THEN o ELSE offered[d]
  BY <1>1 DEF GhostsOK
<1>. HIDE DEF o
<1>7. ASSUME NEW d \in Clients, NEW k \in DOMAIN offered'[d]
      PROVE  \/ k \in DOMAIN offered[d] /\ offered'[d][k] = offered[d][k]
             \/ d = c /\ offered'[d][k] = e /\ \A m \in DOMAIN offered'[d] : m <= k
  <2>1. CASE d = c
    <3>1. offered'[d] = o
      BY <1>6, <2>1
    <3>2. CASE k \in 1..Len(offered[c])
      BY <1>5, <2>1, <3>1, <3>2
    <3>3. CASE k = Len(offered[c]) + 1
      BY <1>5, <2>1, <3>1, <3>3
    <3>. QED BY <1>5, <3>1, <3>2, <3>3
  <2>2. CASE d # c
    BY <1>6, <2>2
  <2>. QED BY <2>1, <2>2
<1>8. PublishedOK'
  <2>1. ASSUME NEW d \in Clients, NEW k \in DOMAIN offered'[d] PROVE offered'[d][k] <= count
    BY <1>3, <1>7 DEF OrderOK, PublishedOK
  <2>2. ASSUME NEW i \in DOMAIN ready' PROVE ready'[i][2] <= count
    BY <1>4 DEF OrderOK, PublishedOK
  <2>. QED BY <1>1, <2>1, <2>2 DEF PublishedOK
<1>9. OfferedOK'
  <2>1. ASSUME NEW d \in Clients, NEW k \in DOMAIN offered'[d], NEW m \in DOMAIN offered'[d], k < m
        PROVE  Earlier(author, offered'[d][k], offered'[d][m])
    <3>1. k \in DOMAIN offered[d] /\ offered'[d][k] = offered[d][k]
      <4>1. k \in Nat /\ m \in Nat
        <5>1. CASE d = c
          BY <1>5, <1>6, <5>1
        <5>2. CASE d # c
          <6>1. offered'[d] \in Seq(1..MaxEvents)
            BY <1>6, <5>2 DEF GhostsOK
          <6>2. Len(offered'[d]) \in Nat /\ DOMAIN offered'[d] = 1..Len(offered'[d])
            BY <6>1, LenProperties
          <6>. QED BY <6>2
        <5>. QED BY <5>1, <5>2
      <4>2. ~(m <= k)
        BY <2>1, <4>1
      <4>. QED BY <1>7, <4>2
    <3>2. CASE m \in DOMAIN offered[d] /\ offered'[d][m] = offered[d][m]
      BY <2>1, <3>1, <3>2 DEF OrderOK, OfferedOK, InOrder
    <3>3. CASE d = c /\ offered'[d][m] = e
      BY <1>3, <3>1, <3>3 DEF OrderOK, ReadyOK
    <3>. QED BY <1>7, <3>2, <3>3
  <2>2. \A d \in Clients : InOrder(author, offered'[d]) /\ InOrder(author, taken[d])
    BY <2>1 DEF OrderOK, OfferedOK, InOrder
  <2>. QED BY <1>1, <2>2 DEF OfferedOK, InOrder, Earlier
<1>10. ReadyOK'
  <2>1. ASSUME NEW i \in DOMAIN ready', NEW j \in DOMAIN ready', i < j,
               ready'[i][1] = ready'[j][1]
        PROVE  Earlier(author, ready'[i][2], ready'[j][2])
    <3>1. i + 1 < j + 1
      BY <1>2, <2>1
    <3>. QED BY <1>4, <2>1, <3>1 DEF OrderOK, ReadyOK
  <2>2. ASSUME NEW i \in DOMAIN ready', NEW d \in Clients, NEW k \in DOMAIN offered'[d],
               ready'[i][1] = d
        PROVE  Earlier(author, offered'[d][k], ready'[i][2])
    <3>1. CASE k \in DOMAIN offered[d] /\ offered'[d][k] = offered[d][k]
      BY <1>4, <2>2, <3>1 DEF OrderOK, ReadyOK
    <3>2. CASE d = c /\ offered'[d][k] = e
      BY <1>3, <1>4, <2>2, <3>2 DEF OrderOK, ReadyOK
    <3>. QED BY <1>7, <3>1, <3>2
  <2>. QED BY <1>1, <2>1, <2>2 DEF ReadyOK, Earlier
<1>11. LeftOK'
  <2>1. ASSUME NEW q \in Publishers, NEW m \in DOMAIN left[q], NEW d \in Clients,
               NEW k \in DOMAIN offered'[d], left[q][m] = d
        PROVE  Earlier(author, offered'[d][k], event[q])
    <3>1. CASE k \in DOMAIN offered[d] /\ offered'[d][k] = offered[d][k]
      BY <2>1, <3>1 DEF OrderOK, LeftOK
    <3>2. CASE d = c /\ offered'[d][k] = e
      BY <1>3, <2>1, <3>2 DEF OrderOK, LeftOK
    <3>. QED BY <1>7, <3>1, <3>2
  <2>2. ASSUME NEW q \in Publishers, NEW m \in DOMAIN left[q], NEW i \in DOMAIN ready',
               ready'[i][1] = left[q][m]
        PROVE  Earlier(author, ready'[i][2], event[q])
    BY <1>4, <2>2 DEF OrderOK, LeftOK
  <2>. QED BY <1>1, <2>1, <2>2 DEF LeftOK, Earlier
<1>. QED BY <1>8, <1>9, <1>10, <1>11 DEF OrderOK

\* A client takes the events in the order in which they were offered.
LEMMA TakeInOrder ==
  ASSUME TypeOK, GhostsOK, QueuesOK, OrderOK, NEW c \in Clients, Take(c)
  PROVE  OrderOK'
<1>1. /\ taken' = [taken EXCEPT ![c] = Append(taken[c], Head(buffer[c]))]
      /\ buffer[c] # <<>>
      /\ UNCHANGED <<ready, offered, event, left, count, author>>
  BY DEF Take, Set, busVars
<1>2. /\ Len(taken[c]) \in Nat /\ taken'[c] = Append(taken[c], Head(buffer[c]))
      /\ DOMAIN taken[c] = 1..Len(taken[c]) /\ DOMAIN taken'[c] = 1..Len(taken[c]) + 1
      /\ \A i \in 1..Len(taken[c]) : taken'[c][i] = taken[c][i]
      /\ taken'[c][Len(taken[c]) + 1] = Head(buffer[c])
      /\ \A i \in 1..Len(taken[c]) + 1 : i \in 1..Len(taken[c]) \/ i = Len(taken[c]) + 1
  <2>1. taken'[c] = Append(taken[c], Head(buffer[c])) /\ taken[c] \in Seq(1..MaxEvents)
    BY <1>1 DEF GhostsOK
  <2>2. Head(buffer[c]) \in 1..MaxEvents
    BY <1>1, TailFacts DEF TypeOK
  <2>. QED BY <2>1, <2>2, AppendFacts
<1>. DEFINE n == Len(offered[c])  q == Len(buffer[c])
<1>3. /\ n - q + 1 \in 1..n /\ Head(buffer[c]) = offered[c][n - q + 1]
      /\ n \in Nat /\ q \in Nat /\ DOMAIN offered[c] = 1..n
  <2>1. offered[c] \in Seq(1..MaxEvents) /\ buffer[c] \in Seq(1..MaxEvents) /\ taken[c] \in Seq(1..MaxEvents)
    BY DEF TypeOK, GhostsOK
  <2>2. QueueOK(offered[c], buffer[c], taken[c])
    BY DEF QueuesOK
  <2>3. n - q + 1 \in 1..n /\ Head(buffer[c]) = offered[c][n - q + 1]
    BY <1>1, <2>1, <2>2, TakeKeeps
  <2>4. n \in Nat /\ q \in Nat /\ DOMAIN offered[c] = 1..n
    BY <2>1, LenProperties
  <2>. QED BY <2>3, <2>4
<1>4. ASSUME NEW i \in 1..Len(taken[c]) PROVE Earlier(author, taken[c][i], Head(buffer[c]))
  <2>1. QueueOK(offered[c], buffer[c], taken[c]) /\ i \in DOMAIN taken[c]
    BY <1>2 DEF QueuesOK
  <2>2. PICK k \in 1..(n - q) : taken[c][i] = offered[c][k]
    BY <2>1 DEF QueueOK
  <2>. HIDE DEF n, q
  <2>3. k \in 1..n /\ k < n - q + 1
    BY <1>3
  <2>4. InOrder(author, offered[c])
    BY DEF OrderOK, OfferedOK
  <2>5. Earlier(author, offered[c][k], offered[c][n - q + 1])
    BY <1>3, <2>3, <2>4 DEF InOrder
  <2>. QED BY <1>3, <2>2, <2>5
<1>5. InOrder(author, taken'[c])
  <2>1. ASSUME NEW i \in DOMAIN taken'[c], NEW j \in DOMAIN taken'[c], i < j
        PROVE  Earlier(author, taken'[c][i], taken'[c][j])
    <3>1. i \in 1..Len(taken[c]) /\ taken'[c][i] = taken[c][i]
      BY <1>2, <2>1
    <3>2. CASE j \in 1..Len(taken[c])
      BY <1>2, <2>1, <3>1, <3>2 DEF OrderOK, OfferedOK, InOrder
    <3>3. CASE j = Len(taken[c]) + 1
      BY <1>2, <1>4, <3>1, <3>3
    <3>. QED BY <1>2, <3>2, <3>3
  <2>. QED BY <2>1 DEF InOrder
<1>6. ASSUME NEW d \in Clients PROVE InOrder(author, taken'[d])
  <2>1. CASE d = c
    BY <1>5, <2>1
  <2>2. CASE d # c
    <3>1. taken'[d] = taken[d]
      BY <1>1, <2>2 DEF GhostsOK
    <3>. QED BY <3>1 DEF OrderOK, OfferedOK
  <2>. QED BY <2>1, <2>2
<1>7. OfferedOK'
  BY <1>1, <1>6 DEF OrderOK, OfferedOK, InOrder, Earlier
<1>8. PublishedOK' /\ ReadyOK' /\ LeftOK'
  BY <1>1 DEF OrderOK, PublishedOK, ReadyOK, LeftOK, Earlier
<1>. QED BY <1>7, <1>8 DEF OrderOK

\* No event overtakes an earlier one of its thread.
LEMMA OrderKept ==
  ASSUME TypeOK, GhostsOK, HandlersOK, PublishersOK, QueuesOK, OrderOK, [Next]_vars
  PROVE  OrderOK'
<1>. USE DEF busVars, queueVars, clientVars
<1>1. CASE UNCHANGED <<offered, taken, ready, left, event, count, author>>
  BY <1>1 DEF OrderOK, PublishedOK, OfferedOK, InOrder, ReadyOK, LeftOK, Earlier
<1>2. ASSUME NEW p \in Publishers, PublishReturns(p) PROVE OrderOK'
  <2>1. /\ event' = [event EXCEPT ![p] = 0] /\ left[p] = <<>>
        /\ UNCHANGED <<offered, taken, ready, left, count, author>>
    BY <1>2 DEF PublishReturns, Set
  <2>2. \A q \in Publishers : \A m \in DOMAIN left[q] : event'[q] = event[q]
    <3>1. ASSUME NEW q \in Publishers, NEW m \in DOMAIN left[q] PROVE q # p
      BY <2>1
    <3>. QED BY <2>1, <3>1 DEF TypeOK
  <2>3. LeftOK'
    BY <2>1, <2>2 DEF OrderOK, LeftOK, Earlier
  <2>4. PublishedOK' /\ OfferedOK' /\ ReadyOK'
    BY <2>1 DEF OrderOK, PublishedOK, OfferedOK, InOrder, ReadyOK, Earlier
  <2>. QED BY <2>3, <2>4 DEF OrderOK
<1>3. ASSUME NEW p \in Publishers, Bus(p) PROVE OrderOK'
  BY <1>2, <1>3, PublishInOrder, ForwardInOrder DEF Bus
<1>4. CASE LoopCloses \/ UNCHANGED vars
  BY <1>1, <1>4 DEF LoopCloses, vars
<1>5. ASSUME NEW c \in Clients, Quiet(c) \/ Introduces(c) \/ Subscribes(c) \/ Leaves(c)
      PROVE  OrderOK'
  BY <1>1, <1>5
  DEF Quiet, Introduces, Subscribes, Leaves, Sent, Accept, SendFails, StreamAbandoned,
      Answer, StreamStarts, SocketSubscribe, StreamSubscribe, SocketEnds, StreamEnds
<1>. QED BY <1>3, <1>4, <1>5, ConnectionSteps, OfferInOrder, TakeInOrder DEF Next

-----------------------------------------------------------------------------
(* Nothing a connected client is owed gets lost *)

\* A new event is handed to every handler of the moment.
LEMMA PublishReaches ==
  ASSUME TypeOK, HandlersOK, OwedOK, NEW p \in Publishers, Publish(p)
  PROVE  OwedOK'
<1>1. /\ count' = count + 1 /\ event[p] = 0
      /\ event' = [event EXCEPT ![p] = count + 1]
      /\ left' = [left EXCEPT ![p] = handlers]
      /\ UNCHANGED <<ready, offered, loop, conn, since>>
  BY DEF Publish, Set, queueVars, clientVars
<1>2. count \in Nat /\ event'[p] = count + 1 /\ left'[p] = handlers
  BY <1>1 DEF TypeOK
<1>3. \A q \in Publishers : q # p => event'[q] = event[q] /\ left'[q] = left[q]
  BY <1>1 DEF TypeOK
<1>4. ASSUME NEW c \in Clients, NEW e \in 1..count', Owed(c, e)' PROVE UnderWay(c, e)'
  <2>1. CASE e = count + 1
    <3>1. c \in Range(handlers)
      BY <1>1, <1>4 DEF Owed, HandlersOK
    <3>2. \E m \in DOMAIN left'[p] : left'[p][m] = c
      BY <1>2, <3>1 DEF Range
    <3>. QED BY <1>2, <2>1, <3>2 DEF UnderWay
  <2>2. CASE e # count + 1
    <3>1. e \in 1..count
      BY <1>1, <1>2, <2>2
    <3>2. UnderWay(c, e)
      BY <1>1, <1>4, <3>1 DEF OwedOK, Owed
    <3>3. \A q \in Publishers : event[q] = e => q # p
      BY <1>1, <3>1
    <3>. QED BY <1>1, <1>3, <3>2, <3>3 DEF UnderWay
  <2>. QED BY <2>1, <2>2
<1>. QED BY <1>4 DEF OwedOK

\* While the loop runs, what is handed over waits there.
LEMMA ForwardReaches ==
  ASSUME TypeOK, GhostsOK, PublishersOK, OrderOK, OwedOK, NEW p \in Publishers, Forward(p)
  PROVE  OwedOK'
<1>. DEFINE pair == <<Head(left[p]), event[p]>>
<1>1. /\ left' = [left EXCEPT ![p] = Tail(left[p])]
      /\ ready' = IF loop = "running" THEN Append(ready, pair) ELSE ready
      /\ left[p] # <<>> /\ left[p] \in Seq(Clients)
      /\ UNCHANGED <<event, count, offered, loop, conn, since>>
  BY DEF Forward, Set, clientVars, TypeOK
<1>2. /\ Head(left[p]) \in Clients /\ Head(left[p]) = left[p][1]
      /\ Len(left[p]) \in Nat \ {0} /\ DOMAIN left[p] = 1..Len(left[p])
      /\ DOMAIN Tail(left[p]) = 1..Len(left[p]) - 1
      /\ \A m \in 1..Len(left[p]) - 1 : Tail(left[p])[m] = left[p][m + 1]
  BY <1>1, TailFacts
<1>3. event[p] \in 1..count /\ count \in Nat
  BY <1>2, Underway
<1>4. \A q \in Publishers : left'[q] = IF q = p THEN Tail(left[p]) ELSE left[q]
  BY <1>1 DEF TypeOK
<1>5. loop = "running" =>
         /\ \E i \in DOMAIN ready' : ready'[i] = pair
         /\ \A i \in DOMAIN ready : i \in DOMAIN ready' /\ ready'[i] = ready[i]
  <2>1. ready \in Seq(Clients \X (1..MaxEvents)) /\ pair \in Clients \X (1..MaxEvents)
    BY <1>2, <1>3, EventsAssumption DEF TypeOK
  <2>. HIDE DEF pair
  <2>2. CASE loop = "running"
    <3>1. /\ Len(ready) \in Nat /\ DOMAIN ready = 1..Len(ready)
          /\ DOMAIN ready' = 1..Len(ready) + 1
          /\ \A j \in 1..Len(ready) : ready'[j] = ready[j]
          /\ ready'[Len(ready) + 1] = pair
      BY <1>1, <2>1, <2>2, AppendFacts
    <3>2. Len(ready) + 1 \in DOMAIN ready' /\ DOMAIN ready \subseteq DOMAIN ready'
      BY <3>1
    <3>. QED BY <3>1, <3>2
  <2>. QED BY <2>2
<1>6. ASSUME NEW c \in Clients, NEW e \in 1..count, Owed(c, e)' PROVE UnderWay(c, e)'
  <2>1. UnderWay(c, e) /\ loop = "running"
    BY <1>1, <1>6 DEF OwedOK, Owed
  <2>2. CASE \E k \in DOMAIN offered[c] : offered[c][k] = e
    BY <1>1, <2>2 DEF UnderWay
  <2>3. CASE \E i \in DOMAIN ready : ready[i] = <<c, e>>
    BY <1>5, <2>1, <2>3 DEF UnderWay
  <2>4. CASE \E q \in Publishers : event[q] = e /\ \E m \in DOMAIN left[q] : left[q][m] = c
    <3>1. PICK q \in Publishers : event[q] = e /\ \E m \in DOMAIN left[q] : left[q][m] = c
      BY <2>4
    <3>2. PICK m \in DOMAIN left[q] : left[q][m] = c
      BY <3>1
    <3>3. CASE q # p
      BY <1>1, <1>4, <3>1, <3>2, <3>3 DEF UnderWay
    <3>4. CASE q = p /\ m = 1
      <4>1. pair = <<c, e>>
        BY <1>2, <3>1, <3>2, <3>4
      <4>. QED BY <1>5, <2>1, <4>1 DEF UnderWay
    <3>5. CASE q = p /\ m # 1
      <4>1. m - 1 \in 1..Len(left[p]) - 1 /\ (m - 1) + 1 = m
        BY <1>2, <3>5
      <4>2. m - 1 \in DOMAIN left'[q] /\ left'[q][m - 1] = c
        BY <1>2, <1>4, <3>2, <3>5, <4>1
      <4>. QED BY <1>1, <3>1, <4>2 DEF UnderWay
    <3>. QED BY <3>3, <3>4, <3>5
  <2>. QED BY <2>1, <2>2, <2>3, <2>4 DEF UnderWay
<1>. QED BY <1>1, <1>6 DEF OwedOK

\* What the loop takes up is offered.
LEMMA OfferReaches ==
  ASSUME TypeOK, GhostsOK, OwedOK, RunReady
  PROVE  OwedOK'
<1>1. PICK c \in Clients, e \in 1..MaxEvents :
         /\ ready # <<>> /\ Head(ready) = <<c, e>> /\ ready' = Tail(ready)
         /\ offered' = [offered EXCEPT ![c] = Append(offered[c], e)]
         /\ UNCHANGED <<event, left, count, loop, conn, since>>
  BY ReadyOffers
<1>2. /\ Len(ready) \in Nat \ {0} /\ ready[1] = <<c, e>>
      /\ DOMAIN ready = 1..Len(ready) /\ DOMAIN ready' = 1..Len(ready) - 1
      /\ \A i \in 1..Len(ready) - 1 : ready'[i] = ready[i + 1]
  <2>1. ready \in Seq(Clients \X (1..MaxEvents))
    BY DEF TypeOK
  <2>. QED BY <1>1, <2>1, TailFacts
<1>3. /\ Len(offered[c]) \in Nat
      /\ DOMAIN offered[c] = 1..Len(offered[c]) /\ DOMAIN offered'[c] = 1..Len(offered[c]) + 1
      /\ \A k \in 1..Len(offered[c]) : offered'[c][k] = offered[c][k]
      /\ offered'[c][Len(offered[c]) + 1] = e
  <2>1. offered[c] \in Seq(1..MaxEvents) /\ offered'[c] = Append(offered[c], e)
    BY <1>1 DEF GhostsOK
  <2>. QED BY <2>1, AppendFacts
<1>4. \A d \in Clients : d # c => offered'[d] = offered[d]
  BY <1>1 DEF GhostsOK
<1>5. ASSUME NEW d \in Clients, NEW f \in 1..count, Owed(d, f)' PROVE UnderWay(d, f)'
  <2>1. UnderWay(d, f)
    BY <1>1, <1>5 DEF OwedOK, Owed
  <2>2. ASSUME NEW k \in DOMAIN offered[d], offered[d][k] = f
        PROVE  k \in DOMAIN offered'[d] /\ offered'[d][k] = f
    BY <1>3, <1>4, <2>2
  <2>3. ASSUME NEW i \in DOMAIN ready, ready[i] = <<d, f>> PROVE UnderWay(d, f)'
    <3>1. CASE i = 1
      <4>1. d = c /\ f = e /\ Len(offered[c]) + 1 \in DOMAIN offered'[c]
        BY <1>2, <1>3, <2>3, <3>1
      <4>. QED BY <1>3, <4>1 DEF UnderWay
    <3>2. CASE i # 1
      <4>1. i - 1 \in 1..Len(ready) - 1 /\ (i - 1) + 1 = i
        BY <1>2, <3>2
      <4>2. i - 1 \in DOMAIN ready' /\ ready'[i - 1] = <<d, f>>
        BY <1>2, <2>3, <4>1
      <4>. QED BY <4>2 DEF UnderWay
    <3>. QED BY <3>1, <3>2
  <2>. QED BY <1>1, <2>1, <2>2, <2>3 DEF UnderWay
<1>. QED BY <1>1, <1>5 DEF OwedOK

\* What is owed stays underway, and a client is owed nothing that was published
\* before it knew of its connection.
LEMMA OwedKept ==
  ASSUME TypeOK, GhostsOK, HandlersOK, PublishersOK, OrderOK, OwedOK, [Next]_vars
  PROVE  OwedOK'
<1>. USE DEF Set, busVars, queueVars, clientVars
<1>1. ASSUME UNCHANGED <<offered, ready, left, event, count>>,
             \A c \in Clients, e \in 1..count : Owed(c, e)' => Owed(c, e)
      PROVE  OwedOK'
  <2>1. ASSUME NEW c \in Clients, NEW e \in 1..count, Owed(c, e)' PROVE UnderWay(c, e)'
    <3>1. UnderWay(c, e)
      BY <1>1, <2>1 DEF OwedOK
    <3>. QED BY <1>1, <3>1 DEF UnderWay
  <2>. QED BY <1>1, <2>1 DEF OwedOK
<1>2. CASE UNCHANGED <<offered, ready, left, event, count, loop, conn, since>>
  BY <1>1, <1>2 DEF Owed
<1>3. ASSUME NEW p \in Publishers, PublishReturns(p) PROVE OwedOK'
  <2>1. /\ event' = [event EXCEPT ![p] = 0] /\ left[p] = <<>>
        /\ UNCHANGED <<offered, ready, left, count, loop, conn, since>>
    BY <1>3 DEF PublishReturns
  <2>2. \A q \in Publishers : \A m \in DOMAIN left[q] : event'[q] = event[q]
    <3>1. ASSUME NEW q \in Publishers, NEW m \in DOMAIN left[q] PROVE q # p
      BY <2>1
    <3>. QED BY <2>1, <3>1 DEF TypeOK
  <2>3. ASSUME NEW c \in Clients, NEW e \in 1..count, Owed(c, e)' PROVE UnderWay(c, e)'
    <3>1. UnderWay(c, e)
      BY <2>1, <2>3 DEF OwedOK, Owed
    <3>. QED BY <2>1, <2>2, <3>1 DEF UnderWay
  <2>. QED BY <2>1, <2>3 DEF OwedOK
<1>4. CASE LoopCloses
  BY <1>4 DEF LoopCloses, OwedOK, Owed
<1>5. ASSUME NEW c \in Clients, Take(c) PROVE OwedOK'
  BY <1>2, <1>5 DEF Take
<1>6. ASSUME NEW c \in Clients, Quiet(c) \/ Subscribes(c) \/ Leaves(c) PROVE OwedOK'
  <2>1. UNCHANGED <<offered, ready, left, event, count, loop, since>>
    BY <1>6
    DEF Quiet, Subscribes, Leaves, Sent, Accept, SendFails, StreamAbandoned,
        SocketSubscribe, StreamSubscribe, SocketEnds, StreamEnds
  <2>2. \A d \in Clients : d # c => conn'[d] = conn[d]
    BY <1>6
    DEF Quiet, Subscribes, Leaves, Sent, Accept, SendFails, StreamAbandoned,
        SocketSubscribe, StreamSubscribe, SocketEnds, StreamEnds, TypeOK
  <2>3. conn'[c] = "open" => conn[c] = "open" \/ since[c] = None
    BY <1>6
    DEF Quiet, Subscribes, Leaves, Sent, Accept, SendFails, StreamAbandoned,
        SocketSubscribe, StreamSubscribe, SocketEnds, StreamEnds, TypeOK, HandlersOK
  <2>4. \A d \in Clients : conn'[d] = "open" /\ since[d] # None => conn[d] = "open"
    BY <2>2, <2>3
  <2>. QED BY <1>1, <2>1, <2>4 DEF Owed, None
<1>7. ASSUME NEW c \in Clients, Introduces(c) PROVE OwedOK'
  <2>1. /\ UNCHANGED <<offered, ready, left, event, count, loop>>
        /\ since' = [since EXCEPT ![c] = count]
        /\ \A d \in Clients : d # c => conn'[d] = conn[d]
    BY <1>7 DEF Introduces, Answer, StreamStarts, TypeOK
  <2>2. since'[c] = count /\ \A d \in Clients : d # c => since'[d] = since[d]
    BY <2>1 DEF TypeOK
  <2>3. ASSUME NEW d \in Clients, NEW e \in 1..count, Owed(d, e)' PROVE Owed(d, e)
    <3>1. d # c
      BY <2>2, <2>3 DEF Owed, TypeOK
    <3>. QED BY <2>1, <2>2, <2>3, <3>1 DEF Owed, None
  <2>. QED BY <1>1, <2>1, <2>3
<1>8. CASE UNCHANGED vars
  BY <1>2, <1>8 DEF vars
<1>. QED BY <1>3, <1>4, <1>5, <1>6, <1>7, <1>8, ConnectionSteps,
            PublishReaches, ForwardReaches, OfferReaches DEF Next, Bus

-----------------------------------------------------------------------------
(* The theorems *)

LEMMA InitIInv == ASSUME Init PROVE IInv
<1>1. TypeOK /\ GhostsOK
  <2>1. /\ handlers = <<>> /\ ready = <<>> /\ author = <<>> /\ count = 0 /\ loop = "running"
        /\ event = [p \in Publishers |-> 0] /\ left = [p \in Publishers |-> <<>>]
        /\ buffer = [c \in Clients |-> <<>>] /\ offered = [c \in Clients |-> <<>>]
        /\ taken = [c \in Clients |-> <<>>] /\ conn = [c \in Clients |-> "none"]
        /\ task = [c \in Clients |-> "none"] /\ since = [c \in Clients |-> None]
    BY DEF Init
  <2>2. None \in 0..None /\ 0 \in 0..MaxEvents /\ Buffer \in Nat
    BY EventsAssumption, BufferAssumption DEF None
  <2>3. \A S : <<>> \in Seq(S)
    OBVIOUS
  <2>4. Len(<<>>) = 0
    OBVIOUS
  <2>5. \A c \in Clients : Len(buffer[c]) <= Buffer
    BY <2>1, <2>2, <2>4
  <2>. QED BY <2>1, <2>2, <2>3, <2>4, <2>5 DEF TypeOK, GhostsOK
<1>2. HandlersOK /\ PublishersOK
  BY DEF Init, HandlersOK, PublishersOK, Range
<1>3. QueuesOK
  <2>1. \A c \in Clients : buffer[c] = <<>> /\ offered[c] = <<>> /\ taken[c] = <<>>
    BY DEF Init
  <2>2. QueueOK(<<>>, <<>>, <<>>)
    BY DEF QueueOK
  <2>. QED BY <2>1, <2>2 DEF QueuesOK
<1>4. OrderOK
  <2>1. /\ \A c \in Clients : offered[c] = <<>> /\ taken[c] = <<>>
        /\ ready = <<>> /\ \A p \in Publishers : left[p] = <<>>
    BY DEF Init
  <2>2. DOMAIN <<>> = {}
    OBVIOUS
  <2>. QED BY <2>1, <2>2 DEF OrderOK, PublishedOK, OfferedOK, InOrder, ReadyOK, LeftOK
<1>5. OwedOK
  BY DEF Init, OwedOK, Owed
<1>. QED BY <1>1, <1>2, <1>3, <1>4, <1>5 DEF IInv

LEMMA NextIInv == ASSUME IInv, [Next]_vars PROVE IInv'
<1>. USE DEF IInv
<1>1. TypeOK' /\ GhostsOK'
  BY TypesKept
<1>2. HandlersOK'
  BY <1>1, HandlersKept
<1>3. PublishersOK'
  BY PublishersKept
<1>4. QueuesOK'
  BY QueuesKept
<1>5. OrderOK'
  BY OrderKept
<1>6. OwedOK'
  BY OwedKept
<1>. QED BY <1>1, <1>2, <1>3, <1>4, <1>5, <1>6

\* The invariant above holds, of every interleaving of the threads that publish,
\* the event loop and the endpoints.
THEOREM Invariance == Spec => []IInv
<1>1. Init => IInv
  BY InitIInv
<1>2. IInv /\ [Next]_vars => IInv'
  BY NextIInv
<1>. QED BY <1>1, <1>2, PTL DEF Spec

\* A client is given the events in the order of each thread and without gaps but
\* the oldest, its queue keeps its limit, and a connection that has ended is not
\* carried along: what offer(), the tasks and the finally clauses see to.
THEOREM DeliversInOrderHolds == Spec => []DeliversInOrder
<1>1. ASSUME IInv PROVE DeliversInOrder
  <2>1. TypeOK
    BY <1>1 DEF IInv
  <2>2. OldestDropped
    <3>1. ASSUME NEW c \in Clients
          PROVE  LET n == Len(offered[c])  q == Len(buffer[c])
                 IN  /\ buffer[c] = SubSeq(offered[c], n - q + 1, n)
                     /\ q < Buffer /\ n > q =>
                           taken[c] # <<>> /\ Last(taken[c]) = offered[c][n - q]
      <4>. DEFINE n == Len(offered[c])  q == Len(buffer[c])  b == SubSeq(offered[c], n - q + 1, n)
      <4>1. QueueOK(offered[c], buffer[c], taken[c])
        BY <1>1 DEF IInv, QueuesOK
      <4>2. /\ offered[c] \in Seq(1..MaxEvents) /\ buffer[c] \in Seq(1..MaxEvents)
            /\ n \in Nat /\ q \in Nat
        BY <1>1 DEF IInv, TypeOK, GhostsOK
      <4>3. q <= n /\ \A i \in 1..q : buffer[c][i] = offered[c][n - q + i]
        BY <4>1 DEF QueueOK
      <4>4. \A i \in 1..n : offered[c][i] \in 1..MaxEvents
        BY <4>2, ElementOfSeq
      <4>. HIDE DEF n, q
      <4>5. n - q + 1 \in Int /\ n \in Int /\ (n - q + 1)..n \subseteq 1..n
        BY <4>2, <4>3
      <4>6. /\ b \in Seq(1..MaxEvents)
            /\ Len(b) = IF n - q + 1 <= n THEN n - (n - q + 1) + 1 ELSE 0
            /\ \A i \in 1..n - (n - q + 1) + 1 : b[i] = offered[c][n - q + 1 + i - 1]
        BY <4>4, <4>5, SubSeqProperties
      <4>. HIDE DEF b
      <4>7. Len(b) = q
        BY <4>2, <4>3, <4>6
      <4>8. ASSUME NEW i \in 1..q PROVE buffer[c][i] = b[i]
        <5>1. i \in 1..n - (n - q + 1) + 1 /\ n - q + 1 + i - 1 = n - q + i
          BY <4>2, <4>3
        <5>. QED BY <4>3, <4>6, <5>1
      <4>9. buffer[c] = b
        BY <4>2, <4>6, <4>7, <4>8, SeqEqual DEF q
      <4>. QED BY <4>1, <4>9 DEF QueueOK, Last, n, q, b
    <3>. QED BY <3>1 DEF OldestDropped
  <2>3. SameThreadInOrder
    BY <1>1 DEF IInv, OrderOK, OfferedOK, InOrder, Earlier, SameThreadInOrder
  <2>4. GoneIsUnsubscribed
    BY <1>1 DEF IInv, HandlersOK, GoneIsUnsubscribed
  <2>. QED BY <2>1, <2>2, <2>3, <2>4 DEF DeliversInOrder
<1>. QED BY <1>1, Invariance, PTL

\* A client that knows of its connection misses no event whose publication begins
\* later: the endpoints subscribe before they answer, and publish() hands every
\* event to the loop before it returns.
THEOREM ConnectedMissesNothingHolds == Spec => []ConnectedMissesNothing
<1>1. ASSUME IInv PROVE ConnectedMissesNothing
  <2>1. ASSUME NEW c \in Clients, NEW e \in 1..count,
               loop = "running", conn[c] = "open", since[c] # None, since[c] < e,
               \A p \in Publishers : event[p] # e
        PROVE  e \in Range(offered[c]) \cup Events(ready, c)
    <3>1. UnderWay(c, e)
      BY <1>1, <2>1 DEF IInv, OwedOK, Owed
    <3>2. CASE \E k \in DOMAIN offered[c] : offered[c][k] = e
      BY <3>2 DEF Range
    <3>3. CASE \E i \in DOMAIN ready : ready[i] = <<c, e>>
      BY <3>3 DEF Events
    <3>. QED BY <2>1, <3>1, <3>2, <3>3 DEF UnderWay
  <2>. QED BY <2>1 DEF ConnectedMissesNothing
<1>. QED BY <1>1, Invariance, PTL
=============================================================================
