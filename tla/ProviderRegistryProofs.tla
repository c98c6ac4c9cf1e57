------------------------- MODULE ProviderRegistryProofs -------------------------
(***************************************************************************)
(* Theorems about the provider registry, for any number of requests, any   *)
(* providers and priority, and any number of changes of the machine.       *)
(***************************************************************************)
EXTENDS ProviderRegistry, SequenceTheorems, WellFoundedInduction, TLAPS

-----------------------------------------------------------------------------
(* The inductive invariant *)

Holding == {"availability", "call", "load", "loaded"}
AtName == {"store", "read"} \cup Holding
Pcs == {"idle", "check", "done"} \cup AtName

WorldTypeOK ==
    /\ classes \subseteq Names /\ order \in Seq(Names) /\ stored \in [Names -> Nat]
    /\ made \in Nat /\ unclosed \subseteq Nat /\ loaded \subseteq Nat
    /\ up \in [Names -> BOOLEAN]
    /\ close \in {"open", "iterating", "clearing", "raised", "done"}
    /\ pos \in Nat /\ size \in Nat
    /\ replaced \subseteq Names /\ excused \subseteq Nat
    /\ began \in Nat /\ ended \in Nat

RequestTypeOK ==
    /\ pc \in [Threads -> Pcs]
    /\ op \in [Threads -> {"speak", "status", "report", "voices", None}]
    /\ pick \in [Threads -> Names \cup {"auto", "all", None}]
    /\ todo \in [Threads -> Seq(Names)] /\ inst \in [Threads -> Nat]
    /\ shown \in [Threads -> SUBSET Names] /\ out \in [Threads -> Outcomes \cup {None}]
    /\ down \in [Threads -> SUBSET Names]

TypeOK == WorldTypeOK /\ RequestTypeOK

Once(s) == \A i, j \in DOMAIN s : s[i] = s[j] => i = j

\* Each name is in the registry once, with an instance that was constructed.
DictOK == Once(order) /\ \A n \in Keys : stored[n] \in 1..made

\* Only a request that reached a provider is somewhere in get() or in the provider,
\* and only one that is over has an outcome.
RequestOK(t) ==
    /\ pc[t] \in AtName => todo[t] # <<>>
    /\ pc[t] \in Holding => inst[t] \in 1..made
    /\ pc[t] = "availability" => op[t] # "voices"
    /\ pc[t] # "done" => out[t] = None
    /\ out[t] \in {"clip", "SynthesisError"} => todo[t] # <<>>

Raced(n) == close = "done" \/ n \in replaced

\* An engine is there until close takes it, and an instance until the registry is
\* emptied or its provider registered anew.
ThereOK(t) ==
    /\ pc[t] = "loaded" /\ close = "open" => inst[t] \in loaded
    /\ pc[t] = "read" => Name(t) \in Keys \/ Raced(Name(t))
    /\ out[t] = "KeyError" => Raced(Name(t))

Started(t, what, which) == pc[t] # "idle" /\ op[t] = what /\ pick[t] = which

DownOK(t) == Started(t, "speak", "auto") \/ Started(t, "voices", "all") => Unusable \subseteq down[t]

\* What an auto request still has to try is the rest of the priority, and what it
\* passed over was unusable.
Rest(names, tail, bad) ==
    LET past == Len(names) - Len(tail)
    IN  /\ past \in Nat
        /\ \A i \in 1..Len(tail) : tail[i] = names[past + i]
        /\ \A j \in 1..past : names[j] \in bad

AutoOK(t) == Started(t, "speak", "auto") => Rest(Priority, todo[t], down[t])

\* What a listing owes is shown or still to be tried.
Owed(t) == Names \ (down[t] \cup Crashing \cup replaced)

ListOK(t) ==
    Started(t, "voices", "all") =>
        /\ pc[t] = "done" => todo[t] = <<>>
        /\ close = "open" => Owed(t) \subseteq shown[t] \cup Range(todo[t])

ThreadOK(t) == RequestOK(t) /\ ThereOK(t) /\ DownOK(t) /\ AutoOK(t) /\ ListOK(t)

ThreadsOK == \A t \in Threads : ThreadOK(t)

\* What close has released, or need not have.
Released(i) == i > began \/ i \notin unclosed \cup loaded \/ i \in excused

\* Until the registry is emptied an instance is in it or was replaced, and close has
\* released what its iteration has passed.
CloseOK ==
    /\ close \in {"open", "iterating"} =>
          \A i \in 1..made : i \in excused \/ \E n \in Keys : stored[n] = i
    /\ close # "open" => began <= made
    /\ close = "iterating" =>
          /\ size <= Len(order)
          /\ Len(order) > size => made > began
          /\ \A k \in DOMAIN order : k < pos => Released(stored[order[k]])
    /\ close \in {"clearing", "done"} => \A i \in 1..made : Released(i)
    /\ close = "raised" => ended > began

IInv == TypeOK /\ DictOK /\ ThreadsOK /\ CloseOK

-----------------------------------------------------------------------------
(* Sequences *)

\* list.remove() on a list without duplicates takes the one value out.
LEMMA RemoveFirstOnce ==
  ASSUME NEW S, NEW s \in Seq(S), NEW e,
         \A i, j \in DOMAIN s : s[i] = s[j] => i = j
  PROVE  /\ RemoveFirst(s, e) \in Seq(S)
         /\ \A x : x \in Range(RemoveFirst(s, e)) <=> x \in Range(s) /\ x # e
         /\ \A i, j \in DOMAIN RemoveFirst(s, e) :
               RemoveFirst(s, e)[i] = RemoveFirst(s, e)[j] => i = j
<1>1. DOMAIN s = 1..Len(s) /\ Len(s) \in Nat
  OBVIOUS
<1>2. CASE ~ \E i \in 1..Len(s) : s[i] = e
  BY <1>1, <1>2 DEF RemoveFirst, Range
<1>3. CASE \E i \in 1..Len(s) : s[i] = e
  <2>1. PICK k \in 1..Len(s) : s[k] = e
    BY <1>3
  <2>. DEFINE I == {i \in 1..Len(s) : s[i] = e}
  <2>2. I = {k}
    BY <1>1, <2>1
  <2>3. SelectInSeq(s, LAMBDA v : v = e) = k
    <3>1. SelectInSeq(s, LAMBDA v : v = e) = IF I # {} THEN Min(I) ELSE 0
      BY DEF SelectInSeq
    <3>2. Min({k}) = k
      BY DEF Min
    <3>. QED BY <2>2, <3>1, <3>2
  <2>. DEFINE r == RemoveFirst(s, e)
  <2>4. r = SubSeq(s, 1, k - 1) \o SubSeq(s, k + 1, Len(s))
    BY <1>3, <2>3 DEF RemoveFirst, RemoveAt
  <2>. DEFINE a == SubSeq(s, 1, k - 1)
              b == SubSeq(s, k + 1, Len(s))
  <2>5. /\ a \in Seq(S) /\ Len(a) = k - 1 /\ \A i \in 1..k - 1 : a[i] = s[i]
        /\ b \in Seq(S) /\ Len(b) = Len(s) - k /\ \A i \in 1..Len(s) - k : b[i] = s[k + i]
    <3>1. \A i \in 1..Len(s) : s[i] \in S
      OBVIOUS
    <3>2. 1..(k - 1) \subseteq 1..Len(s) /\ (k + 1)..Len(s) \subseteq 1..Len(s)
      BY <1>1, <2>1
    <3>3. /\ a \in Seq(S) /\ Len(a) = IF 1 <= k - 1 THEN (k - 1) - 1 + 1 ELSE 0
          /\ \A i \in 1..((k - 1) - 1 + 1) : a[i] = s[1 + i - 1]
      BY <2>1, <3>1, <3>2, SubSeqProperties
    <3>4. /\ b \in Seq(S)
          /\ Len(b) = IF k + 1 <= Len(s) THEN Len(s) - (k + 1) + 1 ELSE 0
          /\ \A i \in 1..(Len(s) - (k + 1) + 1) : b[i] = s[(k + 1) + i - 1]
      BY <1>1, <2>1, <3>1, <3>2, SubSeqProperties
    <3>. HIDE DEF a, b
    <3>5. Len(a) = k - 1 /\ Len(b) = Len(s) - k
      <4>1. k \in Int /\ Len(s) \in Int /\ 1 <= k /\ k <= Len(s)
        BY <1>1, <2>1
      <4>2. Len(a) = IF 1 <= k - 1 THEN (k - 1) - 1 + 1 ELSE 0
        BY <3>3
      <4>3. Len(b) = IF k + 1 <= Len(s) THEN Len(s) - (k + 1) + 1 ELSE 0
        BY <3>4
      <4>4. Len(a) = k - 1
        BY <4>1, <4>2
      <4>5. Len(b) = Len(s) - k
        BY <4>1, <4>3
      <4>. QED BY <4>4, <4>5
    <3>6. ASSUME NEW i \in 1..k - 1 PROVE a[i] = s[i]
      <4>1. i \in 1..((k - 1) - 1 + 1) /\ 1 + i - 1 = i
        BY <2>1
      <4>. QED BY <3>3, <4>1
    <3>7. ASSUME NEW i \in 1..Len(s) - k PROVE b[i] = s[k + i]
      <4>1. i \in 1..(Len(s) - (k + 1) + 1) /\ (k + 1) + i - 1 = k + i
        BY <1>1, <2>1
      <4>. QED BY <3>4, <4>1
    <3>. QED BY <3>3, <3>4, <3>5, <3>6, <3>7
  <2>. HIDE DEF a, b
  <2>6. /\ r \in Seq(S) /\ Len(r) = Len(s) - 1
        /\ \A i \in 1..k - 1 : r[i] = s[i]
        /\ \A i \in k..Len(s) - 1 : r[i] = s[i + 1]
    <3>1. r = a \o b
      BY <2>4 DEF a, b
    <3>2. /\ a \o b \in Seq(S) /\ Len(a \o b) = Len(a) + Len(b)
          /\ \A i \in 1..Len(a) + Len(b) :
                (a \o b)[i] = IF i <= Len(a) THEN a[i] ELSE b[i - Len(a)]
      BY <2>5, ConcatProperties
    <3>. HIDE DEF r
    <3>3. ASSUME NEW i \in k..Len(s) - 1 PROVE r[i] = s[i + 1]
      <4>1. i \in 1..Len(a) + Len(b) /\ ~(i <= Len(a)) /\ i - Len(a) \in 1..Len(s) - k
            /\ k + (i - Len(a)) = i + 1
        BY <1>1, <2>1, <2>5
      <4>. QED BY <2>5, <3>1, <3>2, <4>1
    <3>. QED BY <1>1, <2>1, <2>5, <3>1, <3>2, <3>3
  <2>. HIDE DEF r
  <2>7. DOMAIN r = 1..Len(s) - 1
    BY <1>1, <2>6
  <2>8. \A i \in DOMAIN r : \E j \in 1..Len(s) : j # k /\ r[i] = s[j] /\ j = IF i < k THEN i ELSE i + 1
    BY <1>1, <2>1, <2>6, <2>7
  <2>9. \A j \in 1..Len(s) : j # k => \E i \in DOMAIN r : r[i] = s[j]
    <3>1. ASSUME NEW j \in 1..Len(s), j # k PROVE \E i \in DOMAIN r : r[i] = s[j]
      <4>1. CASE j < k
        BY <1>1, <2>1, <2>6, <2>7, <4>1
      <4>2. CASE j > k
        <5>1. j - 1 \in k..Len(s) - 1 /\ (j - 1) + 1 = j
          BY <1>1, <2>1, <4>2
        <5>2. r[j - 1] = s[j] /\ j - 1 \in DOMAIN r
          BY <1>1, <2>1, <2>6, <2>7, <5>1
        <5>. QED BY <5>2
      <4>. QED BY <2>1, <3>1, <4>1, <4>2
    <3>. QED BY <3>1
  <2>10. \A x : x \in Range(r) <=> x \in Range(s) /\ x # e
    <3>1. ASSUME NEW x, x \in Range(r) PROVE x \in Range(s) /\ x # e
      BY <1>1, <2>1, <2>8, <3>1 DEF Range
    <3>2. ASSUME NEW x, x \in Range(s), x # e PROVE x \in Range(r)
      <4>1. PICK j \in 1..Len(s) : s[j] = x
        BY <1>1, <3>2 DEF Range
      <4>2. \E i \in DOMAIN r : r[i] = x
        BY <2>1, <2>9, <3>2, <4>1
      <4>. QED BY <4>2 DEF Range
    <3>. QED BY <3>1, <3>2
  <2>11. \A i, j \in DOMAIN r : r[i] = r[j] => i = j
    <3>1. ASSUME NEW i \in DOMAIN r, NEW j \in DOMAIN r, r[i] = r[j] PROVE i = j
      <4>1. PICK m \in 1..Len(s) : r[i] = s[m] /\ m = IF i < k THEN i ELSE i + 1
        BY <2>8
      <4>2. PICK n \in 1..Len(s) : r[j] = s[n] /\ n = IF j < k THEN j ELSE j + 1
        BY <2>8
      <4>3. m = n
        BY <1>1, <3>1, <4>1, <4>2
      <4>. QED BY <2>1, <2>7, <4>1, <4>2, <4>3
    <3>. QED BY <3>1
  <2>. QED BY <2>6, <2>10, <2>11 DEF r
<1>. QED BY <1>2, <1>3

\* What is left after the head.
LEMMA TailRange ==
  ASSUME NEW S, NEW s \in Seq(S), s # <<>>
  PROVE  /\ Head(s) \in S /\ Tail(s) \in Seq(S)
         /\ Len(s) \in Nat \ {0} /\ Len(Tail(s)) = Len(s) - 1
         /\ Head(s) = s[1] /\ \A i \in 1..Len(s) - 1 : Tail(s)[i] = s[i + 1]
         /\ \A x : x \in Range(s) <=> x = Head(s) \/ x \in Range(Tail(s))
<1>1. /\ Head(s) \in S /\ Head(s) = s[1] /\ Tail(s) \in Seq(S)
      /\ Len(s) \in Nat \ {0} /\ DOMAIN s = 1..Len(s) /\ Len(Tail(s)) = Len(s) - 1
      /\ DOMAIN Tail(s) = 1..Len(s) - 1
      /\ \A i \in 1..Len(s) - 1 : Tail(s)[i] = s[i + 1]
  OBVIOUS
<1>2. ASSUME NEW x, x \in Range(Tail(s)) PROVE x \in Range(s)
  <2>1. PICK i \in 1..Len(s) - 1 : x = s[i + 1]
    BY <1>1, <1>2 DEF Range
  <2>2. i + 1 \in 1..Len(s)
    BY <1>1
  <2>. QED BY <1>1, <2>1, <2>2 DEF Range
<1>3. ASSUME NEW x, x \in Range(s), x # Head(s) PROVE x \in Range(Tail(s))
  <2>1. PICK i \in 1..Len(s) : x = s[i]
    BY <1>1, <1>3 DEF Range
  <2>2. i # 1
    BY <1>1, <1>3, <2>1
  <2>3. i - 1 \in 1..Len(s) - 1 /\ (i - 1) + 1 = i
    BY <1>1, <2>2
  <2>4. Tail(s)[i - 1] = x
    BY <1>1, <2>1, <2>3
  <2>. QED BY <1>1, <2>3, <2>4 DEF Range
<1>4. Head(s) \in Range(s)
  BY <1>1 DEF Range
<1>. QED BY <1>1, <1>2, <1>3, <1>4

\* What is appended was not there before.
LEMMA AppendOnce ==
  ASSUME NEW S, NEW s \in Seq(S), NEW e \in S, e \notin Range(s), Once(s)
  PROVE  /\ Append(s, e) \in Seq(S) /\ Once(Append(s, e))
         /\ \A x : x \in Range(Append(s, e)) <=> x \in Range(s) \/ x = e
<1>. DEFINE a == Append(s, e)
<1>1. /\ a \in Seq(S) /\ Len(s) \in Nat /\ DOMAIN s = 1..Len(s)
      /\ DOMAIN a = 1..Len(s) + 1
      /\ \A i \in 1..Len(s) : a[i] = s[i]
      /\ a[Len(s) + 1] = e
      /\ \A i \in 1..Len(s) + 1 : i \in 1..Len(s) \/ i = Len(s) + 1
      /\ 1..Len(s) \subseteq 1..Len(s) + 1 /\ Len(s) + 1 \in 1..Len(s) + 1
  OBVIOUS
<1>. HIDE DEF a
<1>2. \A i \in 1..Len(s) : s[i] # e
  BY <1>1 DEF Range
<1>3. Once(a)
  BY <1>1, <1>2 DEF Once
<1>4. \A x : x \in Range(a) <=> x \in Range(s) \/ x = e
  BY <1>1 DEF Range
<1>. QED BY <1>1, <1>3, <1>4 DEF a

\* What is appended joins what was there.
LEMMA AppendRange ==
  ASSUME NEW S, NEW s \in Seq(S), NEW e \in S
  PROVE  /\ Append(s, e) \in Seq(S)
         /\ \A x : x \in Range(Append(s, e)) <=> x \in Range(s) \/ x = e
<1>. DEFINE a == Append(s, e)
<1>1. /\ a \in Seq(S) /\ Len(s) \in Nat /\ DOMAIN s = 1..Len(s)
      /\ DOMAIN a = 1..Len(s) + 1
      /\ \A i \in 1..Len(s) : a[i] = s[i]
      /\ a[Len(s) + 1] = e
      /\ \A i \in 1..Len(s) + 1 : i \in 1..Len(s) \/ i = Len(s) + 1
      /\ 1..Len(s) \subseteq 1..Len(s) + 1 /\ Len(s) + 1 \in 1..Len(s) + 1
  OBVIOUS
<1>. HIDE DEF a
<1>2. \A x : x \in Range(a) <=> x \in Range(s) \/ x = e
  BY <1>1 DEF Range
<1>. QED BY <1>1, <1>2 DEF a

-----------------------------------------------------------------------------
(* The names of a listing *)

\* Every non-empty set of numbers has a least member.
LEMMA Least ==
  ASSUME NEW T, T \subseteq Nat, T # {}
  PROVE  \E x \in T : \A y \in T : x <= y
<1>1. PICK x \in T : \A y \in T : ~ (<<y, x>> \in OpToRel(<, Nat))
  BY NatLessThanWellFounded, WFMin
<1>2. ASSUME NEW y \in T PROVE ~ (y < x)
  BY <1>1 DEF OpToRel
<1>. QED BY <1>2

\* The recursion of Sorted, up to the n-th name.
Keeps(kept, S, n) ==
    kept = [i \in 0..n |->
              IF i = 0 THEN <<>>
              ELSE IF Catalog[i] \in S THEN Append(kept[i - 1], Catalog[i]) ELSE kept[i - 1]]

LEMMA KeepsExists ==
  ASSUME NEW S, NEW n \in Nat
  PROVE  \E g : Keeps(g, S, n)
<1>. DEFINE T == {m \in Nat : ~ \E g : Keeps(g, S, m)}
<1>1. SUFFICES T = {}
  OBVIOUS
<1>2. SUFFICES ASSUME T # {} PROVE FALSE
  OBVIOUS
<1>3. T \subseteq Nat
  OBVIOUS
<1>. HIDE DEF T
<1>4. PICK m \in T : \A k \in T : m <= k
  BY <1>2, <1>3, Least
<1>5. m \in Nat /\ ~ \E g : Keeps(g, S, m)
  BY <1>4 DEF T
<1>6. m # 0
  <2>1. Keeps([i \in 0..0 |-> <<>>], S, 0)
    BY DEF Keeps
  <2>. QED BY <1>5, <2>1
<1>7. m - 1 \in Nat /\ m - 1 \notin T
  BY <1>3, <1>4, <1>5, <1>6
<1>8. PICK g : Keeps(g, S, m - 1)
  BY <1>7 DEF T
<1>. DEFINE next == IF Catalog[m] \in S THEN Append(g[m - 1], Catalog[m]) ELSE g[m - 1]
            h == [i \in 0..m |-> IF i = m THEN next ELSE g[i]]
<1>9. ASSUME NEW i \in 0..m
      PROVE  h[i] = IF i = 0 THEN <<>>
                    ELSE IF Catalog[i] \in S THEN Append(h[i - 1], Catalog[i]) ELSE h[i - 1]
  <2>1. CASE i = m
    <3>1. m - 1 \in 0..m /\ m - 1 # m
      BY <1>5, <1>7
    <3>2. h[m - 1] = g[m - 1] /\ h[m] = next
      BY <1>5, <3>1
    <3>. QED BY <1>6, <2>1, <3>2
  <2>2. CASE i # m
    <3>1. i \in 0..(m - 1) /\ h[i] = g[i]
      BY <1>5, <2>2
    <3>2. i # 0 => h[i - 1] = g[i - 1]
      BY <1>5, <2>2
    <3>3. g[i] = IF i = 0 THEN <<>>
                 ELSE IF Catalog[i] \in S THEN Append(g[i - 1], Catalog[i]) ELSE g[i - 1]
      BY <1>8, <3>1 DEF Keeps
    <3>. QED BY <3>1, <3>2, <3>3
  <2>. QED BY <2>1, <2>2
<1>10. h = [i \in 0..m |-> h[i]]
  OBVIOUS
<1>. HIDE DEF h
<1>11. Keeps(h, S, m)
  BY <1>9, <1>10 DEF Keeps
<1>. QED BY <1>5, <1>11

LEMMA KeepsMembers ==
  ASSUME NEW S, NEW n \in 0..Len(Catalog), NEW g, Keeps(g, S, n), NEW k \in 0..n
  PROVE  /\ g[k] \in Seq(Names)
         /\ \A x : x \in Range(g[k]) <=> x \in S /\ \E j \in 1..k : Catalog[j] = x
<1>. DEFINE Good(i) == /\ g[i] \in Seq(Names)
                       /\ \A x : x \in Range(g[i]) <=> x \in S /\ \E j \in 1..i : Catalog[j] = x
            T == {i \in 0..n : ~ Good(i)}
<1>1. ASSUME NEW i \in 0..n
      PROVE  g[i] = IF i = 0 THEN <<>>
                    ELSE IF Catalog[i] \in S THEN Append(g[i - 1], Catalog[i]) ELSE g[i - 1]
  BY DEF Keeps
<1>2. Len(Catalog) \in Nat /\ n \in Nat
  BY NamesAssumption
<1>3. SUFFICES T = {}
  OBVIOUS
<1>4. SUFFICES ASSUME T # {} PROVE FALSE
  OBVIOUS
<1>5. T \subseteq Nat
  BY <1>2
<1>6. PICK m \in T : \A i \in T : m <= i
  <2>. HIDE DEF T
  <2>. QED BY <1>4, <1>5, Least
<1>7. m \in 0..n /\ ~ Good(m)
  OBVIOUS
<1>8. CASE m = 0
  <2>1. g[0] = <<>> /\ Range(<<>>) = {} /\ 1..0 = {}
    BY <1>1, <1>2 DEF Range
  <2>2. Good(0)
    BY <2>1
  <2>. QED BY <1>7, <1>8, <2>2
<1>9. CASE m # 0
  <2>1. m - 1 \in 0..n /\ ~ (m <= m - 1)
    BY <1>2, <1>7, <1>9
  <2>2. Good(m - 1)
    BY <1>6, <2>1
  <2>3. m \in 1..Len(Catalog) /\ Catalog[m] \in Names
    BY <1>2, <1>7, <1>9, NamesAssumption
  <2>4. \A x : (\E j \in 1..m : Catalog[j] = x) <=> (\E j \in 1..(m - 1) : Catalog[j] = x) \/ x = Catalog[m]
    <3>1. 1..m = 1..(m - 1) \cup {m}
      BY <2>3
    <3>. QED BY <3>1
  <2>5. CASE Catalog[m] \in S
    <3>1. g[m] = Append(g[m - 1], Catalog[m])
      BY <1>1, <1>7, <1>9, <2>5
    <3>2. /\ g[m] \in Seq(Names)
          /\ \A x : x \in Range(g[m]) <=> x \in Range(g[m - 1]) \/ x = Catalog[m]
      BY <2>2, <2>3, <3>1, AppendRange
    <3>3. Good(m)
      BY <2>2, <2>4, <2>5, <3>2
    <3>. QED BY <1>7, <3>3
  <2>6. CASE Catalog[m] \notin S
    <3>1. g[m] = g[m - 1]
      BY <1>1, <1>7, <1>9, <2>6
    <3>2. Good(m)
      BY <2>2, <2>4, <2>6, <3>1
    <3>. QED BY <1>7, <3>2
  <2>. QED BY <2>5, <2>6
<1>. QED BY <1>8, <1>9

LEMMA KeepsAll ==
  ASSUME NEW S, NEW g, Keeps(g, S, Len(Catalog))
  PROVE  /\ g[Len(Catalog)] \in Seq(Names)
         /\ \A x : x \in Range(g[Len(Catalog)]) <=> x \in S /\ x \in Names
<1>. PICK n : n = Len(Catalog)
  OBVIOUS
<1>1. n \in Nat /\ DOMAIN Catalog = 1..n /\ n \in 0..n
  BY NamesAssumption
<1>2. Keeps(g, S, n) /\ n \in 0..Len(Catalog)
  BY <1>1
<1>3. \A k \in 0..n : /\ g[k] \in Seq(Names)
                      /\ \A x : x \in Range(g[k]) <=> x \in S /\ \E j \in 1..k : Catalog[j] = x
  BY <1>2, KeepsMembers
<1>4. \A x : x \in Names <=> \E j \in 1..n : Catalog[j] = x
  BY <1>1 DEF Names, Range
<1>. QED BY <1>1, <1>3, <1>4

\* A listing names what it shall, and nothing else.
LEMMA SortedMembers ==
  ASSUME NEW S
  PROVE  Sorted(S) \in Seq(Names) /\ \A x : x \in Range(Sorted(S)) <=> x \in S /\ x \in Names
<1>1. Sorted(S) = (CHOOSE g : Keeps(g, S, Len(Catalog)))[Len(Catalog)]
  BY DEF Sorted, Keeps
<1>2. \E g : Keeps(g, S, Len(Catalog))
  BY NamesAssumption, KeepsExists
<1>3. Keeps(CHOOSE g : Keeps(g, S, Len(Catalog)), S, Len(Catalog))
  BY <1>2
<1>. QED BY <1>1, <1>3, KeepsAll
-----------------------------------------------------------------------------
(* The steps of a request *)

\* The steps of a request take nothing away from the others.
Grows ==
    /\ UNCHANGED <<classes, up, close, replaced, down, op>>
    /\ made' \in Nat /\ made <= made' /\ loaded \subseteq loaded' /\ Keys \subseteq Keys'

LEMMA RequestOnlyGrows == ASSUME TypeOK, RequestOnly PROVE Grows
  BY DEF RequestOnly, Grows, registryVars, closeVars, pastVars, Keys, TypeOK, WorldTypeOK

LEMMA Others ==
  ASSUME IInv, Grows, NEW u \in Threads,
         pc'[u] = pc[u], pick'[u] = pick[u], todo'[u] = todo[u],
         inst'[u] = inst[u], shown'[u] = shown[u], out'[u] = out[u]
  PROVE  ThreadOK(u)'
<1>1. ThreadOK(u)
  BY DEF IInv, ThreadsOK
<1>2. made \in Nat
  BY DEF IInv, TypeOK, WorldTypeOK
<1>. USE DEF ThreadOK, Grows
<1>3. RequestOK(u)'
  BY <1>1, <1>2 DEF RequestOK
<1>4. ThereOK(u)'
  BY <1>1 DEF ThereOK, Raced, Name
<1>5. DownOK(u)'
  BY <1>1 DEF DownOK, Started, Unusable
<1>6. AutoOK(u)'
  BY <1>1 DEF AutoOK, Started
<1>7. ListOK(u)'
  BY <1>1 DEF ListOK, Started, Owed
<1>. QED BY <1>3, <1>4, <1>5, <1>6, <1>7

LEMMA OneMoves ==
  ASSUME IInv, Grows, NEW t \in Threads, ThreadOK(t)',
         \A u \in Threads \ {t} :
            /\ pc'[u] = pc[u] /\ pick'[u] = pick[u] /\ todo'[u] = todo[u]
            /\ inst'[u] = inst[u] /\ shown'[u] = shown[u] /\ out'[u] = out[u]
  PROVE  ThreadsOK'
<1>1. ASSUME NEW u \in Threads PROVE ThreadOK(u)'
  <2>1. CASE u = t
    BY <2>1
  <2>2. CASE u # t
    BY <2>2, Others
  <2>. QED BY <2>1, <2>2
<1>. QED BY <1>1 DEF ThreadsOK

Moves == RequestTypeOK' /\ ThreadsOK'

\* A request that goes on with the same provider.
LEMMA GoesMoves ==
  ASSUME IInv, Grows, NEW t \in Threads, pc[t] \notin {"idle", "done"}, todo[t] # <<>>,
         NEW p \in AtName, Goes(t, p),
         p \in Holding => inst[t] \in 1..made,
         p = "availability" => op[t] # "voices",
         p = "loaded" /\ close = "open" => inst[t] \in loaded',
         p = "read" => Name(t) \in Keys' \/ Raced(Name(t))
  PROVE  Moves
<1>1. /\ pc' = [pc EXCEPT ![t] = p] /\ UNCHANGED <<pick, todo, inst, shown, out>>
      /\ UNCHANGED <<classes, up, close, replaced, down, op>>
      /\ made' \in Nat /\ made <= made'
  BY DEF Goes, Grows
<1>2. RequestTypeOK /\ ThreadOK(t) /\ made \in Nat
  BY DEF IInv, TypeOK, WorldTypeOK, ThreadsOK
<1>3. pc'[t] = p /\ p \in Pcs \ {"idle", "done", "check"}
  BY <1>1, <1>2 DEF RequestTypeOK, Pcs, AtName, Holding
<1>4. RequestTypeOK'
  BY <1>1, <1>2, <1>3 DEF RequestTypeOK
<1>5. RequestOK(t)'
  BY <1>1, <1>2, <1>3 DEF ThreadOK, RequestOK
<1>6. ThereOK(t)'
  BY <1>1, <1>2, <1>3 DEF ThreadOK, ThereOK, Raced, Name
<1>7. DownOK(t)'
  BY <1>1, <1>2, <1>3 DEF ThreadOK, DownOK, Started, Unusable
<1>8. AutoOK(t)'
  BY <1>1, <1>2, <1>3 DEF ThreadOK, AutoOK, Started
<1>9. ListOK(t)'
  BY <1>1, <1>2, <1>3 DEF ThreadOK, ListOK, Started, Owed
<1>10. \A u \in Threads \ {t} : pc'[u] = pc[u]
  BY <1>1, <1>2 DEF RequestTypeOK
<1>11. ThreadsOK'
  BY <1>1, <1>5, <1>6, <1>7, <1>8, <1>9, <1>10, OneMoves DEF ThreadOK
<1>. QED BY <1>4, <1>11 DEF Moves

\* A request that is over.
LEMMA EndsMoves ==
  ASSUME IInv, Grows, NEW t \in Threads, pc[t] \notin {"idle", "done"},
         NEW what \in Outcomes, Ends(t, what),
         what \in {"clip", "SynthesisError"} => todo[t] # <<>>,
         what = "KeyError" => Raced(Name(t)),
         op[t] = "voices" /\ pick[t] = "all" => todo[t] = <<>>
  PROVE  Moves
<1>1. /\ pc' = [pc EXCEPT ![t] = "done"] /\ out' = [out EXCEPT ![t] = what]
      /\ inst' = [inst EXCEPT ![t] = 0] /\ UNCHANGED <<pick, todo, shown>>
      /\ UNCHANGED <<classes, up, close, replaced, down, op>>
      /\ made' \in Nat /\ made <= made'
  BY DEF Ends, Grows
<1>2. RequestTypeOK /\ ThreadOK(t) /\ made \in Nat
  BY DEF IInv, TypeOK, WorldTypeOK, ThreadsOK
<1>3. pc'[t] = "done" /\ out'[t] = what
  BY <1>1, <1>2 DEF RequestTypeOK
<1>4. RequestTypeOK'
  BY <1>1, <1>2 DEF RequestTypeOK, Pcs
<1>5. RequestOK(t)'
  BY <1>1, <1>2, <1>3 DEF ThreadOK, RequestOK, AtName, Holding
<1>6. ThereOK(t)'
  BY <1>1, <1>2, <1>3 DEF ThreadOK, ThereOK, Raced, Name
<1>7. DownOK(t)'
  BY <1>1, <1>2, <1>3 DEF ThreadOK, DownOK, Started, Unusable
<1>8. AutoOK(t)'
  BY <1>1, <1>2, <1>3 DEF ThreadOK, AutoOK, Started
<1>9. ListOK(t)'
  BY <1>1, <1>2, <1>3 DEF ThreadOK, ListOK, Started, Owed
<1>10. \A u \in Threads \ {t} : pc'[u] = pc[u] /\ out'[u] = out[u] /\ inst'[u] = inst[u]
  BY <1>1, <1>2 DEF RequestTypeOK
<1>11. ThreadsOK'
  BY <1>1, <1>5, <1>6, <1>7, <1>8, <1>9, <1>10, OneMoves DEF ThreadOK
<1>. QED BY <1>4, <1>11 DEF Moves

\* What is left of the priority after one more of it was unusable.
LEMMA RestTail ==
  ASSUME NEW names \in Seq(Names), NEW tail \in Seq(Names), tail # <<>>,
         NEW bad, Rest(names, tail, bad), Head(tail) \in bad
  PROVE  Rest(names, Tail(tail), bad)
<1>. PICK p : p = Len(names) - Len(tail)
  OBVIOUS
<1>1. /\ p \in Nat /\ \A i \in 1..Len(tail) : tail[i] = names[p + i]
      /\ \A j \in 1..p : names[j] \in bad
  BY DEF Rest
<1>2. /\ Len(tail) \in Nat \ {0} /\ Len(Tail(tail)) = Len(tail) - 1 /\ Head(tail) = tail[1]
      /\ \A i \in 1..Len(tail) - 1 : Tail(tail)[i] = tail[i + 1]
  BY TailRange
<1>3. Len(names) - Len(Tail(tail)) = p + 1
  BY <1>2
<1>4. ASSUME NEW i \in 1..Len(Tail(tail)) PROVE Tail(tail)[i] = names[(p + 1) + i]
  <2>1. i \in 1..Len(tail) - 1 /\ i + 1 \in 1..Len(tail) /\ p + (i + 1) = (p + 1) + i
    BY <1>1, <1>2
  <2>2. Tail(tail)[i] = tail[i + 1] /\ tail[i + 1] = names[p + (i + 1)]
    BY <1>1, <1>2, <2>1
  <2>. QED BY <2>1, <2>2
<1>5. names[p + 1] \in bad
  <2>1. 1 \in 1..Len(tail)
    BY <1>2
  <2>. QED BY <1>1, <1>2, <2>1
<1>6. ASSUME NEW j \in 1..(p + 1) PROVE names[j] \in bad
  <2>1. j \in 1..p \/ j = p + 1
    BY <1>1
  <2>. QED BY <1>1, <1>5, <2>1
<1>. QED BY <1>1, <1>3, <1>4, <1>6 DEF Rest

\* A request that tries the next of its names.
LEMMA NextMoves ==
  ASSUME IInv, Grows, NEW t \in Threads, pc[t] \notin {"idle", "done"}, todo[t] # <<>>,
         NEW h \in SUBSET Names, shown[t] \subseteq h, shown' = [shown EXCEPT ![t] = h],
         Tries(t, Tail(todo[t])), UNCHANGED pick,
         Started(t, "speak", "auto") => Name(t) \in down[t],
         Started(t, "voices", "all") /\ close = "open" =>
            Name(t) \in h \cup down[t] \cup Crashing \cup replaced
  PROVE  Moves
<1>1. /\ pc' = [pc EXCEPT ![t] = "check"] /\ todo' = [todo EXCEPT ![t] = Tail(todo[t])]
      /\ inst' = [inst EXCEPT ![t] = 0] /\ UNCHANGED <<pick, out>>
      /\ UNCHANGED <<classes, up, close, replaced, down, op>>
      /\ made' \in Nat /\ made <= made'
  BY DEF Tries, Grows
<1>2. RequestTypeOK /\ ThreadOK(t) /\ made \in Nat
  BY DEF IInv, TypeOK, WorldTypeOK, ThreadsOK
<1>3. todo[t] \in Seq(Names)
  BY <1>2 DEF RequestTypeOK
<1>4. /\ Tail(todo[t]) \in Seq(Names)
      /\ \A x : x \in Range(todo[t]) <=> x = Name(t) \/ x \in Range(Tail(todo[t]))
  BY <1>3, TailRange DEF Name
<1>5. pc'[t] = "check" /\ todo'[t] = Tail(todo[t]) /\ shown'[t] = h
  BY <1>1, <1>2 DEF RequestTypeOK
<1>6. RequestTypeOK'
  BY <1>1, <1>2, <1>4 DEF RequestTypeOK, Pcs
<1>7. RequestOK(t)'
  BY <1>1, <1>2, <1>5, NoneAssumption DEF ThreadOK, RequestOK, AtName, Holding, Outcomes
<1>8. ThereOK(t)'
  <2>1. out[t] = None
    BY <1>2 DEF ThreadOK, RequestOK
  <2>. QED BY <1>1, <1>2, <1>5, <2>1, NoneAssumption DEF ThreadOK, ThereOK, Outcomes
<1>9. DownOK(t)'
  BY <1>1, <1>2, <1>5 DEF ThreadOK, DownOK, Started, Unusable
<1>10. AutoOK(t)'
  <2>1. SUFFICES ASSUME Started(t, "speak", "auto")
                 PROVE  Rest(Priority, Tail(todo[t]), down[t])
    BY <1>1, <1>5 DEF AutoOK, Started
  <2>2. Rest(Priority, todo[t], down[t]) /\ Head(todo[t]) \in down[t]
    BY <1>2, <2>1 DEF ThreadOK, AutoOK, Name
  <2>. QED BY <1>3, <2>2, RestTail, NamesAssumption
<1>11. ListOK(t)'
  <2>1. SUFFICES ASSUME Started(t, "voices", "all"), close = "open"
                 PROVE  Owed(t) \subseteq h \cup Range(Tail(todo[t]))
    BY <1>1, <1>5 DEF ListOK, Started, Owed
  <2>2. Owed(t) \subseteq shown[t] \cup Range(todo[t])
    BY <1>2, <2>1 DEF ThreadOK, ListOK
  <2>. QED BY <1>4, <2>1, <2>2 DEF Owed
<1>12. \A u \in Threads \ {t} : /\ pc'[u] = pc[u] /\ todo'[u] = todo[u] /\ inst'[u] = inst[u]
                                /\ shown'[u] = shown[u]
  BY <1>1, <1>2 DEF RequestTypeOK
<1>13. ThreadsOK'
  BY <1>1, <1>7, <1>8, <1>9, <1>10, <1>11, <1>12, OneMoves DEF ThreadOK
<1>. QED BY <1>6, <1>13 DEF Moves

LEMMA NextNameMoves ==
  ASSUME IInv, Grows, NEW t \in Threads, pc[t] \notin {"idle", "done"}, todo[t] # <<>>,
         NextName(t),
         Started(t, "speak", "auto") => Name(t) \in down[t],
         Started(t, "voices", "all") /\ close = "open" =>
            Name(t) \in shown[t] \cup down[t] \cup Crashing \cup replaced
  PROVE  Moves
<1>1. shown[t] \in SUBSET Names /\ shown' = [shown EXCEPT ![t] = shown[t]]
  BY DEF NextName, IInv, TypeOK, RequestTypeOK
<1>. QED BY <1>1, NextMoves DEF NextName

\* A report goes on to the listing of the providers; nothing is kept of it.
LEMMA ReportMoves ==
  ASSUME IInv, Grows, NEW t \in Threads, pc[t] \notin {"idle", "done"},
         op[t] \notin {"speak", "voices"}, ReportAll(t)
  PROVE  Moves
<1>. PICK names : names = Sorted(classes)
  OBVIOUS
<1>1. /\ pc' = [pc EXCEPT ![t] = "check"] /\ todo' = [todo EXCEPT ![t] = names]
      /\ inst' = [inst EXCEPT ![t] = 0] /\ pick' = [pick EXCEPT ![t] = "all"]
      /\ UNCHANGED <<shown, out>>
      /\ UNCHANGED <<classes, up, close, replaced, down, op>>
  BY DEF ReportAll, Tries, Grows
<1>2. names \in Seq(Names)
  BY SortedMembers
<1>3. RequestTypeOK /\ ThreadOK(t)
  BY DEF IInv, TypeOK, ThreadsOK
<1>4. pc'[t] = "check" /\ out[t] = None
  BY <1>1, <1>3 DEF RequestTypeOK, ThreadOK, RequestOK
<1>5. RequestTypeOK'
  BY <1>1, <1>2, <1>3 DEF RequestTypeOK, Pcs
<1>6. RequestOK(t)' /\ ThereOK(t)'
  BY <1>1, <1>4, NoneAssumption DEF RequestOK, ThereOK, AtName, Holding, Outcomes
<1>7. DownOK(t)' /\ AutoOK(t)' /\ ListOK(t)'
  BY <1>1 DEF DownOK, AutoOK, ListOK, Started
<1>8. \A u \in Threads \ {t} : /\ pc'[u] = pc[u] /\ todo'[u] = todo[u] /\ inst'[u] = inst[u]
                               /\ pick'[u] = pick[u]
  BY <1>1, <1>3 DEF RequestTypeOK
<1>9. ThreadsOK'
  BY <1>1, <1>6, <1>7, <1>8, OneMoves DEF ThreadOK
<1>. QED BY <1>5, <1>9 DEF Moves

\* A provider that raised.
LEMMA RaisesMoves ==
  ASSUME IInv, Grows, NEW t \in Threads, pc[t] \notin {"idle", "done"}, todo[t] # <<>>,
         NEW what \in Outcomes \ {"clip", "SynthesisError"}, Raises(t, what),
         what = "KeyError" => Raced(Name(t)),
         Started(t, "voices", "all") /\ close = "open" =>
            Name(t) \in down[t] \cup Crashing \cup replaced
  PROVE  Moves
<1>1. CASE op[t] = "status" /\ Ends(t, "answered")
  <2>1. "answered" \in Outcomes
    BY DEF Outcomes
  <2>. QED BY <1>1, <2>1, EndsMoves
<1>2. CASE op[t] = "report" /\ pick[t] # "all" /\ ReportAll(t)
  BY <1>2, ReportMoves
<1>3. CASE op[t] = "voices" /\ pick[t] = "all" /\ NextName(t)
  <2>1. ~ Started(t, "speak", "auto")
    BY <1>3 DEF Started
  <2>. QED BY <1>3, <2>1, NextNameMoves
<1>4. CASE ~(op[t] = "voices" /\ pick[t] = "all") /\ Ends(t, what)
  BY <1>4, EndsMoves
<1>. QED BY <1>1, <1>2, <1>3, <1>4 DEF Raises

\* The name a request is at is a name of the catalog.
LEMMA AtAName ==
  ASSUME IInv, NEW t \in Threads, pc[t] \in AtName \/ (pc[t] = "check" /\ todo[t] # <<>>)
  PROVE  todo[t] # <<>> /\ Name(t) \in Names /\ pc[t] \notin {"idle", "done"}
<1>1. todo[t] # <<>> /\ todo[t] \in Seq(Names)
  BY DEF IInv, ThreadsOK, ThreadOK, RequestOK, TypeOK, RequestTypeOK
<1>2. Head(todo[t]) \in Names
  BY <1>1, TailRange
<1>. QED BY <1>1, <1>2 DEF Name, AtName, Holding

\* A provider that is unusable now is remembered.
LEMMA NowDown ==
  ASSUME IInv, NEW t \in Threads, NEW n \in Names, n \notin classes \/ ~up[n],
         Started(t, "speak", "auto") \/ Started(t, "voices", "all")
  PROVE  n \in down[t]
  BY DEF IInv, ThreadsOK, ThreadOK, DownOK, Unusable

LEMMA ExhaustedMoves ==
  ASSUME IInv, NEW t \in Threads, Exhausted(t)
  PROVE  Moves
<1>1. /\ pc[t] = "check" /\ todo[t] = <<>> /\ RequestOnly
      /\ IF Resolves(t) THEN Raises(t, "ProviderUnavailable") ELSE Ends(t, "answered")
  BY DEF Exhausted
<1>2. Grows /\ pc[t] \notin {"idle", "done"}
  BY <1>1, RequestOnlyGrows DEF IInv
<1>3. CASE Resolves(t)
  <2>1. CASE op[t] = "status" /\ Ends(t, "answered")
    BY <1>1, <1>2, <2>1, EndsMoves DEF Outcomes
  <2>2. CASE op[t] = "report" /\ ReportAll(t)
    BY <1>2, <2>2, ReportMoves
  <2>3. CASE op[t] # "voices" /\ Ends(t, "ProviderUnavailable")
    BY <1>1, <1>2, <2>3, EndsMoves DEF Outcomes
  <2>. QED BY <1>1, <1>3, <2>1, <2>2, <2>3 DEF Resolves, Raises
<1>4. CASE ~ Resolves(t)
  BY <1>1, <1>2, <1>4, EndsMoves DEF Outcomes
<1>. QED BY <1>3, <1>4

LEMMA GetCheckMoves ==
  ASSUME IInv, NEW t \in Threads, GetCheck(t)
  PROVE  Moves
<1>1. pc[t] = "check" /\ todo[t] # <<>> /\ RequestOnly /\ Grows
  BY RequestOnlyGrows DEF GetCheck, IInv
<1>2. Name(t) \in Names /\ pc[t] \notin {"idle", "done"}
  BY <1>1, AtAName
<1>3. CASE Name(t) \notin classes
  <2>1. Started(t, "speak", "auto") \/ Started(t, "voices", "all") => Name(t) \in down[t]
    BY <1>2, <1>3, NowDown
  <2>2. CASE pick[t] = "auto"
    <3>1. NextName(t)
      BY <1>3, <2>2 DEF GetCheck
    <3>. QED BY <1>1, <1>2, <2>1, <3>1, NextNameMoves
  <2>3. CASE pick[t] # "auto"
    <3>1. Raises(t, "UnknownProvider")
      BY <1>3, <2>3 DEF GetCheck
    <3>2. "UnknownProvider" \in Outcomes \ {"clip", "SynthesisError"}
      BY DEF Outcomes
    <3>. QED BY <1>1, <1>2, <2>1, <3>1, <3>2, RaisesMoves
  <2>. QED BY <2>2, <2>3
<1>4. CASE Goes(t, "store")
  BY <1>1, <1>2, <1>4, GoesMoves DEF AtName, Holding
<1>5. CASE Name(t) \in Keys /\ Goes(t, "read")
  <2>1. Name(t) \in Keys'
    BY <1>1, <1>5 DEF Grows
  <2>. QED BY <1>1, <1>2, <1>5, <2>1, GoesMoves DEF AtName, Holding
<1>. QED BY <1>3, <1>4, <1>5 DEF GetCheck

\* The dictionary after an instance was stored.
LEMMA Stores ==
  ASSUME IInv, NEW t \in Threads, GetStore(t)
  PROVE  /\ Name(t) \in Names /\ made' = made + 1
         /\ order' \in Seq(Names) /\ Once(order')
         /\ \A x : x \in Keys' <=> x \in Keys \/ x = Name(t)
         /\ Len(order') \in Nat /\ Len(order) <= Len(order') /\ DOMAIN order = 1..Len(order)
         /\ \A k \in DOMAIN order' : (k \in DOMAIN order /\ order'[k] = order[k]) \/ order'[k] = Name(t)
         /\ \A n \in Names : stored'[n] = IF n = Name(t) THEN made + 1 ELSE stored[n]
<1>1. /\ pc[t] = "store" /\ made' = made + 1
      /\ stored' = [stored EXCEPT ![Name(t)] = made + 1]
      /\ order' = IF Name(t) \in Keys THEN order ELSE Append(order, Name(t))
  BY DEF GetStore
<1>2. Name(t) \in Names
  BY <1>1, AtAName DEF AtName
<1>3. order \in Seq(Names) /\ Once(order) /\ stored \in [Names -> Nat] /\ made \in Nat
  BY DEF IInv, TypeOK, WorldTypeOK, DictOK
<1>4. \A n \in Names : stored'[n] = IF n = Name(t) THEN made + 1 ELSE stored[n]
  BY <1>1, <1>2, <1>3
<1>5. Len(order) \in Nat /\ DOMAIN order = 1..Len(order)
  BY <1>3
<1>6. CASE Name(t) \in Keys
  BY <1>1, <1>2, <1>3, <1>4, <1>5, <1>6 DEF Keys
<1>7. CASE Name(t) \notin Keys
  <2>1. /\ order' \in Seq(Names) /\ Once(order')
        /\ \A x : x \in Range(order') <=> x \in Range(order) \/ x = Name(t)
    BY <1>1, <1>2, <1>3, <1>7, AppendOnce DEF Keys
  <2>2. /\ Len(order') = Len(order) + 1 /\ DOMAIN order' = 1..Len(order) + 1
        /\ \A k \in 1..Len(order) : order'[k] = order[k]
        /\ order'[Len(order) + 1] = Name(t)
        /\ \A k \in 1..Len(order) + 1 : k \in 1..Len(order) \/ k = Len(order) + 1
    <3>1. order' = Append(order, Name(t))
      BY <1>1, <1>7
    <3>2. ASSUME NEW s, s = Append(order, Name(t))
          PROVE  /\ Len(s) = Len(order) + 1 /\ DOMAIN s = 1..Len(order) + 1
                 /\ \A k \in 1..Len(order) : s[k] = order[k]
                 /\ s[Len(order) + 1] = Name(t)
      BY <1>2, <1>3, <3>2
    <3>. QED BY <1>5, <3>1, <3>2
  <2>. QED BY <1>1, <1>2, <1>4, <1>5, <2>1, <2>2 DEF Keys
<1>. QED BY <1>6, <1>7

LEMMA StoreGrows == ASSUME IInv, NEW t \in Threads, GetStore(t) PROVE Grows
<1>1. made \in Nat
  BY DEF IInv, TypeOK, WorldTypeOK
<1>2. Keys \subseteq Keys' /\ made' = made + 1
  BY Stores
<1>. QED BY <1>1, <1>2 DEF GetStore, Grows, closeVars

LEMMA GetStoreMoves ==
  ASSUME IInv, NEW t \in Threads, GetStore(t)
  PROVE  Moves
<1>1. pc[t] = "store" /\ Goes(t, "read") /\ Grows /\ Name(t) \in Keys'
  BY StoreGrows, Stores DEF GetStore
<1>2. todo[t] # <<>> /\ pc[t] \notin {"idle", "done"}
  BY <1>1, AtAName DEF AtName
<1>. QED BY <1>1, <1>2, GoesMoves DEF AtName, Holding

LEMMA GetReadMoves ==
  ASSUME IInv, NEW t \in Threads, GetRead(t)
  PROVE  Moves
<1>1. pc[t] = "read" /\ RequestOnly /\ Grows
  BY RequestOnlyGrows DEF GetRead, IInv
<1>2. Name(t) \in Names /\ todo[t] # <<>> /\ pc[t] \notin {"idle", "done"}
  BY <1>1, AtAName DEF AtName
<1>3. TypeOK /\ DictOK /\ ThreadOK(t)
  BY DEF IInv, ThreadsOK
<1>4. CASE Name(t) \notin Keys /\ Raises(t, "KeyError")
  <2>1. Raced(Name(t))
    BY <1>1, <1>3, <1>4 DEF ThreadOK, ThereOK
  <2>2. "KeyError" \in Outcomes \ {"clip", "SynthesisError"}
    BY DEF Outcomes
  <2>3. close = "open" => Name(t) \in replaced
    BY <2>1 DEF Raced
  <2>. QED BY <1>1, <1>2, <1>4, <2>1, <2>2, <2>3, RaisesMoves
<1>5. CASE Name(t) \in Keys
  <2>. PICK p : p = IF op[t] = "voices" THEN "call" ELSE "availability"
    OBVIOUS
  <2>1. /\ pc' = [pc EXCEPT ![t] = p] /\ inst' = [inst EXCEPT ![t] = stored[Name(t)]]
        /\ UNCHANGED <<pick, todo, shown, out>>
        /\ UNCHANGED <<classes, up, close, replaced, down, op, made>>
    BY <1>1, <1>5 DEF GetRead, RequestOnly, Grows, registryVars
  <2>2. stored[Name(t)] \in 1..made /\ made \in Nat
    BY <1>3, <1>5 DEF DictOK, TypeOK, WorldTypeOK
  <2>3. pc'[t] = p /\ inst'[t] = stored[Name(t)] /\ p \in {"call", "availability"}
    BY <1>3, <2>1 DEF TypeOK, RequestTypeOK
  <2>4. RequestTypeOK'
    BY <1>3, <2>1, <2>2 DEF TypeOK, RequestTypeOK, Pcs, AtName, Holding
  <2>5. RequestOK(t)'
    BY <1>1, <1>2, <1>3, <2>1, <2>2, <2>3 DEF ThreadOK, RequestOK
  <2>6. ThereOK(t)'
    BY <1>1, <1>3, <2>1, <2>3 DEF ThreadOK, ThereOK, Raced, Name
  <2>7. DownOK(t)' /\ AutoOK(t)' /\ ListOK(t)'
    BY <1>1, <1>3, <2>1, <2>3 DEF ThreadOK, DownOK, AutoOK, ListOK, Started, Unusable, Owed
  <2>8. \A u \in Threads \ {t} : pc'[u] = pc[u] /\ inst'[u] = inst[u]
    BY <1>3, <2>1 DEF TypeOK, RequestTypeOK
  <2>9. ThreadsOK'
    BY <1>1, <2>1, <2>5, <2>6, <2>7, <2>8, OneMoves DEF ThreadOK
  <2>. QED BY <2>4, <2>9 DEF Moves
<1>. QED BY <1>4, <1>5 DEF GetRead

LEMMA AvailabilityMoves ==
  ASSUME IInv, NEW t \in Threads, Availability(t)
  PROVE  Moves
<1>1. pc[t] = "availability" /\ RequestOnly /\ Grows
  BY RequestOnlyGrows DEF Availability, IInv
<1>2. Name(t) \in Names /\ todo[t] # <<>> /\ pc[t] \notin {"idle", "done"}
  BY <1>1, AtAName DEF AtName, Holding
<1>3. ThreadOK(t) /\ op[t] # "voices" /\ pc[t] # "done"
  BY <1>1 DEF IInv, ThreadsOK, ThreadOK, RequestOK
<1>4. ~ Started(t, "voices", "all")
  BY <1>3 DEF Started
<1>5. CASE pick[t] = "all" /\ NextName(t)
  <2>1. ~ Started(t, "speak", "auto")
    BY <1>5 DEF Started
  <2>. QED BY <1>1, <1>2, <1>4, <1>5, <2>1, NextNameMoves
<1>6. CASE ~ up[Name(t)] /\ pick[t] = "auto" /\ NextName(t)
  <2>1. Started(t, "speak", "auto") => Name(t) \in down[t]
    BY <1>2, <1>6, NowDown
  <2>. QED BY <1>1, <1>2, <1>4, <1>6, <2>1, NextNameMoves
<1>7. CASE Raises(t, "ProviderUnavailable")
  <2>1. "ProviderUnavailable" \in Outcomes \ {"clip", "SynthesisError"}
    BY DEF Outcomes
  <2>. QED BY <1>1, <1>2, <1>4, <1>7, <2>1, RaisesMoves
<1>8. CASE Goes(t, "call") /\ op[t] = "speak"
  <2>1. inst[t] \in 1..made
    BY <1>1, <1>3 DEF ThreadOK, RequestOK, Holding
  <2>. QED BY <1>1, <1>2, <1>8, <2>1, GoesMoves DEF AtName, Holding
<1>9. CASE Ends(t, "answered")
  BY <1>1, <1>2, <1>3, <1>9, EndsMoves DEF Outcomes
<1>10. CASE op[t] \notin {"speak", "voices"} /\ ReportAll(t)
  BY <1>1, <1>2, <1>10, ReportMoves
<1>. QED BY <1>3, <1>5, <1>6, <1>7, <1>8, <1>9, <1>10 DEF Availability

\* A provider that failed: its voices are none, its synthesis raises.
LEMMA FailedMoves ==
  ASSUME IInv, Grows, NEW t \in Threads, pc[t] \in AtName, Failed(t),
         Name(t) \in Names /\ (~ up[Name(t)] \/ close # "open")
  PROVE  Moves
<1>1. todo[t] # <<>> /\ pc[t] \notin {"idle", "done"}
  BY AtAName
<1>2. CASE op[t] = "voices" /\ NextName(t)
  <2>1. ~ Started(t, "speak", "auto")
    BY <1>2 DEF Started
  <2>2. Started(t, "voices", "all") /\ close = "open" => Name(t) \in down[t]
    BY NowDown
  <2>. QED BY <1>1, <1>2, <2>1, <2>2, NextNameMoves
<1>3. CASE op[t] # "voices" /\ Ends(t, "SynthesisError")
  BY <1>1, <1>3, EndsMoves DEF Outcomes
<1>. QED BY <1>2, <1>3 DEF Failed

LEMMA SucceededMoves ==
  ASSUME IInv, Grows, NEW t \in Threads, pc[t] \in AtName, Succeeded(t)
  PROVE  Moves
<1>1. todo[t] # <<>> /\ pc[t] \notin {"idle", "done"} /\ Name(t) \in Names
  BY AtAName
<1>2. CASE op[t] = "voices"
  <2>1. ~ Started(t, "speak", "auto")
    BY <1>2 DEF Started
  <2>. PICK h : h = shown[t] \cup {Name(t)}
    OBVIOUS
  <2>2. shown[t] \in SUBSET Names
    BY DEF IInv, TypeOK, RequestTypeOK
  <2>3. h \in SUBSET Names /\ shown[t] \subseteq h /\ Name(t) \in h
    BY <1>1, <2>2
  <2>4. shown' = [shown EXCEPT ![t] = h] /\ Tries(t, Tail(todo[t])) /\ UNCHANGED pick
    BY <1>2 DEF Succeeded
  <2>. QED BY <1>1, <2>1, <2>3, <2>4, NextMoves
<1>3. CASE op[t] # "voices" /\ Ends(t, "clip")
  BY <1>1, <1>3, EndsMoves DEF Outcomes
<1>. QED BY <1>2, <1>3 DEF Succeeded

LEMMA CallMoves ==
  ASSUME IInv, NEW t \in Threads, Call(t)
  PROVE  Moves
<1>1. pc[t] = "call" /\ RequestOnly /\ Grows /\ pc[t] \in AtName
  BY RequestOnlyGrows DEF Call, IInv, AtName, Holding
<1>2. Name(t) \in Names /\ todo[t] # <<>> /\ pc[t] \notin {"idle", "done"}
  BY <1>1, AtAName
<1>3. inst[t] \in 1..made
  BY <1>1 DEF IInv, ThreadsOK, ThreadOK, RequestOK, Holding
<1>4. CASE Goes(t, IF inst[t] \in loaded THEN "loaded" ELSE "load")
  <2>. PICK p : p = IF inst[t] \in loaded THEN "loaded" ELSE "load"
    OBVIOUS
  <2>1. p \in {"loaded", "load"} /\ Goes(t, p) /\ (p = "loaded" => inst[t] \in loaded')
    BY <1>1, <1>4 DEF Grows
  <2>. QED BY <1>1, <1>2, <1>3, <2>1, GoesMoves DEF AtName, Holding
<1>5. CASE Crashes(t) /\ Raises(t, "provider crashed")
  <2>1. Name(t) \in Crashing /\ "provider crashed" \in Outcomes \ {"clip", "SynthesisError"}
    BY <1>5 DEF Crashes, Outcomes
  <2>. QED BY <1>1, <1>2, <1>5, <2>1, RaisesMoves
<1>6. CASE IF up[Name(t)] THEN Succeeded(t) ELSE Failed(t)
  BY <1>1, <1>2, <1>6, SucceededMoves, FailedMoves
<1>. QED BY <1>4, <1>5, <1>6 DEF Call

LEMMA EngineLoadGrows == ASSUME IInv, NEW t \in Threads, EngineLoad(t) PROVE Grows
<1>1. made \in Nat /\ loaded \subseteq loaded'
  BY DEF EngineLoad, IInv, TypeOK, WorldTypeOK
<1>. QED BY <1>1 DEF EngineLoad, Grows, closeVars, Keys

LEMMA EngineLoadMoves ==
  ASSUME IInv, NEW t \in Threads, EngineLoad(t)
  PROVE  Moves
<1>1. pc[t] = "load" /\ Grows /\ pc[t] \in AtName
  BY EngineLoadGrows DEF EngineLoad, AtName, Holding
<1>2. Name(t) \in Names /\ todo[t] # <<>> /\ pc[t] \notin {"idle", "done"}
  BY <1>1, AtAName
<1>3. inst[t] \in 1..made
  BY <1>1 DEF IInv, ThreadsOK, ThreadOK, RequestOK, Holding
<1>4. CASE loaded' = loaded \cup {inst[t]} /\ Goes(t, "loaded")
  BY <1>1, <1>2, <1>3, <1>4, GoesMoves DEF AtName, Holding
<1>5. CASE ~ up[Name(t)] /\ Failed(t)
  BY <1>1, <1>2, <1>5, FailedMoves
<1>. QED BY <1>4, <1>5 DEF EngineLoad

LEMMA EngineReadMoves ==
  ASSUME IInv, NEW t \in Threads, EngineRead(t)
  PROVE  Moves
<1>1. pc[t] = "loaded" /\ RequestOnly /\ Grows /\ pc[t] \in AtName
  BY RequestOnlyGrows DEF EngineRead, IInv, AtName, Holding
<1>2. Name(t) \in Names
  BY <1>1, AtAName
<1>3. inst[t] \notin loaded => close # "open"
  BY <1>1 DEF IInv, ThreadsOK, ThreadOK, ThereOK
<1>. QED BY <1>1, <1>2, <1>3, SucceededMoves, FailedMoves DEF EngineRead

LEMMA BeginMoves ==
  ASSUME IInv, NEW t \in Threads, Begin(t)
  PROVE  Moves
<1>. PICK what \in {"speak", "status", "report", "voices"}, which \in Names \cup {"auto", "all"} :
         /\ op' = [op EXCEPT ![t] = what] /\ pick' = [pick EXCEPT ![t] = which]
         /\ down' = [down EXCEPT ![t] = IF Watched(what, which) THEN Unusable ELSE {}]
         /\ Tries(t, CASE which = "auto" -> Candidates
                       [] which = "all" -> Sorted(classes)
                       [] OTHER -> <<which>>)
         /\ which = "all" <=> (what = "voices" /\ which \notin Names)
  BY DEF Begin
<1>. PICK bad : bad = (IF Watched(what, which) THEN Unusable ELSE {})
  OBVIOUS
<1>. PICK names : names = (CASE which = "auto" -> Candidates
                       [] which = "all" -> Sorted(classes)
                       [] OTHER -> <<which>>)
  OBVIOUS
<1>0. down' = [down EXCEPT ![t] = bad] /\ Tries(t, names)
  OBVIOUS
<1>1. /\ pc[t] = "idle"
      /\ pc' = [pc EXCEPT ![t] = "check"] /\ todo' = [todo EXCEPT ![t] = names]
      /\ inst' = [inst EXCEPT ![t] = 0]
      /\ UNCHANGED <<registryVars, up, closeVars, shown, out, replaced>>
  BY <1>0 DEF Begin, Tries
<1>2. TypeOK /\ ThreadOK(t) /\ made \in Nat
  BY DEF IInv, ThreadsOK, TypeOK, WorldTypeOK
<1>3. names \in Seq(Names)
  <2>1. CASE which = "auto"
    BY <2>1, NamesAssumption DEF Candidates
  <2>2. CASE which = "all"
    BY <2>2, SortedMembers
  <2>3. CASE which \notin {"auto", "all"}
    <3>1. which \in Names
      BY <2>3
    <3>2. names = <<which>>
      <4>1. which # "auto" /\ which # "all"
        BY <2>3
      <4>2. (CASE which = "auto" -> Candidates
               [] which = "all" -> Sorted(classes)
               [] OTHER -> <<which>>) = <<which>>
        BY ONLY <4>1
      <4>. QED BY <4>2
    <3>. QED BY ONLY <3>1, <3>2
  <2>. QED BY <2>1, <2>2, <2>3
<1>4. bad \subseteq Names
  BY DEF Unusable
<1>5. RequestTypeOK'
  BY <1>1, <1>2, <1>3, <1>4 DEF TypeOK, RequestTypeOK, Pcs
<1>6. /\ pc'[t] = "check" /\ op'[t] = what /\ pick'[t] = which /\ down'[t] = bad
      /\ todo'[t] = names /\ out'[t] = None /\ shown'[t] = shown[t]
  BY <1>1, <1>2 DEF TypeOK, RequestTypeOK, ThreadOK, RequestOK
<1>7. RequestOK(t)' /\ ThereOK(t)'
  BY <1>6, NoneAssumption DEF RequestOK, ThereOK, AtName, Holding, Outcomes
<1>8. DownOK(t)'
  <2>1. Unusable' = Unusable
    BY <1>1 DEF Unusable, registryVars
  <2>. QED BY <1>6, <2>1 DEF DownOK, Started, Watched
<1>9. AutoOK(t)'
  <2>1. SUFFICES ASSUME which = "auto" PROVE Rest(Priority, names, bad)
    BY <1>6 DEF AutoOK, Started
  <2>2. names = Priority
    BY <2>1 DEF Candidates
  <2>3. Len(Priority) \in Nat /\ Len(Priority) - Len(Priority) = 0
    BY NamesAssumption
  <2>4. \A i \in 1..Len(Priority) : 0 + i = i
    BY <2>3
  <2>5. \A i \in 1..Len(Priority) : Priority[i] = Priority[0 + i]
    BY <2>4
  <2>6. Rest(Priority, Priority, bad)
    BY <2>3, <2>5 DEF Rest
  <2>. QED BY <2>2, <2>6
<1>10. ListOK(t)'
  <2>1. SUFFICES ASSUME what = "voices", which = "all"
                 PROVE  Names \ (bad \cup Crashing \cup replaced) \subseteq shown[t] \cup Range(names)
    BY <1>1, <1>6 DEF ListOK, Started, Owed
  <2>2. names = Sorted(classes) /\ bad = Unusable
    BY <2>1 DEF Watched
  <2>3. Names \ Unusable \subseteq Range(names)
    BY <2>2, SortedMembers DEF Unusable
  <2>. QED BY <2>2, <2>3
<1>11. ASSUME NEW u \in Threads PROVE ThreadOK(u)'
  <2>1. CASE u = t
    BY <1>7, <1>8, <1>9, <1>10, <2>1 DEF ThreadOK
  <2>2. CASE u # t
    <3>1. /\ pc'[u] = pc[u] /\ op'[u] = op[u] /\ pick'[u] = pick[u] /\ down'[u] = down[u]
          /\ todo'[u] = todo[u] /\ inst'[u] = inst[u] /\ shown'[u] = shown[u] /\ out'[u] = out[u]
      BY <1>1, <1>2, <2>2 DEF TypeOK, RequestTypeOK
    <3>2. ThreadOK(u)
      BY DEF IInv, ThreadsOK
    <3>3. /\ classes' = classes /\ up' = up /\ close' = close /\ replaced' = replaced
          /\ made' = made /\ loaded' = loaded /\ Keys' = Keys
      BY <1>1 DEF registryVars, closeVars, Keys
    <3>. QED BY <3>1, <3>2, <3>3 DEF ThreadOK, RequestOK, ThereOK, DownOK, AutoOK, ListOK,
                                     Started, Unusable, Owed, Raced, Name
  <2>. QED BY <2>1, <2>2
<1>. QED BY <1>5, <1>11 DEF Moves, ThreadsOK

-----------------------------------------------------------------------------
(* The machine, the embedder and the shutdown, as the requests see them *)

LEMMA ChangeMoves ==
  ASSUME IInv, NEW n \in Names, Change(n)
  PROVE  Moves
<1>1. /\ up' = [up EXCEPT ![n] = ~up[n]]
      /\ down' = [t \in Threads |-> down[t] \cup IF Watched(op[t], pick[t]) THEN {n} ELSE {}]
      /\ UNCHANGED <<registryVars, closeVars, requestVars, replaced>>
  BY DEF Change
<1>2. RequestTypeOK /\ WorldTypeOK
  BY DEF IInv, TypeOK
<1>3. RequestTypeOK'
  BY <1>1, <1>2 DEF RequestTypeOK, requestVars
<1>4. ASSUME NEW t \in Threads PROVE ThreadOK(t)'
  <2>1. ThreadOK(t)
    BY DEF IInv, ThreadsOK
  <2>2. /\ pc'[t] = pc[t] /\ op'[t] = op[t] /\ pick'[t] = pick[t] /\ todo'[t] = todo[t]
        /\ inst'[t] = inst[t] /\ shown'[t] = shown[t] /\ out'[t] = out[t]
        /\ classes' = classes /\ close' = close /\ replaced' = replaced
        /\ made' = made /\ loaded' = loaded /\ Keys' = Keys
    BY <1>1 DEF registryVars, closeVars, requestVars, Keys
  <2>3. down[t] \subseteq down'[t] /\ (Watched(op[t], pick[t]) => n \in down'[t])
    BY <1>1
  <2>4. Unusable' \subseteq Unusable \cup {n}
    BY <1>1, <1>2, <2>2 DEF Unusable, WorldTypeOK
  <2>5. RequestOK(t)' /\ ThereOK(t)'
    BY <2>1, <2>2 DEF ThreadOK, RequestOK, ThereOK, Raced, Name
  <2>6. DownOK(t)'
    BY <2>1, <2>2, <2>3, <2>4 DEF ThreadOK, DownOK, Started, Watched
  <2>7. AutoOK(t)'
    BY <2>1, <2>2, <2>3 DEF ThreadOK, AutoOK, Started, Rest
  <2>8. ListOK(t)'
    BY <2>1, <2>2, <2>3 DEF ThreadOK, ListOK, Started, Owed
  <2>. QED BY <2>5, <2>6, <2>7, <2>8 DEF ThreadOK
<1>. QED BY <1>3, <1>4 DEF Moves, ThreadsOK

\* The dictionary after a name was taken out of it.
LEMMA Pops ==
  ASSUME IInv, NEW n \in Names, PopInstance(n)
  PROVE  /\ order' \in Seq(Names) /\ Once(order')
         /\ \A x : x \in Keys' <=> x \in Keys /\ x # n
         /\ \A m \in Names : stored'[m] = IF m = n THEN 0 ELSE stored[m]
<1>1. order \in Seq(Names) /\ Once(order) /\ stored \in [Names -> Nat]
  BY DEF IInv, TypeOK, WorldTypeOK, DictOK
<1>2. order' = RemoveFirst(order, n) /\ stored' = [stored EXCEPT ![n] = 0]
  BY DEF PopInstance
<1>3. /\ RemoveFirst(order, n) \in Seq(Names) /\ Once(RemoveFirst(order, n))
      /\ \A x : x \in Range(RemoveFirst(order, n)) <=> x \in Range(order) /\ x # n
  BY <1>1, RemoveFirstOnce DEF Once
<1>. QED BY <1>1, <1>2, <1>3 DEF Keys

LEMMA RegisterMoves ==
  ASSUME IInv, NEW n \in Names, Register(n)
  PROVE  Moves
<1>1. /\ replaced' = replaced \cup {n} /\ classes' = classes \cup {n}
      /\ UNCHANGED <<made, loaded, up, closeVars, requestVars, down>>
      /\ PopInstance(n)
  BY DEF Register
<1>2. \A x : x \in Keys' <=> x \in Keys /\ x # n
  BY <1>1, Pops
<1>3. RequestTypeOK'
  BY <1>1 DEF IInv, TypeOK, RequestTypeOK, requestVars
<1>4. ASSUME NEW t \in Threads PROVE ThreadOK(t)'
  <2>1. ThreadOK(t)
    BY DEF IInv, ThreadsOK
  <2>2. /\ pc'[t] = pc[t] /\ op'[t] = op[t] /\ pick'[t] = pick[t] /\ todo'[t] = todo[t]
        /\ inst'[t] = inst[t] /\ shown'[t] = shown[t] /\ out'[t] = out[t]
        /\ close' = close /\ down'[t] = down[t] /\ made' = made /\ loaded' = loaded
    BY <1>1 DEF closeVars, requestVars
  <2>3. Unusable' \subseteq Unusable
    BY <1>1 DEF Unusable
  <2>4. RequestOK(t)'
    BY <2>1, <2>2 DEF ThreadOK, RequestOK
  <2>5. ThereOK(t)'
    BY <1>1, <1>2, <2>1, <2>2 DEF ThreadOK, ThereOK, Raced, Name
  <2>6. DownOK(t)'
    BY <2>1, <2>2, <2>3 DEF ThreadOK, DownOK, Started
  <2>7. AutoOK(t)'
    BY <2>1, <2>2 DEF ThreadOK, AutoOK, Started
  <2>8. ListOK(t)'
    BY <1>1, <2>1, <2>2 DEF ThreadOK, ListOK, Started, Owed
  <2>. QED BY <2>4, <2>5, <2>6, <2>7, <2>8 DEF ThreadOK
<1>. QED BY <1>3, <1>4 DEF Moves, ThreadsOK

LEMMA CloseMoves ==
  ASSUME IInv, Close
  PROVE  Moves
<1>1. /\ UNCHANGED <<classes, made, up, requestVars, replaced, down>>
      /\ close' # "open"
      /\ order' = order \/ close' = "done"
      /\ close = "done" => close' = "done"
  BY DEF Close, CloseBegin, CloseNext, CloseClear, pastVars, registryVars
<1>2. RequestTypeOK'
  BY <1>1 DEF IInv, TypeOK, RequestTypeOK, requestVars
<1>3. ASSUME NEW t \in Threads PROVE ThreadOK(t)'
  <2>1. ThreadOK(t)
    BY DEF IInv, ThreadsOK
  <2>2. /\ pc'[t] = pc[t] /\ op'[t] = op[t] /\ pick'[t] = pick[t] /\ todo'[t] = todo[t]
        /\ inst'[t] = inst[t] /\ shown'[t] = shown[t] /\ out'[t] = out[t]
        /\ down'[t] = down[t] /\ made' = made
    BY <1>1 DEF requestVars
  <2>3. RequestOK(t)'
    BY <2>1, <2>2 DEF ThreadOK, RequestOK
  <2>4. ThereOK(t)'
    BY <1>1, <2>1, <2>2 DEF ThreadOK, ThereOK, Raced, Name, Keys
  <2>5. DownOK(t)'
    BY <1>1, <2>1, <2>2 DEF ThreadOK, DownOK, Started, Unusable
  <2>6. AutoOK(t)'
    BY <2>1, <2>2 DEF ThreadOK, AutoOK, Started
  <2>7. ListOK(t)'
    BY <1>1, <2>1, <2>2 DEF ThreadOK, ListOK, Started
  <2>. QED BY <2>3, <2>4, <2>5, <2>6, <2>7 DEF ThreadOK
<1>. QED BY <1>2, <1>3 DEF Moves, ThreadsOK

-----------------------------------------------------------------------------
(* The registry *)

World == WorldTypeOK' /\ DictOK' /\ CloseOK'

LEMMA SameWorld ==
  ASSUME IInv, UNCHANGED <<registryVars, closeVars, replaced, excused, began, ended>>,
         up' \in [Names -> BOOLEAN]
  PROVE  World
<1>1. UNCHANGED <<classes, order, stored, made, unclosed, loaded, close, pos, size>> /\ Keys' = Keys
  BY DEF registryVars, closeVars, Keys
<1>2. WorldTypeOK /\ DictOK /\ CloseOK
  BY DEF IInv, TypeOK
<1>3. WorldTypeOK'
  BY <1>1, <1>2 DEF WorldTypeOK
<1>4. DictOK'
  BY <1>1, <1>2 DEF DictOK, Once
<1>5. CloseOK'
  BY <1>1, <1>2 DEF CloseOK, Released
<1>. QED BY <1>3, <1>4, <1>5 DEF World

\* What close passed is released, in the state after a step.
LEMMA PassedReleased ==
  ASSUME \A k \in DOMAIN order' : k < pos' => \E i : i = stored'[order'[k]] /\ Released(i)'
  PROVE  (\A k \in DOMAIN order : k < pos => Released(stored[order[k]]))'
BY DEF Released

LEMMA GetStoreWorld ==
  ASSUME IInv, NEW t \in Threads, GetStore(t)
  PROVE  World
<1>. PICK n : n = Name(t)
  OBVIOUS
<1>. PICK new : new = made + 1
  OBVIOUS
<1>1. /\ n \in Names /\ made' = made + 1
      /\ order' \in Seq(Names) /\ Once(order')
      /\ \A x : x \in Keys' <=> x \in Keys \/ x = n
      /\ Len(order') \in Nat /\ Len(order) <= Len(order') /\ DOMAIN order = 1..Len(order)
      /\ \A k \in DOMAIN order' : (k \in DOMAIN order /\ order'[k] = order[k]) \/ order'[k] = n
      /\ \A m \in Names : stored'[m] = IF m = n THEN made + 1 ELSE stored[m]
  BY Stores
<1>2. /\ unclosed' = unclosed \cup {made + 1} /\ loaded' = loaded
      /\ excused' = excused \cup IF n \in Keys THEN {stored[n]} ELSE {}
      /\ stored' = [stored EXCEPT ![n] = made + 1]
      /\ UNCHANGED <<classes, up, close, pos, size, replaced, began, ended>>
  BY DEF GetStore, Drops, closeVars
<1>3. WorldTypeOK /\ DictOK /\ CloseOK
  BY DEF IInv, TypeOK
<1>4. /\ made \in Nat /\ began \in Nat /\ Keys \subseteq Names
      /\ \A m \in Keys : stored[m] \in 1..made
      /\ \A k \in DOMAIN order : order[k] \in Keys
  BY <1>3 DEF WorldTypeOK, DictOK, Keys, Range
<1>5. WorldTypeOK'
  <2>1. made + 1 \in Nat /\ stored' \in [Names -> Nat]
    BY <1>1, <1>2, <1>3, <1>4 DEF WorldTypeOK
  <2>2. excused' \subseteq Nat
    BY <1>2, <1>3, <1>4 DEF WorldTypeOK
  <2>. QED BY <1>1, <1>2, <1>3, <2>1, <2>2 DEF WorldTypeOK
<1>6. DictOK'
  <2>1. ASSUME NEW m \in Keys' PROVE stored'[m] \in 1..(made + 1)
    BY <1>1, <1>4, <2>1
  <2>. QED BY <1>1, <2>1 DEF DictOK
<1>7. ASSUME NEW i \in 1..made, Released(i) PROVE Released(i)'
  BY <1>2, <1>4, <1>7 DEF Released
<1>8. close # "open" => began <= made /\ Released(new)'
  BY <1>2, <1>3, <1>4 DEF CloseOK, Released
<1>9. CloseOK'
  <2>1. ASSUME close \in {"open", "iterating"}, NEW i \in 1..(made + 1)
        PROVE  i \in excused' \/ \E m \in Keys' : stored'[m] = i
    <3>1. CASE i = made + 1
      BY <1>1, <3>1
    <3>2. CASE i # made + 1
      <4>1. i \in 1..made
        BY <1>4, <3>2
      <4>2. CASE i \in excused
        BY <1>2, <4>2
      <4>3. CASE \E m \in Keys : stored[m] = i
        BY <1>1, <1>2, <1>4, <4>3
      <4>. QED BY <1>3, <2>1, <4>1, <4>2, <4>3 DEF CloseOK
    <3>. QED BY <3>1, <3>2
  <2>2. close # "open" => began <= made + 1
    BY <1>4, <1>8
  <2>3. ASSUME close = "iterating"
        PROVE  /\ size <= Len(order') /\ made + 1 > began
               /\ (\A k \in DOMAIN order : k < pos => Released(stored[order[k]]))'
    <3>1. size <= Len(order') /\ made + 1 > began
      BY <1>1, <1>3, <1>4, <1>8, <2>3 DEF CloseOK, WorldTypeOK
    <3>2. ASSUME NEW k \in DOMAIN order', k < pos
          PROVE  \E i : i = stored'[order'[k]] /\ Released(i)'
      <4>1. CASE order'[k] = n
        <5>1. new = stored'[order'[k]]
          BY <1>1, <4>1
        <5>2. Released(new)'
          BY <1>8, <2>3
        <5>. QED BY <5>1, <5>2
      <4>2. CASE order'[k] # n
        <5>1. k \in DOMAIN order /\ order'[k] = order[k]
          BY <1>1, <4>2
        <5>2. order[k] \in Keys /\ order[k] \in Names /\ stored'[order'[k]] = stored[order[k]]
          BY <1>1, <1>4, <4>2, <5>1
        <5>3. stored[order[k]] \in 1..made /\ Released(stored[order[k]])
          BY <1>3, <1>4, <2>3, <3>2, <5>1, <5>2 DEF CloseOK
        <5>. PICK i : i = stored[order[k]]
          OBVIOUS
        <5>4. i \in 1..made /\ Released(i)
          BY <5>3 DEF Released
        <5>5. Released(i)'
          BY <1>7, <5>4
        <5>. QED BY <5>2, <5>5
      <4>. QED BY <4>1, <4>2
    <3>3. (\A k \in DOMAIN order : k < pos => Released(stored[order[k]]))'
      BY <1>2, <3>2, PassedReleased
    <3>. QED BY <3>1, <3>3
  <2>4. ASSUME close \in {"clearing", "done"}, NEW i \in 1..(made + 1)
        PROVE  Released(i)'
    <3>1. i = new \/ i \in 1..made
      BY <1>4
    <3>2. CASE i = new
      BY <1>8, <2>4, <3>2
    <3>3. CASE i \in 1..made
      <4>1. Released(i)
        BY <1>3, <2>4, <3>3 DEF CloseOK
      <4>. QED BY <1>7, <3>3, <4>1
    <3>. QED BY <3>1, <3>2, <3>3
  <2>5. close = "raised" => ended > began
    BY <1>3 DEF CloseOK
  <2>. QED BY <1>1, <1>2, <2>1, <2>2, <2>3, <2>4, <2>5 DEF CloseOK
<1>. QED BY <1>5, <1>6, <1>9 DEF World
\* An engine that close takes from an instance can only be one loaded again later.
LEMMA EngineLoadWorld ==
  ASSUME IInv, NEW t \in Threads, EngineLoad(t)
  PROVE  World
<1>. PICK own : own = inst[t]
  OBVIOUS
<1>1. /\ UNCHANGED <<classes, order, stored, made, unclosed, up, close, pos, size,
                     replaced, began, ended>>
      /\ Keys' = Keys
      /\ \/ loaded' = loaded \cup {own} /\ excused' = excused \cup ({own} \ unclosed)
         \/ loaded' = loaded /\ excused' = excused
  BY DEF EngineLoad, closeVars, Keys
<1>2. WorldTypeOK /\ DictOK /\ CloseOK /\ own \in Nat
  BY DEF IInv, TypeOK, RequestTypeOK
<1>3. WorldTypeOK'
  BY <1>1, <1>2 DEF WorldTypeOK
<1>4. DictOK'
  BY <1>1, <1>2 DEF DictOK, Once
<1>5. ASSUME NEW i, Released(i) PROVE Released(i)'
  BY <1>1, <1>5 DEF Released
<1>6. CloseOK'
  <2>1. close \in {"open", "iterating"} =>
          \A i \in 1..made : i \in excused' \/ \E n \in Keys : stored[n] = i
    BY <1>1, <1>2 DEF CloseOK
  <2>2. ASSUME close = "iterating"
        PROVE  (\A k \in DOMAIN order : k < pos => Released(stored[order[k]]))'
    <3>1. ASSUME NEW k \in DOMAIN order', k < pos
          PROVE  \E i : i = stored'[order'[k]] /\ Released(i)'
      <4>. PICK i : i = stored[order[k]]
        OBVIOUS
      <4>1. Released(stored[order[k]])
        BY <1>1, <1>2, <2>2, <3>1 DEF CloseOK
      <4>2. Released(i)
        BY <4>1 DEF Released
      <4>3. Released(i)'
        BY <1>5, <4>2
      <4>. QED BY <1>1, <4>3
    <3>. QED BY <1>1, <3>1, PassedReleased
  <2>3. ASSUME close \in {"clearing", "done"}, NEW i \in 1..made
        PROVE  Released(i)'
    <3>1. Released(i)
      BY <1>2, <2>3 DEF CloseOK
    <3>. QED BY <1>5, <3>1
  <2>4. /\ close # "open" => began <= made
        /\ close = "iterating" => size <= Len(order) /\ (Len(order) > size => made > began)
        /\ close = "raised" => ended > began
    BY <1>2 DEF CloseOK
  <2>. QED BY <1>1, <2>1, <2>2, <2>3, <2>4 DEF CloseOK
<1>. QED BY <1>3, <1>4, <1>6 DEF World

\* The instance that loses its place was replaced.
LEMMA RegisterWorld ==
  ASSUME IInv, NEW n \in Names, Register(n)
  PROVE  World
<1>1. /\ close = "open" /\ classes' = classes \cup {n} /\ replaced' = replaced \cup {n}
      /\ UNCHANGED <<made, unclosed, loaded, up, close, pos, size, began, ended>>
      /\ excused' = excused \cup IF n \in Keys THEN {stored[n]} ELSE {}
      /\ stored' = [stored EXCEPT ![n] = 0]
      /\ PopInstance(n)
  BY DEF Register, PopInstance, Drops, closeVars
<1>2. /\ order' \in Seq(Names) /\ Once(order')
      /\ \A x : x \in Keys' <=> x \in Keys /\ x # n
      /\ \A m \in Names : stored'[m] = IF m = n THEN 0 ELSE stored[m]
  BY <1>1, Pops
<1>3. WorldTypeOK /\ DictOK /\ CloseOK
  BY DEF IInv, TypeOK
<1>4. Keys \subseteq Names
  BY <1>3 DEF WorldTypeOK, Keys, Range
<1>5. WorldTypeOK'
  <2>1. stored' \in [Names -> Nat] /\ excused' \subseteq Nat
    BY <1>1, <1>3, <1>4 DEF WorldTypeOK
  <2>. QED BY <1>1, <1>2, <1>3, <2>1 DEF WorldTypeOK
<1>6. DictOK'
  <2>1. ASSUME NEW m \in Keys' PROVE stored'[m] \in 1..made
    BY <1>2, <1>3, <1>4, <2>1 DEF DictOK
  <2>. QED BY <1>1, <1>2, <2>1 DEF DictOK
<1>7. CloseOK'
  <2>1. ASSUME NEW i \in 1..made
        PROVE  i \in excused' \/ \E m \in Keys' : stored'[m] = i
    <3>1. CASE i \in excused
      BY <1>1, <3>1
    <3>2. CASE \E m \in Keys : stored[m] = i
      BY <1>1, <1>2, <1>4, <3>2
    <3>. QED BY <1>1, <1>3, <3>1, <3>2 DEF CloseOK
  <2>. QED BY <1>1, <2>1 DEF CloseOK
<1>. QED BY <1>5, <1>6, <1>7 DEF World

LEMMA CloseBeginWorld ==
  ASSUME IInv, CloseBegin
  PROVE  World
<1>1. /\ close = "open" /\ close' = "iterating" /\ pos' = 1 /\ size' = Len(order)
      /\ began' = made /\ Keys' = Keys
      /\ UNCHANGED <<classes, order, stored, made, unclosed, loaded, up, replaced, excused, ended>>
  BY DEF CloseBegin, registryVars, Keys
<1>2. WorldTypeOK /\ DictOK /\ CloseOK
  BY DEF IInv, TypeOK
<1>3. Len(order) \in Nat /\ DOMAIN order = 1..Len(order) /\ made \in Nat
  BY <1>2 DEF WorldTypeOK
<1>4. WorldTypeOK'
  BY <1>1, <1>2, <1>3 DEF WorldTypeOK
<1>5. DictOK'
  BY <1>1, <1>2 DEF DictOK, Once
<1>6. CloseOK'
  <2>1. \A i \in 1..made : i \in excused \/ \E n \in Keys : stored[n] = i
    BY <1>1, <1>2 DEF CloseOK
  <2>. QED BY <1>1, <1>3, <2>1 DEF CloseOK
<1>. QED BY <1>4, <1>5, <1>6 DEF World

LEMMA CloseNextWorld ==
  ASSUME IInv, CloseNext
  PROVE  World
<1>1. /\ close = "iterating"
      /\ UNCHANGED <<classes, order, stored, made, up, replaced, excused, began>>
      /\ Keys' = Keys
  BY DEF CloseNext, Keys
<1>2. WorldTypeOK /\ DictOK /\ CloseOK
  BY DEF IInv, TypeOK
<1>3. /\ Len(order) \in Nat /\ DOMAIN order = 1..Len(order) /\ made \in Nat
      /\ pos \in Nat /\ size \in Nat /\ began <= made /\ size <= Len(order)
      /\ Len(order) > size => made > began
      /\ \A k \in DOMAIN order : k < pos => Released(stored[order[k]])
      /\ \A i \in 1..made : i \in excused \/ \E n \in Keys : stored[n] = i
  BY <1>1, <1>2 DEF WorldTypeOK, CloseOK
<1>4. DictOK'
  BY <1>1, <1>2 DEF DictOK, Once
<1>5. CASE /\ Len(order) # size
           /\ close' = "raised" /\ pos' = 0 /\ size' = 0
           /\ ended' = made
           /\ UNCHANGED <<unclosed, loaded>>
  <2>1. WorldTypeOK'
    BY <1>1, <1>2, <1>3, <1>5 DEF WorldTypeOK
  <2>2. made > began
    <3>1. Len(order) \in Nat /\ size \in Nat /\ size <= Len(order) /\ Len(order) # size
      BY <1>3, <1>5
    <3>2. Len(order) > size
      BY <3>1
    <3>. QED BY <1>3, <3>2
  <2>3. CloseOK'
    BY <1>1, <1>3, <1>5, <2>2 DEF CloseOK
  <2>. QED BY <1>4, <2>1, <2>3 DEF World
<1>6. CASE /\ Len(order) = size /\ pos <= size
           /\ CloseOne(stored[order[pos]])
           /\ pos' = pos + 1
           /\ UNCHANGED <<close, size, ended>>
  <2>. PICK own : own = stored[order[pos]]
    OBVIOUS
  <2>1. unclosed' = unclosed \ {own} /\ loaded' = loaded \ {own}
    BY <1>6 DEF CloseOne
  <2>2. WorldTypeOK'
    <3>1. pos' \in Nat /\ unclosed' \subseteq unclosed /\ loaded' \subseteq loaded
          /\ UNCHANGED <<close, size, ended>>
      BY <1>3, <1>6, <2>1
    <3>. QED BY <1>1, <1>2, <3>1 DEF WorldTypeOK
  <2>3. ASSUME NEW i, i = own \/ Released(i) PROVE Released(i)'
    BY <1>1, <2>1, <2>3 DEF Released
  <2>4. ASSUME NEW k \in DOMAIN order', k < pos'
        PROVE  \E i : i = stored'[order'[k]] /\ Released(i)'
    <3>. PICK i : i = stored[order[k]]
      OBVIOUS
    <3>1. k = pos \/ k < pos
      BY <1>1, <1>3, <1>6, <2>4
    <3>2. CASE k = pos
      <4>1. i = own
        BY <3>2
      <4>2. Released(i)'
        BY <2>3, <4>1
      <4>. QED BY <1>1, <4>2
    <3>3. CASE k < pos
      <4>1. Released(stored[order[k]])
        BY <1>1, <1>3, <2>4, <3>3
      <4>2. Released(i)
        BY <4>1 DEF Released
      <4>3. Released(i)'
        BY <2>3, <4>2
      <4>. QED BY <1>1, <4>3
    <3>. QED BY <3>1, <3>2, <3>3
  <2>5. (\A k \in DOMAIN order : k < pos => Released(stored[order[k]]))'
    BY <2>4, PassedReleased
  <2>6. CloseOK'
    BY <1>1, <1>3, <1>6, <2>5 DEF CloseOK
  <2>. QED BY <1>4, <2>2, <2>6 DEF World
<1>7. CASE /\ Len(order) = size /\ pos > size
           /\ close' = "clearing"
           /\ UNCHANGED <<unclosed, loaded, pos, size, ended>>
  <2>1. WorldTypeOK'
    BY <1>1, <1>2, <1>7 DEF WorldTypeOK
  <2>2. ASSUME NEW i \in 1..made PROVE Released(i)
    <3>1. CASE i \in excused
      BY <3>1 DEF Released
    <3>2. CASE \E n \in Keys : stored[n] = i
      <4>1. PICK k \in DOMAIN order : stored[order[k]] = i
        BY <3>2 DEF Keys, Range
      <4>2. k < pos
        BY <1>3, <1>7, <4>1
      <4>3. Released(stored[order[k]])
        BY <1>3, <4>1, <4>2
      <4>. QED BY <4>1, <4>3 DEF Released
    <3>. QED BY <1>3, <3>1, <3>2
  <2>3. ASSUME NEW i \in 1..made PROVE Released(i)'
    BY <1>1, <1>7, <2>2 DEF Released
  <2>4. CloseOK'
    BY <1>1, <1>3, <1>7, <2>3 DEF CloseOK
  <2>. QED BY <1>4, <2>1, <2>4 DEF World
<1>. QED BY <1>5, <1>6, <1>7 DEF CloseNext

LEMMA CloseClearWorld ==
  ASSUME IInv, CloseClear
  PROVE  World
<1>1. /\ close = "clearing" /\ close' = "done" /\ order' = <<>>
      /\ stored' = [n \in Names |-> 0] /\ pos' = 0 /\ size' = 0
      /\ UNCHANGED <<classes, made, unclosed, loaded, up, replaced, excused, began, ended>>
  BY DEF CloseClear, pastVars
<1>2. WorldTypeOK /\ DictOK /\ CloseOK
  BY DEF IInv, TypeOK
<1>3. WorldTypeOK'
  BY <1>1, <1>2 DEF WorldTypeOK
<1>4. Keys' = {} /\ DOMAIN order' = {}
  BY <1>1 DEF Keys, Range
<1>5. DictOK'
  BY <1>4 DEF DictOK, Once
<1>6. ASSUME NEW i \in 1..made PROVE Released(i)'
  <2>1. Released(i)
    BY <1>1, <1>2 DEF CloseOK
  <2>. QED BY <1>1, <2>1 DEF Released
<1>7. began <= made
  BY <1>1, <1>2 DEF CloseOK
<1>8. CloseOK'
  BY <1>1, <1>6, <1>7 DEF CloseOK
<1>. QED BY <1>3, <1>5, <1>8 DEF World

-----------------------------------------------------------------------------
(* The invariant, and what it says *)

LEMMA InitHolds == ASSUME Init PROVE IInv
<1>1. /\ order = <<>> /\ stored = [n \in Names |-> 0] /\ made = 0 /\ unclosed = {} /\ loaded = {}
      /\ up \in [Names -> BOOLEAN] /\ close = "open" /\ pos = 0 /\ size = 0
      /\ replaced = {} /\ excused = {} /\ began = 0 /\ ended = 0
  BY DEF Init
<1>2. classes \subseteq Names
  BY NamesAssumption DEF Init
<1>3. WorldTypeOK
  BY <1>1, <1>2 DEF WorldTypeOK
<1>4. RequestTypeOK
  BY DEF Init, RequestTypeOK, Pcs
<1>5. DictOK
  BY <1>1 DEF DictOK, Once, Keys, Range
<1>6. ASSUME NEW t \in Threads PROVE ThreadOK(t)
  <2>1. pc[t] = "idle" /\ out[t] = None
    BY DEF Init
  <2>2. RequestOK(t)
    BY <2>1, NoneAssumption DEF RequestOK, AtName, Holding, Outcomes
  <2>3. ThereOK(t)
    BY <2>1, NoneAssumption DEF ThereOK, Outcomes
  <2>4. DownOK(t) /\ AutoOK(t) /\ ListOK(t)
    BY <2>1 DEF DownOK, AutoOK, ListOK, Started
  <2>. QED BY <2>2, <2>3, <2>4 DEF ThreadOK
<1>7. CloseOK
  BY <1>1 DEF CloseOK
<1>. QED BY <1>3, <1>4, <1>5, <1>6, <1>7 DEF IInv, TypeOK, ThreadsOK

\* Steps that leave the registry and its shutdown alone.
LEMMA QuietWorld ==
  ASSUME IInv, NEW t \in Threads,
         RequestOnly \/ Begin(t) \/ \E n \in Names : Change(n)
  PROVE  World
<1>1. UNCHANGED <<registryVars, closeVars, replaced, excused, began, ended>>
  BY DEF RequestOnly, Begin, Change, pastVars
<1>2. up' \in [Names -> BOOLEAN]
  BY DEF RequestOnly, Begin, Change, IInv, TypeOK, WorldTypeOK
<1>. QED BY <1>1, <1>2, SameWorld

LEMMA Inductive == ASSUME IInv, [Next]_vars PROVE IInv'
<1>1. SUFFICES Moves /\ World
  BY DEF Moves, World, IInv, TypeOK
<1>2. ASSUME NEW t \in Threads, Begin(t) PROVE Moves /\ World
  BY <1>2, BeginMoves, QuietWorld
<1>3. ASSUME NEW t \in Threads, Step(t) PROVE Moves /\ World
  <2>1. CASE Exhausted(t)
    BY <2>1, ExhaustedMoves, QuietWorld DEF Exhausted
  <2>2. CASE GetCheck(t)
    BY <2>2, GetCheckMoves, QuietWorld DEF GetCheck
  <2>3. CASE GetStore(t)
    BY <2>3, GetStoreMoves, GetStoreWorld
  <2>4. CASE GetRead(t)
    BY <2>4, GetReadMoves, QuietWorld DEF GetRead
  <2>5. CASE Availability(t)
    BY <2>5, AvailabilityMoves, QuietWorld DEF Availability
  <2>6. CASE Call(t)
    BY <2>6, CallMoves, QuietWorld DEF Call
  <2>7. CASE EngineLoad(t)
    BY <2>7, EngineLoadMoves, EngineLoadWorld
  <2>8. CASE EngineRead(t)
    BY <2>8, EngineReadMoves, QuietWorld DEF EngineRead
  <2>. QED BY <1>3, <2>1, <2>2, <2>3, <2>4, <2>5, <2>6, <2>7, <2>8 DEF Step
<1>4. ASSUME NEW n \in Names, Change(n) PROVE Moves /\ World
  <2>1. UNCHANGED <<registryVars, closeVars, replaced, excused, began, ended>>
    BY <1>4 DEF Change
  <2>2. up' \in [Names -> BOOLEAN]
    BY <1>4 DEF Change, IInv, TypeOK, WorldTypeOK
  <2>. QED BY <1>4, <2>1, <2>2, ChangeMoves, SameWorld
<1>5. ASSUME NEW n \in Names, Register(n) PROVE Moves /\ World
  BY <1>5, RegisterMoves, RegisterWorld
<1>6. ASSUME Close PROVE Moves /\ World
  BY <1>6, CloseMoves, CloseBeginWorld, CloseNextWorld, CloseClearWorld DEF Close
<1>7. CASE UNCHANGED vars
  <2>1. /\ UNCHANGED <<registryVars, closeVars, replaced, excused, began, ended>>
        /\ up' = up /\ UNCHANGED <<requestVars, down>>
    BY <1>7 DEF vars, pastVars
  <2>2. up' \in [Names -> BOOLEAN]
    BY <2>1 DEF IInv, TypeOK, WorldTypeOK
  <2>3. World
    BY <2>1, <2>2, SameWorld
  <2>4. RequestTypeOK'
    BY <2>1 DEF IInv, TypeOK, RequestTypeOK, requestVars
  <2>5. ASSUME NEW t \in Threads PROVE ThreadOK(t)'
    <3>1. ThreadOK(t)
      BY DEF IInv, ThreadsOK
    <3>2. /\ pc' = pc /\ op' = op /\ pick' = pick /\ todo' = todo /\ inst' = inst
          /\ shown' = shown /\ out' = out /\ down' = down /\ close' = close
          /\ made' = made /\ loaded' = loaded /\ order' = order /\ replaced' = replaced
          /\ classes' = classes /\ up' = up
      BY <2>1 DEF requestVars, registryVars, closeVars
    <3>3. RequestOK(t)' /\ ThereOK(t)'
      BY <3>1, <3>2 DEF ThreadOK, RequestOK, ThereOK, Raced, Name, Keys
    <3>4. DownOK(t)' /\ AutoOK(t)' /\ ListOK(t)'
      BY <3>1, <3>2 DEF ThreadOK, DownOK, AutoOK, ListOK, Started, Unusable, Owed
    <3>. QED BY <3>3, <3>4 DEF ThreadOK
  <2>. QED BY <2>3, <2>4, <2>5 DEF Moves, ThreadsOK
<1>. QED BY <1>2, <1>3, <1>4, <1>5, <1>6, <1>7 DEF Next

\* The first of the rest of a list comes right after what was passed over.
LEMMA FirstOfRest ==
  ASSUME NEW names \in Seq(Names), NEW tail \in Seq(Names), NEW bad,
         tail # <<>>, Rest(names, tail, bad)
  PROVE  \E i \in DOMAIN names :
            names[i] = Head(tail) /\ \A j \in 1..(i - 1) : names[j] \in bad
<1>. PICK n \in Nat : n = Len(names)
  OBVIOUS
<1>. PICK m \in Nat : m = Len(tail)
  OBVIOUS
<1>. PICK past : past = n - m
  OBVIOUS
<1>1. m >= 1 /\ Head(tail) = tail[1] /\ DOMAIN names = 1..n
  OBVIOUS
<1>2. /\ past \in Nat /\ \A j \in 1..past : names[j] \in bad
      /\ \A i \in 1..m : tail[i] = names[past + i]
  BY DEF Rest
<1>3. past + 1 \in 1..n /\ (past + 1) - 1 = past
  <2>1. past = n - m /\ n \in Nat /\ m \in Nat /\ past \in Nat /\ m >= 1
    BY <1>1, <1>2
  <2>. QED BY ONLY <2>1
<1>4. 1 \in 1..m
  BY <1>1
<1>. QED BY <1>1, <1>2, <1>3, <1>4

\* However requests, the machine, an embedder and the shutdown interleave, the
\* registry, each request and the shutdown fit together.
THEOREM Invariance == Spec => []IInv
<1>1. Init => IInv
  BY InitHolds
<1>2. IInv /\ [Next]_vars => IInv'
  BY Inductive
<1>. QED BY <1>1, <1>2, PTL DEF Spec

\* An auto request passes over a better provider only if that one was unusable at
\* some moment of the request.
THEOREM AutoKeepsPriorityHolds == Spec => []AutoKeepsPriority
<1>1. ASSUME IInv PROVE AutoKeepsPriority
  <2>1. ASSUME NEW t \in Threads, Done(t), op[t] = "speak", pick[t] = "auto",
               out[t] \in {"clip", "SynthesisError"}
        PROVE  \E i \in DOMAIN Priority :
                  Priority[i] = Name(t) /\ \A j \in 1..(i - 1) : Priority[j] \in down[t]
    <3>1. ThreadOK(t) /\ todo[t] \in Seq(Names)
      BY <1>1 DEF IInv, TypeOK, RequestTypeOK, ThreadsOK
    <3>2. todo[t] # <<>> /\ Rest(Priority, todo[t], down[t])
      BY <2>1, <3>1 DEF ThreadOK, RequestOK, AutoOK, Started, Done
    <3>. QED BY <3>1, <3>2, NamesAssumption, FirstOfRest DEF Name
  <2>. QED BY <2>1 DEF AutoKeepsPriority
<1>. QED BY <1>1, Invariance, PTL

\* The listing of all voices shows every provider that was usable all along.
THEOREM ListingCompleteHolds == Spec => []ListingComplete
<1>1. ASSUME IInv PROVE ListingComplete
  <2>1. ASSUME NEW t \in Threads, Done(t), op[t] = "voices", pick[t] = "all", close = "open"
        PROVE  Names \ (down[t] \cup Crashing \cup replaced) \subseteq shown[t]
    <3>1. ListOK(t)
      BY <1>1 DEF IInv, ThreadsOK, ThreadOK
    <3>2. todo[t] = <<>> /\ Owed(t) \subseteq shown[t] \cup Range(todo[t])
      BY <2>1, <3>1 DEF ListOK, Started, Done
    <3>. QED BY <3>2 DEF Owed, Range
  <2>. QED BY <2>1 DEF ListingComplete
<1>. QED BY <1>1, Invariance, PTL

\* A close that returned released what was in the registry when it began, but for
\* what raced with it; it raises only when a request added an instance under it.
THEOREM ShutdownReleasesHolds == Spec => []ShutdownReleases
<1>1. ASSUME IInv PROVE ShutdownReleases
  <2>1. began \in Nat /\ made \in Nat /\ CloseOK
    BY <1>1 DEF IInv, TypeOK, WorldTypeOK
  <2>2. ASSUME close = "done", NEW i \in 1..began, i \in unclosed \cup loaded
        PROVE  i \in excused
    <3>1. i \in 1..made /\ ~ (i > began)
      BY <2>1, <2>2 DEF CloseOK
    <3>2. Released(i)
      BY <2>1, <2>2, <3>1 DEF CloseOK
    <3>. QED BY <2>2, <3>1, <3>2 DEF Released
  <2>. QED BY <2>1, <2>2 DEF ShutdownReleases, CloseOK
<1>. QED BY <1>1, Invariance, PTL

\* A request fails on the second read of get() only when the registry was emptied
\* or its provider registered anew under it.
THEOREM OnlyRacesRaiseHolds == Spec => []OnlyRacesRaise
<1>1. ASSUME IInv PROVE OnlyRacesRaise
  BY <1>1 DEF IInv, ThreadsOK, ThreadOK, ThereOK, Raced, OnlyRacesRaise
<1>. QED BY <1>1, Invariance, PTL
=============================================================================
