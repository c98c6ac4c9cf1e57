-------------------------- MODULE SynthesisCacheProofs --------------------------
(***************************************************************************)
(* Theorems about the clip cache, for any number of threads and clips, any *)
(* sizes and budget, and any number of faults and restarts.                *)
(*                                                                         *)
(* The budget is about a sum, so the first part is about sums over finite  *)
(* sets.  It uses that every non-empty set of subsets of a finite set has  *)
(* a minimal member, in place of an induction.                             *)
(***************************************************************************)
EXTENDS SynthesisCacheProperties, FiniteSetTheorems, SequenceTheorems, WellFoundedInduction,
        TLAPS

-----------------------------------------------------------------------------
(* The inductive invariant *)

\* An index, and its keys in the order of their last use: the order of atime.
IndexOK(ix, uses) ==
    /\ DOMAIN ix \subseteq Keys /\ IsFiniteSet(DOMAIN ix)
    /\ \A k \in DOMAIN ix : ix[k] \in Entry
    /\ uses \in Seq(Keys) /\ Range(uses) = DOMAIN ix
    /\ \A i, j \in DOMAIN uses : i < j => ix[uses[i]].atime < ix[uses[j]].atime

\* Only an eviction that is under way has an index over the budget, and what was
\* saved was within it.
BudgetOK ==
    /\ (\A t \in Threads : pc[t] # "evict") => Bytes(index) <= MaxBytes
    /\ Bytes(saved.entries) <= MaxBytes

WholeOK == (\A k \in DOMAIN blobs : blobs[k].whole) /\ HitIsWhole

RequestOK ==
    /\ faults \in Nat
    /\ \A t \in Threads :
          /\ pc[t] # "idle" => key[t] \in Keys
          /\ pc[t] \in {"put", "replace", "index"} => clip[t] \in Sizes

\* Without faults only a clip that was written and is not yet indexed differs.
DiskOK ==
    faults = 0 =>
        /\ \A k \in Keys :
              (\A t \in Threads : pc[t] = "index" => key[t] # k) =>
                  /\ k \in DOMAIN blobs <=> k \in DOMAIN index
                  /\ k \in DOMAIN index => blobs[k].size = index[k].size
        /\ \A t \in Threads : pc[t] = "index" =>
              key[t] \in DOMAIN blobs /\ blobs[key[t]].size = clip[t]

IInv ==
    /\ TypeOK /\ RequestOK
    /\ IndexOK(index, recency) /\ IndexOK(saved.entries, saved.recency)
    /\ BudgetOK /\ WholeOK /\ DiskOK

-----------------------------------------------------------------------------
(* Sums of sizes *)

Total(f, S) == MapThenSumSet(LAMBDA k : f[k].size, S)

Pick(S) == CHOOSE x \in S : TRUE

\* g gives the total of every subset of S, one member after another.
Totals(g, f, S) ==
    g = [s \in SUBSET S |-> IF s = {} THEN 0 ELSE f[Pick(s)].size + g[s \ {Pick(s)}]]

LEMMA BytesIsTotal == \A f : Bytes(f) = Total(f, DOMAIN f)
  BY DEF Bytes, Total

LEMMA TotalChosen ==
  ASSUME NEW f, NEW S
  PROVE  Total(f, S) = (CHOOSE g : Totals(g, f, S))[S]
  BY DEF Total, MapThenSumSet, MapThenFoldSet, Totals, Pick

LEMMA PickIn == ASSUME NEW S, S # {} PROVE Pick(S) \in S
  BY DEF Pick

\* A set of subsets of a finite set has a minimal member.
LEMMA Minimal ==
  ASSUME NEW S, IsFiniteSet(S), NEW T, T \subseteq SUBSET S, T # {}
  PROVE  \E U \in T : \A V \in T : V \subseteq U => V = U
<1>1. IsWellFoundedOn(StrictSubsetOrdering(S), SUBSET S)
  BY FS_StrictSubsetOrderingWellFounded, FS_FiniteSubsetsOfFinite
<1>2. \E U \in T : \A V \in T : ~ (<<V, U>> \in StrictSubsetOrdering(S))
  BY <1>1, WFMin
<1>. QED BY <1>2 DEF StrictSubsetOrdering

\* The totals of the subsets are determined.
LEMMA TotalsUnique ==
  ASSUME NEW f, NEW S, IsFiniteSet(S), NEW g, NEW h, Totals(g, f, S), Totals(h, f, S)
  PROVE  g = h
<1>1. ASSUME NEW s \in SUBSET S
      PROVE  /\ g[s] = IF s = {} THEN 0 ELSE f[Pick(s)].size + g[s \ {Pick(s)}]
             /\ h[s] = IF s = {} THEN 0 ELSE f[Pick(s)].size + h[s \ {Pick(s)}]
  BY DEF Totals
<1>. DEFINE T == {s \in SUBSET S : g[s] # h[s]}
<1>2. T = {}
  <2>1. SUFFICES ASSUME T # {} PROVE FALSE
    OBVIOUS
  <2>2. T \subseteq SUBSET S
    OBVIOUS
  <2>. HIDE DEF T
  <2>3. PICK U \in T : \A V \in T : V \subseteq U => V = U
    BY <2>1, <2>2, Minimal
  <2>4. U \in SUBSET S /\ g[U] # h[U] /\ \A V \in SUBSET U : V # U => g[V] = h[V]
    BY <2>3 DEF T
  <2>5. U # {}
    BY <1>1, <2>4
  <2>6. Pick(U) \in U /\ U \ {Pick(U)} \in SUBSET U /\ U \ {Pick(U)} # U
    BY <2>5, PickIn
  <2>7. g[U \ {Pick(U)}] = h[U \ {Pick(U)}]
    BY <2>4, <2>6
  <2>. QED BY <1>1, <2>4, <2>5, <2>7
<1>3. g = [s \in SUBSET S |-> g[s]] /\ h = [s \in SUBSET S |-> h[s]]
  BY DEF Totals
<1>. QED BY <1>2, <1>3

\* What gives the totals of the subsets of S gives those of a part of S.
LEMMA TotalOfPart ==
  ASSUME NEW f, NEW S, IsFiniteSet(S), NEW g, Totals(g, f, S), NEW U \in SUBSET S
  PROVE  Total(f, U) = g[U]
<1>. DEFINE h == [s \in SUBSET U |-> g[s]]
<1>1. \A s \in SUBSET S : g[s] = IF s = {} THEN 0 ELSE f[Pick(s)].size + g[s \ {Pick(s)}]
  BY DEF Totals
<1>2. ASSUME NEW s \in SUBSET U
      PROVE  h[s] = IF s = {} THEN 0 ELSE f[Pick(s)].size + h[s \ {Pick(s)}]
  <2>1. s \in SUBSET S /\ s \ {Pick(s)} \in SUBSET U
    OBVIOUS
  <2>2. h[s] = g[s] /\ h[s \ {Pick(s)}] = g[s \ {Pick(s)}]
    BY <2>1
  <2>. QED BY <1>1, <2>1, <2>2
<1>3. h = [s \in SUBSET U |-> h[s]]
  OBVIOUS
<1>4. h[U] = g[U]
  OBVIOUS
<1>. HIDE DEF h
<1>5. Totals(h, f, U)
  BY <1>2, <1>3 DEF Totals
<1>6. Totals(CHOOSE k : Totals(k, f, U), f, U)
  BY <1>5
<1>7. (CHOOSE k : Totals(k, f, U)) = h
  BY <1>5, <1>6, TotalsUnique, FS_Subset
<1>. QED BY <1>4, <1>7, TotalChosen

\* Of every finite set the totals of the subsets can be given.
LEMMA TotalsExist ==
  ASSUME NEW f, NEW S, IsFiniteSet(S)
  PROVE  \E g : Totals(g, f, S)
<1>. DEFINE T == {U \in SUBSET S : ~ \E g : Totals(g, f, U)}
<1>1. T = {}
  <2>1. SUFFICES ASSUME T # {} PROVE FALSE
    OBVIOUS
  <2>. HIDE DEF T
  <2>2. PICK U \in SUBSET S : /\ ~ \E g : Totals(g, f, U)
                              /\ \A V \in T : V \subseteq U => V = U
    <3>1. T \subseteq SUBSET S
      BY DEF T
    <3>2. PICK U \in T : \A V \in T : V \subseteq U => V = U
      BY <2>1, <3>1, Minimal
    <3>. QED BY <3>1, <3>2 DEF T
  <2>3. \A V \in SUBSET U : V # U => \E g : Totals(g, f, V)
    BY <2>2 DEF T
  <2>4. IsFiniteSet(U) /\ \A V \in SUBSET U : IsFiniteSet(V)
    BY <2>2, FS_Subset
  <2>5. ASSUME NEW V \in SUBSET U, V # U
        PROVE  Total(f, V) = IF V = {} THEN 0 ELSE f[Pick(V)].size + Total(f, V \ {Pick(V)})
    <3>1. PICK g : Totals(g, f, V)
      BY <2>3, <2>5
    <3>2. \A W \in SUBSET V : Total(f, W) = g[W]
      <4>1. IsFiniteSet(V)
        BY <2>4
      <4>. QED BY <3>1, <4>1, TotalOfPart
    <3>3. g[V] = IF V = {} THEN 0 ELSE f[Pick(V)].size + g[V \ {Pick(V)}]
      BY <3>1 DEF Totals
    <3>. QED BY <3>2, <3>3
  <2>. DEFINE g == [s \in SUBSET U |-> IF s = {} THEN 0
                                       ELSE f[Pick(s)].size + Total(f, s \ {Pick(s)})]
  <2>6. ASSUME NEW s \in SUBSET U, s # {} PROVE g[s \ {Pick(s)}] = Total(f, s \ {Pick(s)})
    <3>1. Pick(s) \in s /\ s \ {Pick(s)} \in SUBSET U /\ s \ {Pick(s)} # U
      BY <2>6, PickIn
    <3>. QED BY <2>5, <3>1
  <2>7. Totals(g, f, U)
    <3>1. \A s \in SUBSET U : g[s] = IF s = {} THEN 0 ELSE f[Pick(s)].size + g[s \ {Pick(s)}]
      BY <2>6
    <3>2. g = [s \in SUBSET U |-> g[s]]
      OBVIOUS
    <3>. HIDE DEF g
    <3>. QED BY <3>1, <3>2 DEF Totals
  <2>. QED BY <2>2, <2>7
<1>. QED BY <1>1

\* A total is taken one member after another.
LEMMA TotalStep ==
  ASSUME NEW f, NEW S, IsFiniteSet(S)
  PROVE  Total(f, S) = IF S = {} THEN 0 ELSE f[Pick(S)].size + Total(f, S \ {Pick(S)})
<1>1. PICK g : Totals(g, f, S)
  BY TotalsExist
<1>2. \A W \in SUBSET S : Total(f, W) = g[W]
  BY <1>1, TotalOfPart
<1>3. g[S] = IF S = {} THEN 0 ELSE f[Pick(S)].size + g[S \ {Pick(S)}]
  BY <1>1 DEF Totals
<1>. QED BY <1>2, <1>3

\* The total of sizes is a size.
LEMMA TotalType ==
  ASSUME NEW f, NEW S, IsFiniteSet(S), \A x \in S : f[x].size \in Nat
  PROVE  Total(f, S) \in Nat
<1>. DEFINE T == {U \in SUBSET S : Total(f, U) \notin Nat}
<1>1. SUFFICES ASSUME T # {} PROVE FALSE
  OBVIOUS
<1>. HIDE DEF T
<1>2. PICK U \in SUBSET S : /\ Total(f, U) \notin Nat
                            /\ \A V \in SUBSET U : V # U => Total(f, V) \in Nat
  <2>1. T \subseteq SUBSET S
    BY DEF T
  <2>2. PICK U \in T : \A V \in T : V \subseteq U => V = U
    BY <1>1, <2>1, Minimal
  <2>. QED BY <2>1, <2>2 DEF T
<1>3. IsFiniteSet(U)
  BY FS_Subset
<1>4. CASE U = {}
  <2>1. Total(f, U) = 0
    BY <1>3, <1>4, TotalStep
  <2>. QED BY <1>2, <2>1
<1>5. CASE U # {}
  <2>1. Pick(U) \in U
    BY <1>5, PickIn
  <2>2. Total(f, U \ {Pick(U)}) \in Nat /\ f[Pick(U)].size \in Nat
    BY <1>2, <2>1
  <2>3. Total(f, U) = f[Pick(U)].size + Total(f, U \ {Pick(U)})
    BY <1>3, <1>5, TotalStep
  <2>. QED BY <1>2, <2>2, <2>3
<1>. QED BY <1>4, <1>5

\* A total does not depend on the order.
LEMMA TotalAny ==
  ASSUME NEW f, NEW S, IsFiniteSet(S), \A x \in S : f[x].size \in Nat, NEW e \in S
  PROVE  Total(f, S) = f[e].size + Total(f, S \ {e})
<1>. DEFINE T == {U \in SUBSET S : \E x \in U : Total(f, U) # f[x].size + Total(f, U \ {x})}
<1>1. SUFFICES ASSUME T # {} PROVE FALSE
  OBVIOUS
<1>. HIDE DEF T
<1>2. PICK U \in SUBSET S :
         /\ \E x \in U : Total(f, U) # f[x].size + Total(f, U \ {x})
         /\ \A V \in SUBSET U : V # U => \A x \in V : Total(f, V) = f[x].size + Total(f, V \ {x})
  <2>1. T \subseteq SUBSET S
    BY DEF T
  <2>2. PICK U \in T : \A V \in T : V \subseteq U => V = U
    BY <1>1, <2>1, Minimal
  <2>. QED BY <2>1, <2>2 DEF T
<1>3. PICK x \in U : Total(f, U) # f[x].size + Total(f, U \ {x})
  BY <1>2
<1>4. \A V \in SUBSET U : IsFiniteSet(V)
  BY FS_Subset
<1>. DEFINE p == Pick(U)
<1>5. p \in U /\ Total(f, U) = f[p].size + Total(f, U \ {p})
  BY <1>4, PickIn, TotalStep
<1>6. x # p
  BY <1>3, <1>5
<1>. HIDE DEF p
<1>7. Total(f, U \ {p}) = f[x].size + Total(f, (U \ {p}) \ {x})
  BY <1>2, <1>5, <1>6
<1>8. Total(f, U \ {x}) = f[p].size + Total(f, (U \ {x}) \ {p})
  BY <1>2, <1>5, <1>6
<1>9. (U \ {p}) \ {x} = (U \ {x}) \ {p}
  OBVIOUS
<1>10. Total(f, (U \ {x}) \ {p}) \in Nat
  <2>1. IsFiniteSet((U \ {x}) \ {p}) /\ \A y \in (U \ {x}) \ {p} : f[y].size \in Nat
    BY <1>4
  <2>. QED BY <2>1, TotalType
<1>11. f[x].size \in Nat /\ f[p].size \in Nat
  BY <1>5
<1>. QED BY <1>3, <1>5, <1>7, <1>8, <1>9, <1>10, <1>11

\* Equal sizes have equal totals.
LEMMA TotalSame ==
  ASSUME NEW f, NEW h, NEW S, IsFiniteSet(S), \A x \in S : f[x].size = h[x].size
  PROVE  Total(f, S) = Total(h, S)
<1>. DEFINE T == {U \in SUBSET S : Total(f, U) # Total(h, U)}
<1>1. SUFFICES ASSUME T # {} PROVE FALSE
  OBVIOUS
<1>. HIDE DEF T
<1>2. PICK U \in SUBSET S : /\ Total(f, U) # Total(h, U)
                            /\ \A V \in SUBSET U : V # U => Total(f, V) = Total(h, V)
  <2>1. T \subseteq SUBSET S
    BY DEF T
  <2>2. PICK U \in T : \A V \in T : V \subseteq U => V = U
    BY <1>1, <2>1, Minimal
  <2>. QED BY <2>1, <2>2 DEF T
<1>3. IsFiniteSet(U)
  BY FS_Subset
<1>4. CASE U = {}
  BY <1>2, <1>3, <1>4, TotalStep
<1>5. CASE U # {}
  <2>1. Pick(U) \in U
    BY <1>5, PickIn
  <2>2. /\ Total(f, U \ {Pick(U)}) = Total(h, U \ {Pick(U)})
        /\ f[Pick(U)].size = h[Pick(U)].size
    BY <1>2, <2>1
  <2>. QED BY <1>2, <1>3, <1>5, <2>2, TotalStep
<1>. QED BY <1>4, <1>5

-----------------------------------------------------------------------------
(* Sequences *)

\* Taking a value out of a sequence without duplicates takes out just that, and
\* leaves the others in their order.
LEMMA RemoveFirstOnce ==
  ASSUME NEW S, NEW s \in Seq(S), NEW e,
         \A i, j \in DOMAIN s : i < j => s[i] # s[j]
  PROVE  /\ RemoveFirst(s, e) \in Seq(S)
         /\ \A i \in DOMAIN RemoveFirst(s, e) : \E m \in DOMAIN s :
               /\ RemoveFirst(s, e)[i] = s[m] /\ s[m] # e
               /\ \A j \in DOMAIN RemoveFirst(s, e) : i < j =>
                     \E n \in DOMAIN s : RemoveFirst(s, e)[j] = s[n] /\ m < n
         /\ \A m \in DOMAIN s : s[m] # e => \E i \in DOMAIN RemoveFirst(s, e) :
               RemoveFirst(s, e)[i] = s[m]
<1>1. DOMAIN s = 1..Len(s) /\ Len(s) \in Nat
  OBVIOUS
<1>2. CASE ~ \E i \in 1..Len(s) : s[i] = e
  <2>1. RemoveFirst(s, e) = s
    BY <1>2 DEF RemoveFirst
  <2>. QED BY <1>1, <1>2, <2>1 DEF Range
<1>3. CASE \E i \in 1..Len(s) : s[i] = e
  <2>1. PICK k \in 1..Len(s) : s[k] = e
    BY <1>3
  <2>. DEFINE I == {i \in 1..Len(s) : s[i] = e}
  <2>2. I = {k}
    BY <1>1, <2>1
  <2>3. SelectInSeq(s, LAMBDA v : v = e) = k
    <3>1. SelectInSeq(s, LAMBDA v : v = e) = IF I # {} THEN Min(I) ELSE 0
      BY DEF SelectInSeq
    <3>2. Min({k}) = k
      BY DEF Min
    <3>. QED BY <2>2, <3>1, <3>2
  <2>. DEFINE r == RemoveFirst(s, e)
  <2>4. r = SubSeq(s, 1, k - 1) \o SubSeq(s, k + 1, Len(s))
    BY <1>3, <2>3 DEF RemoveFirst, RemoveAt
  <2>. DEFINE a == SubSeq(s, 1, k - 1)
              b == SubSeq(s, k + 1, Len(s))
  <2>5. /\ a \in Seq(S) /\ Len(a) = k - 1 /\ \A i \in 1..k - 1 : a[i] = s[i]
        /\ b \in Seq(S) /\ Len(b) = Len(s) - k /\ \A i \in 1..Len(s) - k : b[i] = s[k + i]
    <3>1. \A i \in 1..Len(s) : s[i] \in S
      OBVIOUS
    <3>2. 1..(k - 1) \subseteq 1..Len(s) /\ (k + 1)..Len(s) \subseteq 1..Len(s)
      BY <1>1, <2>1
    <3>3. /\ a \in Seq(S) /\ Len(a) = IF 1 <= k - 1 THEN (k - 1) - 1 + 1 ELSE 0
          /\ \A i \in 1..((k - 1) - 1 + 1) : a[i] = s[1 + i - 1]
      BY <2>1, <3>1, <3>2, SubSeqProperties
    <3>4. /\ b \in Seq(S)
          /\ Len(b) = IF k + 1 <= Len(s) THEN Len(s) - (k + 1) + 1 ELSE 0
          /\ \A i \in 1..(Len(s) - (k + 1) + 1) : b[i] = s[(k + 1) + i - 1]
      BY <1>1, <2>1, <3>1, <3>2, SubSeqProperties
    <3>. HIDE DEF a, b
    <3>5. Len(a) = k - 1 /\ Len(b) = Len(s) - k
      <4>1. k \in Int /\ Len(s) \in Int /\ 1 <= k /\ k <= Len(s)
        BY <1>1, <2>1
      <4>2. Len(a) = IF 1 <= k - 1 THEN (k - 1) - 1 + 1 ELSE 0
        BY <3>3
      <4>3. Len(b) = IF k + 1 <= Len(s) THEN Len(s) - (k + 1) + 1 ELSE 0
        BY <3>4
      <4>4. Len(a) = k - 1
        BY <4>1, <4>2
      <4>5. Len(b) = Len(s) - k
        BY <4>1, <4>3
      <4>. QED BY <4>4, <4>5
    <3>6. ASSUME NEW i \in 1..k - 1 PROVE a[i] = s[i]
      <4>1. i \in 1..((k - 1) - 1 + 1) /\ 1 + i - 1 = i
        BY <2>1
      <4>. QED BY <3>3, <4>1
    <3>7. ASSUME NEW i \in 1..Len(s) - k PROVE b[i] = s[k + i]
      <4>1. i \in 1..(Len(s) - (k + 1) + 1) /\ (k + 1) + i - 1 = k + i
        BY <1>1, <2>1
      <4>. QED BY <3>4, <4>1
    <3>. QED BY <3>3, <3>4, <3>5, <3>6, <3>7
  <2>. HIDE DEF a, b
  <2>6. /\ r \in Seq(S) /\ Len(r) = Len(s) - 1
        /\ \A i \in 1..k - 1 : r[i] = s[i]
        /\ \A i \in k..Len(s) - 1 : r[i] = s[i + 1]
    <3>1. r = a \o b
      BY <2>4 DEF a, b
    <3>2. /\ a \o b \in Seq(S) /\ Len(a \o b) = Len(a) + Len(b)
          /\ \A i \in 1..Len(a) + Len(b) :
                (a \o b)[i] = IF i <= Len(a) THEN a[i] ELSE b[i - Len(a)]
      BY <2>5, ConcatProperties
    <3>. HIDE DEF r
    <3>3. ASSUME NEW i \in k..Len(s) - 1 PROVE r[i] = s[i + 1]
      <4>1. i \in 1..Len(a) + Len(b) /\ ~(i <= Len(a)) /\ i - Len(a) \in 1..Len(s) - k
            /\ k + (i - Len(a)) = i + 1
        BY <1>1, <2>1, <2>5
      <4>. QED BY <2>5, <3>1, <3>2, <4>1
    <3>. QED BY <1>1, <2>1, <2>5, <3>1, <3>2, <3>3
  <2>. HIDE DEF r
  <2>7. DOMAIN r = 1..Len(s) - 1
    BY <1>1, <2>6
  <2>. DEFINE at(i) == IF i < k THEN i ELSE i + 1
  <2>8. ASSUME NEW i \in DOMAIN r
        PROVE  /\ r[i] = s[at(i)] /\ at(i) \in DOMAIN s /\ at(i) # k /\ s[at(i)] # e
               /\ \A j \in DOMAIN r : i < j => at(i) < at(j)
    <3>1. i \in Nat /\ i \in 1..Len(s) - 1
      BY <1>1, <2>7
    <3>2. r[i] = s[at(i)] /\ at(i) \in DOMAIN s /\ at(i) # k
      BY <1>1, <2>1, <2>6, <3>1
    <3>3. \A j \in DOMAIN r : i < j => at(i) < at(j)
      BY <1>1, <2>1, <2>7, <3>1
    <3>4. s[at(i)] # e
      <4>1. at(i) < k \/ k < at(i)
        BY <1>1, <2>1, <3>1
      <4>. QED BY <1>1, <2>1, <3>2, <4>1
    <3>. QED BY <3>2, <3>3, <3>4
  <2>9. ASSUME NEW m \in DOMAIN s, s[m] # e PROVE \E i \in DOMAIN r : r[i] = s[m]
    <3>1. CASE m < k
      BY <1>1, <2>1, <2>6, <2>7, <3>1
    <3>2. CASE m > k
      <4>1. m - 1 \in k..Len(s) - 1 /\ (m - 1) + 1 = m
        BY <1>1, <2>1, <3>2
      <4>2. r[m - 1] = s[m] /\ m - 1 \in DOMAIN r
        BY <1>1, <2>1, <2>6, <2>7, <4>1
      <4>. QED BY <4>2
    <3>. QED BY <1>1, <2>1, <2>9, <3>1, <3>2
  <2>10. ASSUME NEW i \in DOMAIN r
         PROVE  \E m \in DOMAIN s : /\ r[i] = s[m] /\ s[m] # e
                                    /\ \A j \in DOMAIN r : i < j =>
                                          \E n \in DOMAIN s : r[j] = s[n] /\ m < n
    <3>. HIDE DEF at, r
    <3>. QED BY <2>8
  <2>. QED BY <2>6, <2>9, <2>10 DEF r
<1>. QED BY <1>2, <1>3

\* What is appended comes last.
LEMMA AppendFacts ==
  ASSUME NEW S, NEW s \in Seq(S), NEW e \in S
  PROVE  /\ Append(s, e) \in Seq(S)
         /\ Len(s) \in Nat /\ Len(Append(s, e)) = Len(s) + 1
         /\ DOMAIN s = 1..Len(s) /\ DOMAIN Append(s, e) = 1..Len(s) + 1
         /\ \A i \in 1..Len(s) : Append(s, e)[i] = s[i]
         /\ Append(s, e)[Len(s) + 1] = e
         /\ \A i \in 1..Len(s) + 1 : i \in 1..Len(s) \/ i = Len(s) + 1
  OBVIOUS

-----------------------------------------------------------------------------
(* An index *)

\* Uses are distinct.
LEMMA UsesDistinct ==
  ASSUME NEW ix, NEW uses, IndexOK(ix, uses)
  PROVE  /\ \A i, j \in DOMAIN uses : i < j => uses[i] # uses[j]
         /\ \A i \in DOMAIN uses : uses[i] \in DOMAIN ix
         /\ \A k \in DOMAIN ix : ix[k].atime \in Nat /\ ix[k].size \in Nat
<1>1. \A i \in DOMAIN uses : uses[i] \in DOMAIN ix
  BY DEF IndexOK, Range
<1>2. \A k \in DOMAIN ix : ix[k].atime \in Nat /\ ix[k].size \in Nat
  BY DEF IndexOK, Entry
<1>. QED BY <1>1, <1>2 DEF IndexOK

\* An index stays one when an entry is dropped.
LEMMA DropKeeps ==
  ASSUME NEW ix, NEW uses, NEW k, IndexOK(ix, uses)
  PROVE  IndexOK(Drop(ix, k), RemoveFirst(uses, k))
<1>. DEFINE r == RemoveFirst(uses, k)
<1>1. /\ r \in Seq(Keys)
      /\ \A i \in DOMAIN r : \E m \in DOMAIN uses :
            /\ r[i] = uses[m] /\ uses[m] # k
            /\ \A j \in DOMAIN r : i < j => \E n \in DOMAIN uses : r[j] = uses[n] /\ m < n
      /\ \A m \in DOMAIN uses : uses[m] # k => \E i \in DOMAIN r : r[i] = uses[m]
  BY UsesDistinct, RemoveFirstOnce DEF IndexOK
<1>. HIDE DEF r
<1>2. /\ DOMAIN Drop(ix, k) = DOMAIN ix \ {k}
      /\ \A x \in DOMAIN ix \ {k} : Drop(ix, k)[x] = ix[x]
  BY DEF Drop
<1>3. IsFiniteSet(DOMAIN ix \ {k})
  BY FS_RemoveElement DEF IndexOK
<1>4. Range(r) = DOMAIN ix \ {k}
  <2>1. \A x \in Range(r) : x \in DOMAIN ix \ {k}
    BY <1>1, UsesDistinct DEF Range
  <2>2. ASSUME NEW x \in DOMAIN ix \ {k} PROVE x \in Range(r)
    <3>1. PICK m \in DOMAIN uses : uses[m] = x
      BY DEF IndexOK, Range
    <3>. QED BY <1>1, <3>1 DEF Range
  <2>. QED BY <2>1, <2>2
<1>5. ASSUME NEW i \in DOMAIN r, NEW j \in DOMAIN r, i < j
      PROVE  Drop(ix, k)[r[i]].atime < Drop(ix, k)[r[j]].atime
  <2>1. PICK m \in DOMAIN uses : r[i] = uses[m] /\ \E n \in DOMAIN uses : r[j] = uses[n] /\ m < n
    BY <1>1, <1>5
  <2>2. ix[r[i]].atime < ix[r[j]].atime
    BY <2>1 DEF IndexOK
  <2>3. r[i] \in DOMAIN ix \ {k} /\ r[j] \in DOMAIN ix \ {k}
    BY <1>4 DEF Range
  <2>. QED BY <1>2, <2>2, <2>3
<1>. HIDE DEF Drop
<1>. QED BY <1>1, <1>2, <1>3, <1>4, <1>5 DEF IndexOK, r

\* An index stays one when an entry is used or replaced, with a time later than
\* all others.
LEMMA UseKeeps ==
  ASSUME NEW ix, NEW uses, NEW k \in Keys, NEW e \in Entry, NEW jx, IndexOK(ix, uses),
         \A x \in DOMAIN ix : ix[x].atime < e.atime,
         DOMAIN jx = DOMAIN ix \cup {k},
         \A x \in DOMAIN jx : jx[x] = IF x = k THEN e ELSE ix[x]
  PROVE  IndexOK(jx, Append(RemoveFirst(uses, k), k))
<1>. DEFINE r == RemoveFirst(uses, k)  a == Append(r, k)
<1>1. IndexOK(Drop(ix, k), r)
  BY DropKeeps
<1>2. /\ DOMAIN Drop(ix, k) = DOMAIN ix \ {k}
      /\ \A x \in DOMAIN ix \ {k} : Drop(ix, k)[x] = ix[x]
  BY DEF Drop
<1>3. /\ r \in Seq(Keys) /\ Range(r) = DOMAIN ix \ {k}
      /\ \A i, j \in DOMAIN r : i < j => Drop(ix, k)[r[i]].atime < Drop(ix, k)[r[j]].atime
  BY <1>1, <1>2 DEF IndexOK
<1>. HIDE DEF r
<1>4. /\ a \in Seq(Keys)
      /\ Len(r) \in Nat /\ DOMAIN r = 1..Len(r) /\ DOMAIN a = 1..Len(r) + 1
      /\ \A i \in 1..Len(r) : a[i] = r[i]
      /\ a[Len(r) + 1] = k
      /\ \A i \in 1..Len(r) + 1 : i \in 1..Len(r) \/ i = Len(r) + 1
  BY <1>3, AppendFacts
<1>. HIDE DEF a
<1>5. \A i \in DOMAIN r : r[i] \in DOMAIN ix \ {k} /\ jx[r[i]] = ix[r[i]]
  BY <1>3 DEF Range
<1>6. Range(a) = DOMAIN jx
  <2>1. \A x \in Range(a) : x \in DOMAIN jx
    BY <1>4, <1>5 DEF Range
  <2>2. ASSUME NEW x \in DOMAIN jx PROVE x \in Range(a)
    <3>1. CASE x = k
      <4>1. Len(r) + 1 \in DOMAIN a
        BY <1>4
      <4>. QED BY <1>4, <3>1, <4>1 DEF Range
    <3>2. CASE x # k
      <4>1. PICK i \in DOMAIN r : r[i] = x
        BY <1>3, <3>2 DEF Range
      <4>2. i \in DOMAIN a /\ a[i] = x
        BY <1>4, <4>1
      <4>. QED BY <4>2 DEF Range
    <3>. QED BY <3>1, <3>2
  <2>. QED BY <2>1, <2>2
<1>7. ASSUME NEW i \in DOMAIN a, NEW j \in DOMAIN a, i < j
      PROVE  jx[a[i]].atime < jx[a[j]].atime
  <2>1. i \in 1..Len(r)
    BY <1>4, <1>7
  <2>2. a[i] = r[i] /\ jx[a[i]] = ix[r[i]] /\ r[i] \in DOMAIN ix \ {k}
    BY <1>4, <1>5, <2>1
  <2>3. CASE j \in 1..Len(r)
    <3>1. a[j] = r[j] /\ jx[a[j]] = ix[r[j]] /\ r[j] \in DOMAIN ix \ {k}
      BY <1>4, <1>5, <2>3
    <3>2. Drop(ix, k)[r[i]].atime < Drop(ix, k)[r[j]].atime
      BY <1>3, <1>4, <1>7, <2>1, <2>3
    <3>. QED BY <1>2, <2>2, <3>1, <3>2
  <2>4. CASE j = Len(r) + 1
    <3>1. jx[a[j]] = e
      BY <1>4, <2>4
    <3>. QED BY <2>2, <3>1
  <2>. QED BY <1>4, <2>3, <2>4
<1>8. DOMAIN jx \subseteq Keys /\ IsFiniteSet(DOMAIN jx) /\ \A x \in DOMAIN jx : jx[x] \in Entry
  BY FS_AddElement DEF IndexOK
<1>. QED BY <1>4, <1>6, <1>7, <1>8 DEF IndexOK, a, r

\* The bytes of an index, when its sizes stay and when an entry goes.
LEMMA BytesType ==
  ASSUME NEW ix, NEW uses, IndexOK(ix, uses)
  PROVE  Bytes(ix) \in Nat
  BY UsesDistinct, BytesIsTotal, TotalType DEF IndexOK

LEMMA BytesSame ==
  ASSUME NEW ix, NEW uses, NEW jx, IndexOK(ix, uses), DOMAIN jx = DOMAIN ix,
         \A k \in DOMAIN ix : jx[k].size = ix[k].size
  PROVE  Bytes(jx) = Bytes(ix)
  BY BytesIsTotal, TotalSame DEF IndexOK

LEMMA BytesDrop ==
  ASSUME NEW ix, NEW uses, NEW k, IndexOK(ix, uses)
  PROVE  Bytes(Drop(ix, k)) <= Bytes(ix)
<1>1. /\ DOMAIN Drop(ix, k) = DOMAIN ix \ {k}
      /\ \A x \in DOMAIN ix \ {k} : Drop(ix, k)[x] = ix[x]
  BY DEF Drop
<1>2. IsFiniteSet(DOMAIN ix) /\ IsFiniteSet(DOMAIN ix \ {k})
  BY FS_RemoveElement DEF IndexOK
<1>3. \A x \in DOMAIN ix : ix[x].size \in Nat
  BY UsesDistinct
<1>4. Bytes(Drop(ix, k)) = Total(ix, DOMAIN ix \ {k})
  BY <1>1, <1>2, BytesIsTotal, TotalSame
<1>5. Total(ix, DOMAIN ix \ {k}) \in Nat
  BY <1>2, <1>3, TotalType
<1>6. CASE k \in DOMAIN ix
  <2>1. Bytes(ix) = ix[k].size + Total(ix, DOMAIN ix \ {k})
    BY <1>2, <1>3, <1>6, BytesIsTotal, TotalAny
  <2>. QED BY <1>3, <1>4, <1>5, <1>6, <2>1
<1>7. CASE k \notin DOMAIN ix
  <2>1. DOMAIN ix \ {k} = DOMAIN ix
    BY <1>7
  <2>. QED BY <1>4, <1>5, <2>1, BytesIsTotal
<1>. QED BY <1>6, <1>7

\* The entry with the smallest atime is the one whose last use is the oldest.
LEMMA OldestIsHead ==
  ASSUME IndexOK(index, recency), DOMAIN index # {}
  PROVE  Oldest = Head(recency) /\ Oldest \in DOMAIN index
<1>1. recency \in Seq(Keys) /\ recency # <<>>
  BY DEF IndexOK, Range
<1>2. 1 \in DOMAIN recency /\ Head(recency) = recency[1]
      /\ \A i \in DOMAIN recency : i = 1 \/ 1 < i
  BY <1>1
<1>. DEFINE h == recency[1]
<1>3. h \in DOMAIN index
  BY <1>2, UsesDistinct
<1>4. ASSUME NEW j \in DOMAIN index PROVE j = h \/ index[h].atime < index[j].atime
  <2>1. PICK i \in DOMAIN recency : recency[i] = j
    BY DEF IndexOK, Range
  <2>. QED BY <1>2, <2>1 DEF IndexOK
<1>5. \A j \in DOMAIN index : index[h].atime <= index[j].atime
  BY <1>3, <1>4, UsesDistinct
<1>. DEFINE Least(k) == k \in DOMAIN index /\ \A j \in DOMAIN index : index[k].atime <= index[j].atime
<1>6. ASSUME NEW k, Least(k) PROVE k = h
  <2>1. k \in DOMAIN index /\ index[k].atime <= index[h].atime
    BY <1>3, <1>6
  <2>. QED BY <1>3, <1>4, <2>1, UsesDistinct
<1>7. Oldest \in DOMAIN index /\ Least(Oldest)
  BY <1>3, <1>5 DEF Oldest
<1>. HIDE DEF Least
<1>. QED BY <1>2, <1>6, <1>7

\* After a restart the clock is past every entry that was loaded.
LEMMA ClockLoads ==
  ASSUME NEW ix, NEW uses, IndexOK(ix, uses)
  PROVE  LoadClock(ix) \in Nat /\ \A k \in DOMAIN ix : ix[k].atime <= LoadClock(ix)
<1>. DEFINE T == {0} \cup {ix[k].atime : k \in DOMAIN ix}
<1>1. T \subseteq Nat
  BY UsesDistinct
<1>2. \E x \in T : \A y \in T : x >= y
  <2>1. CASE uses = <<>>
    <3>1. DOMAIN ix = {}
      BY <2>1 DEF IndexOK, Range
    <3>. QED BY <3>1
  <2>2. CASE uses # <<>>
    <3>. DEFINE n == Len(uses)
    <3>1. uses \in Seq(Keys)
      BY DEF IndexOK
    <3>2. n \in Nat \ {0} /\ DOMAIN uses = 1..n
      BY <2>2, <3>1
    <3>3. n \in DOMAIN uses /\ \A i \in DOMAIN uses : i = n \/ i < n
      BY <3>2
    <3>. HIDE DEF n
    <3>4. uses[n] \in DOMAIN ix /\ ix[uses[n]].atime \in Nat
      BY <3>3, UsesDistinct
    <3>5. ASSUME NEW k \in DOMAIN ix PROVE ix[uses[n]].atime >= ix[k].atime
      <4>1. PICK i \in DOMAIN uses : uses[i] = k
        BY DEF IndexOK, Range
      <4>2. CASE i = n
        BY <3>4, <4>1, <4>2
      <4>3. CASE i < n
        <5>1. ix[uses[i]].atime < ix[uses[n]].atime
          BY <3>3, <4>3 DEF IndexOK
        <5>. QED BY <3>4, <4>1, <5>1, UsesDistinct
      <4>. QED BY <3>3, <4>2, <4>3
    <3>6. ix[uses[n]].atime \in T /\ \A y \in T : ix[uses[n]].atime >= y
      BY <3>4, <3>5
    <3>. QED BY <3>6
  <2>. QED BY <2>1, <2>2
<1>3. LoadClock(ix) = CHOOSE x \in T : \A y \in T : x >= y
  BY DEF LoadClock, Max
<1>4. LoadClock(ix) \in T /\ \A y \in T : LoadClock(ix) >= y
  BY <1>2, <1>3
<1>5. \A k \in DOMAIN ix : ix[k].atime \in T
  OBVIOUS
<1>. HIDE DEF T
<1>. QED BY <1>1, <1>4, <1>5

\* An index over the budget has an entry.
LEMMA OverBudgetHasEntry ==
  ASSUME IndexOK(index, recency), OverBudget PROVE DOMAIN index # {}
<1>1. SUFFICES ASSUME DOMAIN index = {} PROVE FALSE
  OBVIOUS
<1>2. Bytes(index) = 0
  BY <1>1, BytesIsTotal, TotalStep DEF IndexOK
<1>. QED BY <1>2, BytesAssumption DEF OverBudget

-----------------------------------------------------------------------------
(* The steps *)

Owning == {"replace", "index", "evict", "save"}

\* What happens in the lock happens to its owner.
LEMMA OneOwner ==
  ASSUME TypeOK
  PROVE  /\ \A t, u \in Threads : pc[t] \in Owning /\ pc[u] \in Owning => t = u
         /\ lock = None => \A t \in Threads : pc[t] \notin Owning
  BY NoneAssumption DEF TypeOK, Owning

\* An index that was lost is an empty one.
LEMMA BlankOK ==
  /\ IndexOK(Blank.entries, Blank.recency) /\ DOMAIN Blank.entries = {}
  /\ Bytes(Blank.entries) = 0
<1>1. Blank.entries = Empty /\ Blank.recency = <<>> /\ DOMAIN Empty = {}
  BY DEF Blank, Empty
<1>2. IsFiniteSet({})
  BY FS_EmptySet
<1>3. IndexOK(Empty, <<>>)
  BY <1>1, <1>2 DEF IndexOK, Range
<1>4. Bytes(Empty) = 0
  BY <1>1, <1>2, BytesIsTotal, TotalStep
<1>. QED BY <1>1, <1>3, <1>4

\* Types.
LEMMA TypesKept ==
  ASSUME TypeOK, RequestOK, IndexOK(index, recency), IndexOK(saved.entries, saved.recency),
         [Next]_vars
  PROVE  /\ TypeOK' /\ RequestOK'
         /\ IndexOK(index', recency')
         /\ IndexOK(saved'.entries, saved'.recency)
<1>. USE DEF Goto, Fault, memory, disk
<1>. DEFINE Good == /\ TypeOK' /\ RequestOK'
                    /\ IndexOK(index', recency')
                    /\ IndexOK(saved'.entries, saved'.recency)
<1>1. CASE UNCHANGED vars
  BY <1>1 DEF vars, TypeOK, RequestOK
<1>2. ASSUME NEW t \in Threads, NEW k \in Keys, Request(t, k) PROVE Good
  BY <1>2 DEF Request, TypeOK, RequestOK
<1>3. ASSUME NEW t \in Threads, Synthesize(t) PROVE Good
  BY <1>3 DEF Synthesize, TypeOK, RequestOK
<1>4. ASSUME NEW t \in Threads, SynthesizeFails(t) PROVE Good
  BY <1>4 DEF SynthesizeFails, Return, TypeOK, RequestOK
<1>5. ASSUME NEW t \in Threads, GetMiss(t) PROVE Good
  BY <1>5 DEF GetMiss, TypeOK, RequestOK
<1>6. ASSUME NEW t \in Threads, GetHit(t) PROVE Good
  <2>. DEFINE k == key[t]  e == [index[k] EXCEPT !.atime = clock + 1]
  <2>1. /\ k \in DOMAIN index /\ clock' = clock + 1 /\ lock = None /\ lock' = t
        /\ index' = [index EXCEPT ![k].atime = clock + 1]
        /\ recency' = Append(RemoveFirst(recency, k), k)
        /\ pc' = [pc EXCEPT ![t] = "save"]
        /\ UNCHANGED <<key, clip, blobs, saved, faults>>
    BY <1>6 DEF GetHit, Touch, Without
  <2>2. /\ k \in Keys /\ e \in Entry /\ e.atime = clock + 1 /\ clock \in Nat
        /\ DOMAIN index' = DOMAIN index \cup {k}
        /\ \A x \in DOMAIN index' : index'[x] = IF x = k THEN e ELSE index[x]
    <3>1. k \in Keys /\ clock \in Nat /\ index[k] \in Entry
      BY <2>1 DEF TypeOK
    <3>2. e \in Entry /\ e.atime = clock + 1
      BY <3>1 DEF Entry
    <3>3. DOMAIN index' = DOMAIN index \cup {k}
      BY <2>1
    <3>4. \A x \in DOMAIN index' : index'[x] = IF x = k THEN e ELSE index[x]
      BY <2>1
    <3>. QED BY <3>1, <3>2, <3>3, <3>4
  <2>3. \A x \in DOMAIN index : index[x].atime \in Nat /\ index[x].atime <= clock
    BY DEF TypeOK, Entry
  <2>. HIDE DEF k, e
  <2>4. \A x \in DOMAIN index : index[x].atime < e.atime
    BY <2>2, <2>3
  <2>5. IndexOK(index', recency')
    BY <2>1, <2>2, <2>4, UseKeeps
  <2>6. /\ DOMAIN index' \subseteq Keys /\ Range(recency') = DOMAIN index'
        /\ \A x \in DOMAIN index' : index'[x] \in Entry
    BY <2>5 DEF IndexOK
  <2>7. \A x \in DOMAIN index' : index'[x].atime <= clock'
    BY <2>1, <2>2, <2>3
  <2>8. \A u \in Threads : pc[u] \notin {"replace", "index", "evict", "save"}
    BY <2>1, OneOwner DEF Owning
  <2>9. /\ pc' \in [Threads -> {"idle", "get", "synthesize", "put", "replace",
                                "index", "evict", "save"}]
        /\ \A u \in Threads : pc'[u] \in {"replace", "index", "evict", "save"} => u = t
        /\ \A u \in Threads : pc'[u] # "idle" => pc[u] # "idle"
        /\ \A u \in Threads : pc'[u] \in {"put", "replace", "index"} => pc'[u] = pc[u]
    BY <1>6, <2>1, <2>8 DEF TypeOK, GetHit
  <2>10. TypeOK'
    <3>1. clock' \in Nat /\ lock' \in Threads \cup {None}
      BY <2>1, <2>2
    <3>2. \A u \in Threads : pc'[u] \in {"replace", "index", "evict", "save"} => lock' = u
      BY <2>1, <2>9
    <3>3. UNCHANGED <<key, clip, blobs, saved>>
      BY <2>1
    <3>. QED BY <2>6, <2>7, <2>9, <3>1, <3>2, <3>3 DEF TypeOK
  <2>11. RequestOK'
    BY <2>1, <2>9 DEF RequestOK
  <2>. QED BY <2>1, <2>5, <2>10, <2>11
<1>7. ASSUME NEW t \in Threads, GetUnreadable(t) PROVE Good
  <2>1. /\ index' = Drop(index, key[t]) /\ recency' = RemoveFirst(recency, key[t])
        /\ blobs' \in {Drop(blobs, key[t]), blobs}
        /\ pc' = [pc EXCEPT ![t] = "synthesize"] /\ pc[t] = "get"
        /\ UNCHANGED <<clock, lock, key, clip, saved, served>>
        /\ faults' \in {faults, faults + 1}
    BY <1>7 DEF GetUnreadable, Forget, Without
  <2>2. IndexOK(index', recency')
    BY <2>1, DropKeeps
  <2>3. /\ DOMAIN index' \subseteq Keys /\ Range(recency') = DOMAIN index'
        /\ \A x \in DOMAIN index' : index'[x] \in Entry
    BY <2>2 DEF IndexOK
  <2>4. \A x \in DOMAIN index' : index'[x].atime <= clock
    BY <2>1 DEF TypeOK, Drop
  <2>5. DOMAIN blobs' \subseteq Keys /\ \A x \in DOMAIN blobs' : blobs'[x] \in Blob
    BY <2>1 DEF TypeOK, Drop
  <2>. QED BY <2>1, <2>2, <2>3, <2>4, <2>5 DEF TypeOK, RequestOK
<1>8. ASSUME NEW t \in Threads, PutWrite(t) PROVE Good
  BY <1>8, OneOwner DEF PutWrite, TypeOK, RequestOK, Owning
<1>9. ASSUME NEW t \in Threads, PutFails(t) PROVE Good
  BY <1>9, OneOwner DEF PutFails, Return, TypeOK, RequestOK, Owning
<1>10. ASSUME NEW t \in Threads, PutReplace(t) PROVE Good
  <2>1. /\ blobs' = Put(blobs, key[t], [size |-> clip[t], whole |-> TRUE])
        /\ pc[t] = "replace" /\ pc' = [pc EXCEPT ![t] = "index"]
        /\ UNCHANGED <<index, clock, lock, recency, key, clip, saved, served, faults>>
    BY <1>10 DEF PutReplace
  <2>2. key[t] \in Keys /\ clip[t] \in Nat
    BY <2>1, SizesAssumption DEF RequestOK
  <2>3. DOMAIN blobs' \subseteq Keys /\ \A x \in DOMAIN blobs' : blobs'[x] \in Blob
    BY <2>1, <2>2 DEF TypeOK, Put, Blob
  <2>. QED BY <2>1, <2>3 DEF TypeOK, RequestOK
<1>11. ASSUME NEW t \in Threads, PutIndex(t) PROVE Good
  <2>. DEFINE k == key[t]  e == [size |-> clip[t], atime |-> clock + 1]
  <2>1. /\ clock' = clock + 1 /\ index' = Put(index, k, e)
        /\ recency' = Append(RemoveFirst(recency, k), k)
        /\ pc[t] = "index" /\ pc' = [pc EXCEPT ![t] = "evict"]
        /\ UNCHANGED <<lock, key, clip, blobs, saved, served, faults>>
    BY <1>11 DEF PutIndex, Without
  <2>2. k \in Keys /\ e \in Entry /\ e.atime = clock + 1 /\ clock \in Nat
    <3>1. k \in Keys /\ clip[t] \in Nat /\ clock \in Nat
      BY <2>1, SizesAssumption DEF RequestOK, TypeOK
    <3>. QED BY <3>1 DEF Entry
  <2>3. \A x \in DOMAIN index : index[x].atime \in Nat /\ index[x].atime <= clock
    BY DEF TypeOK, Entry
  <2>. HIDE DEF k, e
  <2>4. /\ DOMAIN index' = DOMAIN index \cup {k}
        /\ \A x \in DOMAIN index' : index'[x] = IF x = k THEN e ELSE index[x]
    BY <2>1 DEF Put
  <2>5. \A x \in DOMAIN index : index[x].atime < e.atime
    BY <2>2, <2>3
  <2>6. IndexOK(index', recency')
    BY <2>1, <2>2, <2>4, <2>5, UseKeeps
  <2>7. /\ DOMAIN index' \subseteq Keys /\ Range(recency') = DOMAIN index'
        /\ \A x \in DOMAIN index' : index'[x] \in Entry
    BY <2>6 DEF IndexOK
  <2>8. \A x \in DOMAIN index' : index'[x].atime <= clock'
    BY <2>1, <2>2, <2>3, <2>4
  <2>. QED BY <2>1, <2>2, <2>6, <2>7, <2>8 DEF TypeOK, RequestOK
<1>12. ASSUME NEW t \in Threads, Evict(t) PROVE Good
  <2>1. /\ index' = Drop(index, Oldest) /\ recency' = RemoveFirst(recency, Oldest)
        /\ blobs' \in {Drop(blobs, Oldest), blobs}
        /\ UNCHANGED <<clock, lock, pc, key, clip, saved, served>>
        /\ faults' \in {faults, faults + 1}
    BY <1>12 DEF Evict, Forget, Without
  <2>2. IndexOK(index', recency')
    BY <2>1, DropKeeps
  <2>3. /\ DOMAIN index' \subseteq Keys /\ Range(recency') = DOMAIN index'
        /\ \A x \in DOMAIN index' : index'[x] \in Entry
    BY <2>2 DEF IndexOK
  <2>4. \A x \in DOMAIN index' : index'[x].atime <= clock
    BY <2>1 DEF TypeOK, Drop
  <2>5. DOMAIN blobs' \subseteq Keys /\ \A x \in DOMAIN blobs' : blobs'[x] \in Blob
    BY <2>1 DEF TypeOK, Drop
  <2>. QED BY <2>1, <2>2, <2>3, <2>4, <2>5 DEF TypeOK, RequestOK
<1>13. ASSUME NEW t \in Threads, EvictDone(t) PROVE Good
  BY <1>13 DEF EvictDone, TypeOK, RequestOK
<1>14. ASSUME NEW t \in Threads, Save(t) PROVE Good
  <2>1. /\ pc[t] = "save" /\ lock' = None
        /\ pc' = [pc EXCEPT ![t] = "idle"] /\ key' = [key EXCEPT ![t] = None]
        /\ clip' = [clip EXCEPT ![t] = 0]
        /\ UNCHANGED <<index, clock, recency, blobs, served>>
        /\ saved' \in {saved, [entries |-> index, recency |-> recency]}
        /\ faults' \in {faults, faults + 1}
    BY <1>14 DEF Save, Return
  <2>2. IndexOK(saved'.entries, saved'.recency) /\ DOMAIN saved'.entries \subseteq Keys
    BY <2>1 DEF TypeOK
  <2>. QED BY <2>1, <2>2, OneOwner DEF TypeOK, RequestOK, Owning
<1>15. CASE Restart
  <2>1. /\ index' = saved.entries /\ recency' = saved.recency
        /\ clock' = LoadClock(saved.entries) /\ lock' = None
        /\ pc' = [t \in Threads |-> "idle"] /\ key' = [t \in Threads |-> None]
        /\ clip' = [t \in Threads |-> 0]
        /\ UNCHANGED <<blobs, saved>> /\ faults' = faults + 1
    BY <1>15 DEF Restart
  <2>2. clock' \in Nat /\ \A k \in DOMAIN index' : index'[k].atime <= clock'
    BY <2>1, ClockLoads
  <2>3. /\ DOMAIN index' \subseteq Keys /\ Range(recency') = DOMAIN index'
        /\ \A x \in DOMAIN index' : index'[x] \in Entry
    BY <2>1 DEF IndexOK
  <2>. QED BY <2>1, <2>2, <2>3 DEF TypeOK, RequestOK
<1>16. ASSUME NEW k \in Keys, LoseBlob(k) PROVE Good
  <2>1. /\ blobs' = Drop(blobs, k) /\ faults' = faults + 1
        /\ UNCHANGED <<index, clock, lock, recency, pc, key, clip, saved, served>>
    BY <1>16 DEF LoseBlob
  <2>2. DOMAIN blobs' \subseteq Keys /\ \A x \in DOMAIN blobs' : blobs'[x] \in Blob
    BY <2>1 DEF TypeOK, Drop
  <2>. QED BY <2>1, <2>2 DEF TypeOK, RequestOK
<1>17. CASE LoseIndex
  <2>1. /\ saved' = Blank /\ faults' = faults + 1
        /\ UNCHANGED <<index, clock, lock, recency, pc, key, clip, blobs, served>>
    BY <1>17 DEF LoseIndex
  <2>2. IndexOK(saved'.entries, saved'.recency) /\ DOMAIN saved'.entries \subseteq Keys
    BY <2>1, BlankOK
  <2>. QED BY <2>1, <2>2 DEF TypeOK, RequestOK
<1>. QED BY <1>1, <1>2, <1>3, <1>4, <1>5, <1>6, <1>7, <1>8, <1>9, <1>10, <1>11, <1>12, <1>13,
            <1>14, <1>15, <1>16, <1>17 DEF Next, Step, Environment

\* The budget.
LEMMA BudgetKept ==
  ASSUME TypeOK, IndexOK(index, recency), IndexOK(saved.entries, saved.recency), BudgetOK,
         [Next]_vars
  PROVE  BudgetOK'
<1>. USE DEF Goto, Fault, memory, disk
<1>1. ASSUME UNCHANGED <<index, saved>>,
             \A t \in Threads : pc[t] = "evict" => pc'[t] = "evict"
      PROVE  BudgetOK'
  BY <1>1 DEF BudgetOK
<1>2. ASSUME NEW t \in Threads, NEW k \in Keys, Request(t, k) PROVE BudgetOK'
  BY <1>1, <1>2 DEF Request, TypeOK
<1>3. ASSUME NEW t \in Threads,
             \/ Synthesize(t) \/ SynthesizeFails(t) \/ GetMiss(t)
             \/ PutWrite(t) \/ PutFails(t) \/ PutReplace(t)
      PROVE  BudgetOK'
  BY <1>1, <1>3
  DEF Synthesize, SynthesizeFails, GetMiss, PutWrite, PutFails, PutReplace, Return, TypeOK
<1>4. ASSUME NEW t \in Threads, GetHit(t) PROVE BudgetOK'
  <2>1. /\ index' = [index EXCEPT ![key[t]].atime = clock + 1] /\ saved' = saved /\ lock = None
        /\ key[t] \in DOMAIN index
    BY <1>4 DEF GetHit, Touch
  <2>2. DOMAIN index' = DOMAIN index /\ \A k \in DOMAIN index : index'[k].size = index[k].size
    <3>1. \A k \in DOMAIN index : index[k] \in Entry
      BY DEF IndexOK
    <3>. QED BY <2>1, <3>1 DEF Entry
  <2>3. Bytes(index') = Bytes(index)
    BY <2>2, BytesSame
  <2>4. \A u \in Threads : pc[u] # "evict"
    BY <2>1, OneOwner DEF Owning
  <2>. QED BY <2>1, <2>3, <2>4 DEF BudgetOK
<1>5. ASSUME NEW t \in Threads, GetUnreadable(t) PROVE BudgetOK'
  <2>1. index' = Drop(index, key[t]) /\ saved' = saved /\ lock = None
    BY <1>5 DEF GetUnreadable, Forget
  <2>2. Bytes(index') <= Bytes(index) /\ Bytes(index) \in Nat /\ Bytes(index') \in Nat
    BY <2>1, BytesDrop, BytesType, DropKeeps
  <2>3. \A u \in Threads : pc[u] # "evict"
    BY <2>1, OneOwner DEF Owning
  <2>. QED BY <2>1, <2>2, <2>3, BytesAssumption DEF BudgetOK
<1>6. ASSUME NEW t \in Threads, PutIndex(t) \/ Evict(t) PROVE BudgetOK'
  <2>1. saved' = saved /\ pc'[t] = "evict"
    BY <1>6 DEF PutIndex, Evict, TypeOK
  <2>. QED BY <2>1 DEF BudgetOK
<1>7. ASSUME NEW t \in Threads, EvictDone(t) PROVE BudgetOK'
  <2>1. UNCHANGED <<index, saved>> /\ ~(Bytes(index) > MaxBytes)
    BY <1>7 DEF EvictDone, OverBudget
  <2>2. Bytes(index) <= MaxBytes
    BY <2>1, BytesType, BytesAssumption
  <2>. QED BY <2>1, <2>2 DEF BudgetOK
<1>8. ASSUME NEW t \in Threads, Save(t) PROVE BudgetOK'
  <2>1. /\ pc[t] = "save" /\ index' = index
        /\ saved' \in {saved, [entries |-> index, recency |-> recency]}
    BY <1>8 DEF Save
  <2>2. \A u \in Threads : pc[u] # "evict"
    BY <2>1, OneOwner DEF Owning
  <2>. QED BY <2>1, <2>2 DEF BudgetOK
<1>9. CASE Restart
  <2>1. index' = saved.entries /\ saved' = saved
    BY <1>9 DEF Restart
  <2>. QED BY <2>1 DEF BudgetOK
<1>10. ASSUME NEW k \in Keys, LoseBlob(k) PROVE BudgetOK'
  BY <1>1, <1>10 DEF LoseBlob
<1>11. CASE LoseIndex
  <2>1. saved' = Blank /\ UNCHANGED <<index, pc>>
    BY <1>11 DEF LoseIndex
  <2>2. Bytes(saved'.entries) <= MaxBytes
    BY <2>1, BlankOK, BytesAssumption
  <2>. QED BY <2>1, <2>2 DEF BudgetOK
<1>12. CASE UNCHANGED vars
  BY <1>1, <1>12 DEF vars
<1>. QED BY <1>2, <1>3, <1>4, <1>5, <1>6, <1>7, <1>8, <1>9, <1>10, <1>11, <1>12
     DEF Next, Step, Environment

\* What is on the disk under a clip's name is whole.
LEMMA WholeKept == ASSUME WholeOK, [Next]_vars PROVE WholeOK'
<1>. USE DEF memory, disk
<1>1. ASSUME UNCHANGED served, \A x \in DOMAIN blobs' : x \in DOMAIN blobs /\ blobs'[x] = blobs[x]
      PROVE  WholeOK'
  BY <1>1 DEF WholeOK, HitIsWhole
<1>2. ASSUME NEW t \in Threads, NEW k \in Keys, Request(t, k) PROVE WholeOK'
  BY <1>1, <1>2 DEF Request
<1>3. ASSUME NEW t \in Threads,
             \/ Synthesize(t) \/ SynthesizeFails(t) \/ GetMiss(t) \/ PutWrite(t) \/ PutFails(t)
             \/ PutIndex(t) \/ EvictDone(t) \/ Save(t)
      PROVE  WholeOK'
  BY <1>1, <1>3
  DEF Synthesize, SynthesizeFails, GetMiss, PutWrite, PutFails, PutIndex, EvictDone, Save
<1>4. ASSUME NEW t \in Threads, GetHit(t) PROVE WholeOK'
  BY <1>4 DEF GetHit, WholeOK, HitIsWhole
<1>5. ASSUME NEW t \in Threads, GetUnreadable(t) \/ Evict(t) PROVE WholeOK'
  BY <1>1, <1>5 DEF GetUnreadable, Evict, Forget, Drop
<1>6. ASSUME NEW t \in Threads, PutReplace(t) PROVE WholeOK'
  BY <1>6 DEF PutReplace, Put, WholeOK, HitIsWhole
<1>7. ASSUME NEW k \in Keys, LoseBlob(k) PROVE WholeOK'
  BY <1>1, <1>7 DEF LoseBlob, Drop
<1>8. CASE Restart
  BY <1>8 DEF Restart, WholeOK, HitIsWhole
<1>9. CASE LoseIndex \/ UNCHANGED vars
  BY <1>1, <1>9 DEF LoseIndex, vars
<1>. QED BY <1>2, <1>3, <1>4, <1>5, <1>6, <1>7, <1>8, <1>9 DEF Next, Step, Environment

\* The disk and the index.
LEMMA DiskKept ==
  ASSUME TypeOK, RequestOK, IndexOK(index, recency), DiskOK, [Next]_vars
  PROVE  DiskOK'
<1>. USE DEF Goto, Fault, memory, disk
<1>1. ASSUME faults' = faults + 1 PROVE DiskOK'
  BY <1>1 DEF DiskOK, RequestOK
<1>2. ASSUME UNCHANGED <<index, blobs, faults>>,
             \A t \in Threads : pc[t] = "index" <=> pc'[t] = "index",
             \A t \in Threads : pc[t] = "index" => key'[t] = key[t] /\ clip'[t] = clip[t]
      PROVE  DiskOK'
  BY <1>2 DEF DiskOK
<1>3. ASSUME NEW t \in Threads, NEW k \in Keys, Request(t, k) PROVE DiskOK'
  BY <1>2, <1>3 DEF Request, TypeOK
<1>4. ASSUME NEW t \in Threads,
             \/ Synthesize(t) \/ SynthesizeFails(t) \/ GetMiss(t) \/ PutWrite(t) \/ EvictDone(t)
      PROVE  DiskOK'
  BY <1>2, <1>4 DEF Synthesize, SynthesizeFails, GetMiss, PutWrite, EvictDone, Return, TypeOK
<1>5. ASSUME NEW t \in Threads, PutFails(t) PROVE DiskOK'
  BY <1>1, <1>5 DEF PutFails
<1>6. ASSUME NEW t \in Threads, Save(t) PROVE DiskOK'
  <2>1. /\ pc[t] = "save" /\ UNCHANGED <<index, blobs>>
        /\ pc' = [pc EXCEPT ![t] = "idle"] /\ key' = [key EXCEPT ![t] = None]
        /\ clip' = [clip EXCEPT ![t] = 0]
        /\ faults' = faults \/ faults' = faults + 1
    BY <1>6 DEF Save, Return
  <2>2. CASE faults' = faults
    BY <1>2, <2>1, <2>2 DEF TypeOK
  <2>. QED BY <1>1, <2>1, <2>2
<1>7. ASSUME NEW t \in Threads, GetHit(t) PROVE DiskOK'
  <2>1. /\ index' = [index EXCEPT ![key[t]].atime = clock + 1] /\ UNCHANGED <<blobs, key, clip, faults>>
        /\ key[t] \in DOMAIN index
        /\ pc[t] = "get" /\ pc' = [pc EXCEPT ![t] = "save"]
    BY <1>7 DEF GetHit, Touch
  <2>2. DOMAIN index' = DOMAIN index /\ \A k \in DOMAIN index : index'[k].size = index[k].size
    <3>1. \A k \in DOMAIN index : index[k] \in Entry
      BY DEF IndexOK
    <3>. QED BY <2>1, <3>1 DEF Entry
  <2>3. \A u \in Threads : pc[u] = "index" <=> pc'[u] = "index"
    BY <2>1 DEF TypeOK
  <2>. QED BY <2>1, <2>2, <2>3 DEF DiskOK
<1>8. ASSUME NEW t \in Threads, GetUnreadable(t) PROVE DiskOK'
  <2>1. CASE key[t] \in DOMAIN blobs
    BY <1>1, <1>8, <2>1 DEF GetUnreadable
  <2>2. CASE key[t] \notin DOMAIN blobs
    <3>1. faults' = faults /\ key[t] \in DOMAIN index /\ lock = None /\ pc[t] = "get"
      BY <1>8, <2>2 DEF GetUnreadable
    <3>2. key[t] \in Keys /\ \A u \in Threads : pc[u] # "index"
      BY <3>1, OneOwner DEF Owning, RequestOK
    <3>3. faults # 0
      BY <2>2, <3>1, <3>2 DEF DiskOK
    <3>. QED BY <3>1, <3>3 DEF DiskOK
  <2>. QED BY <2>1, <2>2
<1>9. ASSUME NEW t \in Threads, PutReplace(t) PROVE DiskOK'
  <2>1. /\ blobs' = Put(blobs, key[t], [size |-> clip[t], whole |-> TRUE])
        /\ pc[t] = "replace" /\ pc' = [pc EXCEPT ![t] = "index"]
        /\ UNCHANGED <<index, key, clip, faults>>
    BY <1>9 DEF PutReplace
  <2>2. /\ DOMAIN blobs' = DOMAIN blobs \cup {key[t]} /\ blobs'[key[t]].size = clip[t]
        /\ \A x \in DOMAIN blobs : x # key[t] => blobs'[x] = blobs[x]
    BY <2>1 DEF Put
  <2>3. \A u \in Threads : pc'[u] = "index" <=> u = t
    BY <2>1, OneOwner DEF TypeOK, Owning
  <2>4. \A u \in Threads : pc[u] # "index"
    BY <2>1, OneOwner DEF Owning
  <2>5. ASSUME faults = 0, NEW k \in Keys, k # key[t]
        PROVE  /\ k \in DOMAIN blobs' <=> k \in DOMAIN index
               /\ k \in DOMAIN index => blobs'[k].size = index[k].size
    <3>1. /\ k \in DOMAIN blobs <=> k \in DOMAIN index
          /\ k \in DOMAIN index => blobs[k].size = index[k].size
      BY <2>4, <2>5 DEF DiskOK
    <3>. QED BY <2>2, <2>5, <3>1
  <2>. QED BY <2>1, <2>2, <2>3, <2>5 DEF DiskOK
<1>10. ASSUME NEW t \in Threads, PutIndex(t) PROVE DiskOK'
  <2>1. /\ index' = Put(index, key[t], [size |-> clip[t], atime |-> clock + 1])
        /\ pc[t] = "index" /\ pc' = [pc EXCEPT ![t] = "evict"]
        /\ UNCHANGED <<blobs, key, clip, faults>>
    BY <1>10 DEF PutIndex
  <2>2. /\ DOMAIN index' = DOMAIN index \cup {key[t]} /\ index'[key[t]].size = clip[t]
        /\ \A x \in DOMAIN index : x # key[t] => index'[x] = index[x]
    BY <2>1 DEF Put
  <2>3. \A u \in Threads : pc'[u] # "index"
    BY <2>1, OneOwner DEF TypeOK, Owning
  <2>4. \A u \in Threads : pc[u] = "index" => u = t
    BY <2>1, OneOwner DEF Owning
  <2>5. ASSUME faults = 0, NEW k \in Keys
        PROVE  /\ k \in DOMAIN blobs <=> k \in DOMAIN index'
               /\ k \in DOMAIN index' => blobs[k].size = index'[k].size
    <3>1. CASE k = key[t]
      BY <2>1, <2>2, <2>5, <3>1 DEF DiskOK
    <3>2. CASE k # key[t]
      <4>1. /\ k \in DOMAIN blobs <=> k \in DOMAIN index
            /\ k \in DOMAIN index => blobs[k].size = index[k].size
        BY <2>4, <2>5, <3>2 DEF DiskOK
      <4>. QED BY <2>2, <3>2, <4>1
    <3>. QED BY <3>1, <3>2
  <2>. QED BY <2>1, <2>3, <2>5 DEF DiskOK
<1>11. ASSUME NEW t \in Threads, Evict(t) PROVE DiskOK'
  <2>1. CASE Oldest \in DOMAIN blobs'
    BY <1>1, <1>11, <2>1 DEF Evict
  <2>2. CASE Oldest \notin DOMAIN blobs'
    <3>. DEFINE o == Oldest
    <3>1. /\ index' = Drop(index, o) /\ blobs' \in {Drop(blobs, o), blobs}
          /\ UNCHANGED <<pc, key, clip, faults>> /\ pc[t] = "evict"
      BY <1>11, <2>2 DEF Evict, Forget
    <3>. HIDE DEF o
    <3>2. \A u \in Threads : pc[u] # "index"
      BY <3>1, OneOwner DEF Owning
    <3>3. /\ DOMAIN index' = DOMAIN index \ {o} /\ DOMAIN blobs' = DOMAIN blobs \ {o}
          /\ \A x \in DOMAIN index' : index'[x] = index[x]
          /\ \A x \in DOMAIN blobs' : blobs'[x] = blobs[x]
      BY <2>2, <3>1 DEF Drop, o
    <3>4. ASSUME faults = 0, NEW k \in Keys
          PROVE  /\ k \in DOMAIN blobs' <=> k \in DOMAIN index'
                 /\ k \in DOMAIN index' => blobs'[k].size = index'[k].size
      <4>1. /\ k \in DOMAIN blobs <=> k \in DOMAIN index
            /\ k \in DOMAIN index => blobs[k].size = index[k].size
        BY <3>2, <3>4 DEF DiskOK
      <4>. QED BY <3>3, <4>1
    <3>. QED BY <3>1, <3>2, <3>4 DEF DiskOK
  <2>. QED BY <2>1, <2>2
<1>12. CASE Restart \/ LoseIndex \/ \E k \in Keys : LoseBlob(k)
  BY <1>1, <1>12 DEF Restart, LoseIndex, LoseBlob
<1>13. CASE UNCHANGED vars
  BY <1>2, <1>13 DEF vars
<1>. QED BY <1>3, <1>4, <1>5, <1>6, <1>7, <1>8, <1>9, <1>10, <1>11, <1>12, <1>13
     DEF Next, Step, Environment

-----------------------------------------------------------------------------
(* The theorems *)

LEMMA InitIInv == ASSUME Init PROVE IInv
<1>1. /\ index = Empty /\ recency = <<>> /\ saved = Blank /\ blobs = Empty
      /\ clock = 0 /\ lock = None /\ served = None /\ faults = 0
      /\ pc = [t \in Threads |-> "idle"] /\ key = [t \in Threads |-> None]
      /\ clip = [t \in Threads |-> 0]
  BY DEF Init
<1>2. /\ index = Blank.entries /\ recency = Blank.recency /\ DOMAIN Empty = {}
      /\ saved.entries = Empty
  BY <1>1 DEF Blank, Empty
<1>3. IndexOK(index, recency) /\ IndexOK(saved.entries, saved.recency) /\ Bytes(index) = 0
  BY <1>1, <1>2, BlankOK
<1>4. TypeOK /\ RequestOK
  BY <1>1, <1>2 DEF TypeOK, RequestOK, Range
<1>5. BudgetOK
  BY <1>1, <1>2, <1>3, BytesAssumption DEF BudgetOK
<1>6. WholeOK /\ DiskOK
  BY <1>1, <1>2 DEF WholeOK, HitIsWhole, DiskOK
<1>. QED BY <1>3, <1>4, <1>5, <1>6 DEF IInv

LEMMA NextIInv == ASSUME IInv, [Next]_vars PROVE IInv'
<1>. USE DEF IInv
<1>1. /\ TypeOK' /\ RequestOK'
      /\ IndexOK(index', recency')
      /\ IndexOK(saved'.entries, saved'.recency)
  BY TypesKept
<1>2. BudgetOK' /\ WholeOK' /\ DiskOK'
  BY BudgetKept, WholeKept, DiskKept
<1>. QED BY <1>1, <1>2

\* The invariant above holds through faults, crashes and restarts.
THEOREM Invariance == Spec => []IInv
<1>1. Init => IInv
  BY InitIInv
<1>2. IInv /\ [Next]_vars => IInv'
  BY NextIInv
<1>. QED BY <1>1, <1>2, PTL DEF Spec

\* Between two operations the index is within the budget, and without faults the
\* disk holds just the clips of the index: what get(), put() and _evict see to.
THEOREM ConsistentHolds == Spec => []Consistent
<1>1. ASSUME IInv PROVE Consistent
  <2>1. lock = None => \A t \in Threads : pc[t] # "evict" /\ pc[t] # "index"
    BY <1>1, OneOwner DEF IInv, Owning
  <2>2. WithinBudget
    BY <1>1, <2>1 DEF IInv, BudgetOK, WithinBudget
  <2>3. DiskMatchesIndex
    BY <1>1, <2>1 DEF IInv, DiskOK, TypeOK, DiskMatchesIndex
  <2>. QED BY <1>1, <2>2, <2>3 DEF IInv, Consistent
<1>. QED BY <1>1, Invariance, PTL

\* No lookup returns a clip that was not written in full, whatever failed and
\* whenever the process was killed: put() replaces a blob only by a whole one.
THEOREM HitIsWholeHolds == Spec => []HitIsWhole
<1>1. IInv => HitIsWhole
  BY DEF IInv, WholeOK
<1>. QED BY <1>1, Invariance, PTL

\* _evict takes the least recently used clip, also after a restart.
THEOREM EvictionOrder == Spec => EvictsLeastRecentlyUsed
<1>1. ASSUME IInv, [Next]_vars, NEW t \in Threads, pc[t] = "evict", pc'[t] = "evict",
             index' # index
      PROVE  DOMAIN index' = DOMAIN index \ {Head(recency)}
  <2>1. lock = t /\ \A u \in Threads : pc[u] \in Owning => u = t
    BY <1>1, OneOwner DEF IInv, TypeOK, Owning
  <2>2. lock # None
    BY <2>1, NoneAssumption
  <2>3. ~Restart
    BY <1>1 DEF Restart
  <2>4. Evict(t)
    <3>. USE DEF memory, disk
    <3>1. ASSUME NEW u \in Threads, NEW k \in Keys, Request(u, k) PROVE FALSE
      BY <1>1, <3>1 DEF Request
    <3>2. ASSUME NEW u \in Threads, PutIndex(u) PROVE FALSE
      BY <1>1, <2>1, <3>2 DEF PutIndex, Owning
    <3>3. ASSUME NEW u \in Threads, Evict(u) PROVE u = t
      BY <2>1, <3>3 DEF Evict, Owning
    <3>4. ASSUME NEW u \in Threads, Step(u) PROVE Evict(u) \/ PutIndex(u)
      BY <1>1, <2>2, <3>4
      DEF Step, Synthesize, SynthesizeFails, GetMiss, GetHit, GetUnreadable, PutWrite,
          PutFails, PutReplace, EvictDone, Save
    <3>5. ~LoseIndex /\ \A k \in Keys : ~LoseBlob(k)
      BY <1>1 DEF LoseIndex, LoseBlob
    <3>6. ~UNCHANGED vars
      BY <1>1 DEF vars
    <3>. QED BY <1>1, <2>3, <3>1, <3>2, <3>3, <3>4, <3>5, <3>6 DEF Next, Environment
  <2>5. Oldest = Head(recency)
    BY <1>1, <2>4, OverBudgetHasEntry, OldestIsHead DEF IInv, Evict
  <2>6. index' = Drop(index, Oldest)
    BY <2>4 DEF Evict, Forget
  <2>. QED BY <2>5, <2>6 DEF Drop
<1>2. IInv /\ [Next]_vars => [\A t \in Threads :
          pc[t] = "evict" /\ pc'[t] = "evict" /\ index' # index =>
              DOMAIN index' = DOMAIN index \ {Head(recency)}]_vars
  BY <1>1
<1>. QED BY <1>2, Invariance, PTL DEF Spec, EvictsLeastRecentlyUsed

\* A step that loses the clip of at most one key, and serves nothing.
LEMMA LosesOne ==
  ASSUME NEW k \in Keys, blobs' \in {Drop(blobs, k), blobs}, UNCHANGED served
  PROVE  [Contract!Next]_<<blobs, served>>
<1>1. CASE blobs' = Drop(blobs, k)
  <2>1. Contract!Lose(k)
    BY <1>1 DEF Contract!Lose, Drop
  <2>. QED BY <2>1 DEF Contract!Next
<1>. QED BY <1>1

\* get() and put() act on the clips at once, as ClipStore says: a put() when its
\* blob is replaced, a lookup when it reads one.
THEOREM Refinement == Spec => KeepsContract
<1>1. Init => Contract!Init
  BY DEF Init, Contract!Init, Empty
<1>2. ASSUME IInv, [Next]_vars PROVE [Contract!Next]_<<blobs, served>>
  <2>. USE DEF memory, disk
  <2>1. /\ \A t \in Threads : pc[t] # "idle" => key[t] \in Keys
        /\ \A t \in Threads : pc[t] = "replace" => clip[t] \in Sizes
    BY <1>2 DEF IInv, RequestOK
  <2>2. ASSUME NEW t \in Threads, NEW k \in Keys, Request(t, k)
        PROVE  UNCHANGED <<blobs, served>>
    BY <2>2 DEF Request
  <2>3. ASSUME NEW t \in Threads,
               \/ Synthesize(t) \/ SynthesizeFails(t) \/ GetMiss(t) \/ PutWrite(t)
               \/ PutFails(t) \/ PutIndex(t) \/ EvictDone(t) \/ Save(t)
        PROVE  UNCHANGED <<blobs, served>>
    BY <2>3
    DEF Synthesize, SynthesizeFails, GetMiss, PutWrite, PutFails, PutIndex, EvictDone, Save
  <2>4. ASSUME NEW t \in Threads, GetHit(t) PROVE Contract!Next
    <3>1. key[t] \in Keys /\ Contract!Serve(key[t])
      BY <2>1, <2>4 DEF GetHit, Contract!Serve
    <3>. QED BY <3>1 DEF Contract!Next
  <2>5. ASSUME NEW t \in Threads, GetUnreadable(t)
        PROVE  [Contract!Next]_<<blobs, served>>
    <3>1. key[t] \in Keys /\ blobs' \in {Drop(blobs, key[t]), blobs} /\ UNCHANGED served
      BY <2>1, <2>5 DEF GetUnreadable, Forget
    <3>. QED BY <3>1, LosesOne
  <2>6. ASSUME NEW t \in Threads, Evict(t)
        PROVE  [Contract!Next]_<<blobs, served>>
    <3>1. Oldest \in DOMAIN index /\ DOMAIN index \subseteq Keys
      BY <1>2, <2>6, OverBudgetHasEntry, OldestIsHead DEF IInv, IndexOK, Evict
    <3>2. blobs' \in {Drop(blobs, Oldest), blobs} /\ UNCHANGED served
      BY <2>6 DEF Evict, Forget
    <3>. HIDE DEF memory, disk
    <3>. QED BY <3>1, <3>2, LosesOne
  <2>7. ASSUME NEW t \in Threads, PutReplace(t) PROVE Contract!Next
    <3>. DEFINE c == [size |-> clip[t], whole |-> TRUE]
    <3>1. key[t] \in Keys /\ c \in [size : Sizes, whole : {TRUE}]
      BY <2>1, <2>7 DEF PutReplace
    <3>2. Contract!Store(key[t], c)
      BY <2>7 DEF PutReplace, Put, Contract!Store
    <3>. HIDE DEF c
    <3>. QED BY <3>1, <3>2 DEF Contract!Next
  <2>8. ASSUME NEW k \in Keys, LoseBlob(k) PROVE [Contract!Next]_<<blobs, served>>
    BY <2>8, LosesOne DEF LoseBlob
  <2>9. CASE Restart
    BY <2>9 DEF Restart, Contract!Next, Contract!Restart
  <2>10. CASE LoseIndex \/ UNCHANGED vars
    BY <2>10 DEF LoseIndex, vars
  <2>. QED BY <1>2, <2>2, <2>3, <2>4, <2>5, <2>6, <2>7, <2>8, <2>9, <2>10
       DEF Next, Step, Environment
<1>. QED BY <1>1, <1>2, Invariance, PTL DEF Spec, KeepsContract, Contract!Spec
=============================================================================
