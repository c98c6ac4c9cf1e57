---------------------------- MODULE ServiceProofs ----------------------------
(***************************************************************************)
(* What the speech service does to a text before a provider sees it, and   *)
(* the settings it does it under, for all texts, limits, files and numbers *)
(* of variables:                                                           *)
(*  - CachedSynthesis: with a provider that reads its model for every clip *)
(*    no request that finds the model is served a clip of an older one;    *)
(*  - Chunking: the chunks say the whole text, once and in order, and are  *)
(*    cut where a reader would pause, and no loop turns for ever;          *)
(*  - ConfigLayers: the environment is over the file, and over no more of  *)
(*    it than a variable touches;                                          *)
(*  - HookScript, which makes such texts of transcripts: it tells the      *)
(*    newest reply, cut at a word.                                         *)
(***************************************************************************)
EXTENDS CachedSynthesis, Chunking, ConfigLayers,
        SequenceTheorems, WellFoundedInduction, TLAPS

-----------------------------------------------------------------------------
(* Cached synthesis *)

CacheInv == TypeOK /\ NeverOlder

\* What the initial state and every step preserve, when the provider is piper.
LEMMA CacheInvInit == Init => CacheInv
  BY SMT DEF Init, Cache!Init, CacheInv, TypeOK, NeverOlder, Name

LEMMA CacheInvStep ==
  ASSUME Provider = "piper", CacheInv, [Next]_vars
  PROVE  CacheInv'
<1> USE DEF CacheInv, TypeOK, NeverOlder, Name, files, requests
<1>1. CASE \E t \in Threads : Request(t)
  BY <1>1, SMT DEF Request
<1>2. CASE \E t \in Threads : Fingerprint(t)
  BY <1>2, SMT DEF Fingerprint, Mtime
<1>3. CASE \E t \in Threads : Hit(t)
  BY <1>3, SMT DEF Hit, Cache!Serve, Return
<1>4. CASE \E t \in Threads : Miss(t)
  BY <1>4, SMT DEF Miss
<1>5. CASE \E t \in Threads : Synthesize(t)
  BY <1>5, SMT DEF Synthesize
<1>11. CASE \E t \in Threads : SynthesizeFails(t)
  BY <1>11, SMT DEF SynthesizeFails, Return
<1>6. ASSUME NEW t \in Threads, Store(t)
      PROVE  CacheInv'
  <2>. USE DEF Cache!Store
  <2>1. /\ fingerprint[t] \in Nat /\ audio[t] \in Nat
        /\ audio[t] >= fingerprint[t]
    BY <1>6 DEF Store
  <2>2. /\ DOMAIN cache' \subseteq Nat
        /\ cache' \in [DOMAIN cache' -> Nat]
        /\ \A v \in DOMAIN cache' \ {Name} : cache'[v] >= v
    BY <1>6, <2>1, SMT DEF Store
  <2>3. /\ \A s \in Threads : pc'[s] # "idle" =>
              /\ pc'[s] = pc[s] /\ fingerprint'[s] = fingerprint[s]
              /\ audio'[s] = audio[s] /\ since'[s] = since[s]
        /\ \A s \in Threads : pc'[s] = "idle" =>
              /\ fingerprint'[s] \in {0, fingerprint[s]}
              /\ since'[s] \in {0, since[s]}
    BY <1>6, SMT DEF Store, Return
  <2>4. TypeOK'
    BY <1>6, <2>2, SMT DEF Store, Return
  <2>5. NeverOlder'
    BY <1>6, <2>1, <2>2, <2>3, <2>4, SMT DEF Store
  <2> QED
    BY <2>4, <2>5
<1>7. CASE \E v \in Versions \cup {Name} : Forget(v)
  BY <1>7, SMT DEF Forget, Cache!Lose
<1>8. CASE Swap
  BY <1>8, SMT DEF Swap
<1>12. CASE Hide
  BY <1>12, SMT DEF Hide
<1>9. CASE Restart
  BY <1>9, SMT DEF Restart, Cache!Restart
<1>10. CASE UNCHANGED vars
  BY <1>10, SMT DEF vars
<1> QED
  BY <1>1, <1>2, <1>3, <1>4, <1>5, <1>6, <1>7, <1>8, <1>9, <1>10,
     <1>11, <1>12 DEF Next

\* With piper no clip is older than the mtime it is stored under, nor than the
\* beginning of the request that made it.
THEOREM PiperNeverOlder ==
  ASSUME Provider = "piper"
  PROVE  Spec => []NeverOlder
<1>1. Init => CacheInv
  BY CacheInvInit
<1>2. CacheInv /\ [Next]_vars => CacheInv'
  BY CacheInvStep
<1>3. CacheInv => NeverOlder
  BY DEF CacheInv
<1> QED
  BY <1>1, <1>2, <1>3, PTL DEF Spec

\* With piper a request that begins after a swap of the model, and finds a model
\* file, is never served a cached clip of the older one.
THEOREM PiperHitIsCurrent ==
  ASSUME Provider = "piper"
  PROVE  Spec => HitIsCurrent
<1>1. Init => CacheInv
  BY CacheInvInit
<1>2. CacheInv /\ [Next]_vars => CacheInv'
  BY CacheInvStep
<1>3. CacheInv /\ [Next]_vars =>
        [\A t \in Threads :
           Hit(t) /\ fingerprint[t] # Name => cache[fingerprint[t]] >= since[t]]_vars
  BY SMT DEF CacheInv, TypeOK, NeverOlder, Hit, Cache!Serve, Name
<1> QED
  BY <1>1, <1>2, <1>3, PTL DEF Spec, HitIsCurrent

-----------------------------------------------------------------------------
(* Least and greatest positions *)

\* Every non-empty set of numbers has a least member.
LEMMA LeastPosition ==
  ASSUME NEW T, T \subseteq Nat, T # {}
  PROVE  \E x \in T : \A y \in T : x <= y
<1>1. PICK x \in T : \A y \in T : ~ (<<y, x>> \in OpToRel(<, Nat))
  BY NatLessThanWellFounded, WFMin
<1>2. ASSUME NEW y \in T PROVE ~ (y < x)
  BY <1>1 DEF OpToRel
<1>. QED BY <1>2

\* Min and Max of a set of positions.
LEMMA MinPosition ==
  ASSUME NEW T, T \subseteq Nat, T # {}
  PROVE  Min(T) \in T /\ \A y \in T : Min(T) <= y
  BY LeastPosition DEF Min

LEMMA MaxPosition ==
  ASSUME NEW n \in Nat, NEW T, T \subseteq 0..n, T # {}
  PROVE  Max(T) \in T /\ \A y \in T : Max(T) >= y
<1>. DEFINE U == {k \in Nat : n - k \in T}
<1>1. U \subseteq Nat /\ U # {}
  <2>1. PICK y \in T : TRUE
    OBVIOUS
  <2>2. n - y \in Nat /\ n - (n - y) = y
    BY <2>1
  <2>. QED BY <2>1, <2>2
<1>2. PICK x \in U : \A y \in U : x <= y
  BY <1>1, LeastPosition
<1>3. PICK z \in T : x = n - z
  OBVIOUS
<1>4. ASSUME NEW y \in T PROVE z >= y
  <2>1. n - y \in U
    <3>1. n - y \in Nat /\ n - (n - y) = y
      OBVIOUS
    <3>. QED BY <3>1
  <2>2. x <= n - y
    BY <1>2, <2>1
  <2>. QED BY <1>3, <2>2
<1>. QED BY <1>4 DEF Max

-----------------------------------------------------------------------------
(* Slices *)

\* What strip() leaves: nothing of white space, else the slice from the first
\* character that is none to the last.
LEMMA StrippedSlice ==
  ASSUME NEW s \in Seq(Characters), NEW a \in Nat \ {0}, NEW b \in 0..Len(s),
         Ink(s, a, b) # {}
  PROVE  \E f \in a..b, l \in a..b :
            /\ Stripped(s, a, b) = <<<<f, l>>>>
            /\ f <= l
            /\ s[f] \notin White /\ s[l] \notin White
            /\ \A i \in a..b : s[i] \notin White => f <= i /\ i <= l
<1>. DEFINE ink == Ink(s, a, b)
<1>1. ink \subseteq 0..Len(s) /\ ink \subseteq Nat /\ ink \subseteq a..b
  BY DEF Ink
<1>2. Min(ink) \in ink /\ \A y \in ink : Min(ink) <= y
  BY <1>1, MinPosition
<1>3. Max(ink) \in ink /\ \A y \in ink : Max(ink) >= y
  BY <1>1, MaxPosition
<1>4. Stripped(s, a, b) = <<<<Min(ink), Max(ink)>>>>
  BY DEF Stripped
<1>5. \A i : i \in ink <=> i \in a..b /\ s[i] \notin White
  BY DEF Ink
<1>. HIDE DEF ink
<1>. QED BY <1>1, <1>2, <1>3, <1>4, <1>5

LEMMA StrippedNothing ==
  ASSUME NEW s, NEW a, NEW b, Ink(s, a, b) = {}
  PROVE  Stripped(s, a, b) = <<>>
  BY DEF Stripped

-----------------------------------------------------------------------------
(* Words and sentences *)

\* Where the word before a terminator begins.
LEMMA WordBefore ==
  ASSUME NEW s \in Seq(Characters), StopsInLine(s), NEW b \in 0..Len(s) - 1, s[b + 1] = "."
  PROVE  \/ /\ TrailingWord(s, b) = <<>>
            /\ b = 0 \/ s[b] \notin Word
         \/ \E u \in 1..b :
              /\ TrailingWord(s, b) = SubSeq(s, u, b)
              /\ \A k \in u..b : s[k] \in Word
              /\ u = 1 \/ s[u - 1] \notin Word
<1>. DEFINE starts == {i \in 1..b : \A k \in i..b : s[k] \in Word}
<1>1. ~ (b > 0 /\ s[b] = "n")
  BY DEF StopsInLine
<1>2. TrailingWord(s, b) = IF starts = {} THEN <<>> ELSE SubSeq(s, Min(starts), b)
  BY <1>1 DEF TrailingWord
<1>3. CASE starts = {}
  <2>1. ASSUME b # 0 PROVE s[b] \notin Word
    <3>1. b \in 1..b /\ \A k \in b..b : k = b
      BY <2>1
    <3>2. b \notin starts
      BY <1>3
    <3>. QED BY <3>1, <3>2
  <2>. QED BY <1>2, <1>3, <2>1
<1>4. CASE starts # {}
  <2>1. starts \subseteq Nat
    OBVIOUS
  <2>2. PICK u : u = Min(starts)
    OBVIOUS
  <2>3. u \in starts /\ \A y \in starts : u <= y
    BY <1>4, <2>1, <2>2, MinPosition
  <2>4. ASSUME u # 1, s[u - 1] \in Word PROVE FALSE
    <3>1. u - 1 \in 1..b /\ \A k \in u - 1..b : s[k] \in Word
      BY <2>3, <2>4
    <3>2. u - 1 \in starts
      BY <3>1
    <3>. QED BY <2>3, <3>2
  <2>. QED BY <1>2, <1>4, <2>2, <2>3, <2>4
<1>. QED BY <1>3, <1>4

LEMMA BoundaryMeans ==
  ASSUME NEW s \in Seq(Characters), NEW i, NEW j
  PROVE  <<i, j>> \in Boundaries(s)
         <=> /\ i \in 1..Len(s) /\ j \in 1..Len(s) /\ i <= j
             /\ \A k \in i..j : s[k] = "."
             /\ i = 1 \/ s[i - 1] # "."
             /\ j = Len(s) \/ s[j + 1] \in White
<1>. DEFINE b == <<i, j>>
<1>1. b[1] = i /\ b[2] = j
  OBVIOUS
<1>2. b \in (1..Len(s)) \X (1..Len(s)) <=> i \in 1..Len(s) /\ j \in 1..Len(s)
  OBVIOUS
<1>. HIDE DEF b
<1>3. b \in Boundaries(s)
      <=> /\ b \in (1..Len(s)) \X (1..Len(s))
          /\ b[1] <= b[2]
          /\ \A k \in b[1]..b[2] : s[k] = "."
          /\ b[1] = 1 \/ s[b[1] - 1] # "."
          /\ b[2] = Len(s) \/ s[b[2] + 1] \in White
  BY DEF Boundaries
<1>. QED BY <1>1, <1>2, <1>3 DEF b

\* A boundary is real when a sentence ends there.
LEMMA RealBoundary ==
  ASSUME NEW s \in Seq(Characters), StopsInLine(s), NEW i, NEW j, <<i, j>> \in Boundaries(s)
  PROVE  IsRealBoundary(s, i) <=> j \in SentenceEnds(s)
<1>1. /\ i \in 1..Len(s) /\ j \in 1..Len(s) /\ i <= j
      /\ \A k \in i..j : s[k] = "."
      /\ i = 1 \/ s[i - 1] # "."
      /\ j = Len(s) \/ s[j + 1] \in White
  BY BoundaryMeans
<1>2. i - 1 \in 0..Len(s) - 1 /\ s[(i - 1) + 1] = "."
  BY <1>1
<1>3. "." \notin Word
  BY DEF Word, Letters
<1>4. ASSUME j \notin SentenceEnds(s) PROVE ~IsRealBoundary(s, i)
  <2>1. PICK m \in 1..j : /\ \A k \in m..j : s[k] = "."
                          /\ \E u \in 1..m - 1 : Guards(s, u, m - 1)
    BY <1>1, <1>4 DEF SentenceEnds, EndsSentence
  <2>2. PICK u \in 1..m - 1 : Guards(s, u, m - 1)
    BY <2>1
  <2>3. s[m - 1] \in Word
    BY <2>2 DEF Guards
  <2>4. m = i
    <3>1. ~ m < i
      BY <1>1, <2>1
    <3>2. ~ i < m
      BY <1>1, <1>3, <2>1, <2>3
    <3>. QED BY <1>1, <2>1, <3>1, <3>2
  <2>5. \E v \in 1..i - 1 :
           /\ TrailingWord(s, i - 1) = SubSeq(s, v, i - 1)
           /\ \A k \in v..i - 1 : s[k] \in Word
           /\ v = 1 \/ s[v - 1] \notin Word
    <3>1. ~ (i - 1 = 0 \/ s[i - 1] \notin Word)
      BY <1>1, <2>3, <2>4
    <3>. QED BY <1>2, <3>1, WordBefore
  <2>6. PICK v \in 1..i - 1 :
           /\ TrailingWord(s, i - 1) = SubSeq(s, v, i - 1)
           /\ \A k \in v..i - 1 : s[k] \in Word
           /\ v = 1 \/ s[v - 1] \notin Word
    BY <2>5
  <2>7. /\ \A k \in u..i - 1 : s[k] \in Word
        /\ u = 1 \/ s[u - 1] \notin Word
        /\ SubSeq(s, u, i - 1) \in Abbreviations \/ (u = i - 1 /\ s[u] \in Letters)
    BY <2>2, <2>4 DEF Guards
  <2>8. u = v
    <3>1. ~ u < v
      BY <1>1, <2>2, <2>4, <2>6, <2>7
    <3>2. ~ v < u
      BY <1>1, <2>2, <2>4, <2>6, <2>7
    <3>. QED BY <1>1, <2>2, <2>4, <2>6, <3>1, <3>2
  <2>9. CASE SubSeq(s, u, i - 1) \in Abbreviations
    BY <2>6, <2>8, <2>9 DEF IsRealBoundary
  <2>10. CASE u = i - 1 /\ s[u] \in Letters
    <3>1. Len(SubSeq(s, u, i - 1)) = 1 /\ SubSeq(s, u, i - 1)[1] = s[u]
      BY <1>1, <2>2, <2>4, <2>10
    <3>. QED BY <2>6, <2>8, <2>10, <3>1 DEF IsRealBoundary
  <2>. QED BY <2>7, <2>9, <2>10
<1>5. ASSUME ~IsRealBoundary(s, i) PROVE j \notin SentenceEnds(s)
  <2>1. LET word == TrailingWord(s, i - 1)
        IN  word \in Abbreviations \/ (Len(word) = 1 /\ word[1] \in Letters)
    BY <1>5 DEF IsRealBoundary
  <2>2. TrailingWord(s, i - 1) # <<>>
    <3>1. Len(<<>>) = 0 /\ <<>> \notin Abbreviations
      <4>1. Len(<<>>) = 0 /\ Len(<<"d", "r">>) = 2
        OBVIOUS
      <4>2. <<>> # <<"d", "r">>
        BY <4>1
      <4>. QED BY <4>1, <4>2 DEF Abbreviations
    <3>. QED BY <2>1, <3>1
  <2>3. PICK v \in 1..i - 1 :
           /\ TrailingWord(s, i - 1) = SubSeq(s, v, i - 1)
           /\ \A k \in v..i - 1 : s[k] \in Word
           /\ v = 1 \/ s[v - 1] \notin Word
    BY <1>2, <2>2, WordBefore
  <2>4. Len(SubSeq(s, v, i - 1)) = i - v /\ SubSeq(s, v, i - 1)[1] = s[v]
    BY <1>1, <2>3
  <2>5. Guards(s, v, i - 1)
    <3>1. \/ SubSeq(s, v, i - 1) \in Abbreviations
          \/ i - v = 1 /\ s[v] \in Letters
      BY <2>1, <2>3, <2>4
    <3>2. i - v = 1 => v = i - 1
      BY <1>1, <2>3
    <3>. QED BY <2>3, <3>1, <3>2 DEF Guards
  <2>6. i \in 1..j
    BY <1>1
  <2>. QED BY <1>1, <2>3, <2>5, <2>6 DEF SentenceEnds, EndsSentence
<1>. QED BY <1>4, <1>5

\* A sentence ends at the end of a boundary.
LEMMA EndIsBoundary ==
  ASSUME NEW s \in Seq(Characters), NEW j \in SentenceEnds(s)
  PROVE  \E i \in 1..j : <<i, j>> \in Boundaries(s)
<1>. DEFINE T == {i \in 1..j : \A k \in i..j : s[k] = "."}
<1>1. j \in 1..Len(s) /\ s[j] = "." /\ (j = Len(s) \/ s[j + 1] \in White)
  BY DEF SentenceEnds, EndsSentence
<1>2. j \in T /\ T \subseteq Nat
  BY <1>1
<1>3. PICK i \in T : \A y \in T : i <= y
  BY <1>2, LeastPosition
<1>4. i = 1 \/ s[i - 1] # "."
  <2>1. SUFFICES ASSUME i # 1, s[i - 1] = "." PROVE FALSE
    OBVIOUS
  <2>2. i - 1 \in T
    BY <1>1, <1>3, <2>1
  <2>. QED BY <1>3, <2>2
<1>5. /\ i \in 1..Len(s) /\ i <= j /\ i \in 1..j
      /\ \A k \in i..j : s[k] = "."
  <2>1. i \in 1..j /\ \A k \in i..j : s[k] = "."
    BY <1>3
  <2>. QED BY <1>1, <2>1
<1>6. <<i, j>> \in Boundaries(s)
  BY <1>1, <1>4, <1>5, BoundaryMeans
<1>. QED BY <1>5, <1>6
-----------------------------------------------------------------------------
(* The parts of a text, up to a position r *)

Elems(q) == {q[k] : k \in DOMAIN q}

\* Parts are slices that begin and end with a character that is no white space.
Solid(s, P, r) ==
    \A p \in P : /\ p \in (1..Len(s)) \X (1..Len(s))
                 /\ p[1] <= p[2] /\ p[2] <= r
                 /\ s[p[1]] \notin White /\ s[p[2]] \notin White

Covers(s, P, r) == \A i \in Ink(s, 1, r) : \E p \in P : In(i, p)

\* A word that fits a chunk, at the beginning or after a space, is in one part.
WordsInParts(s, P, r) ==
    \A u \in 1..Len(s), v \in 1..r :
        IsWord(s, <<u, v>>) /\ v - u < MaxChars /\ (u = 1 \/ s[u - 1] = " ")
        => \E p \in P : In(u, p) /\ In(v, p)

\* Sentences end at the ends of parts.
EndsOfParts(s, P) == \A p \in P, j \in SentenceEnds(s) : In(j, p) => j = p[2]

\* A sentence that fits a chunk is a part.
SentencesAreParts(s, P, r) ==
    \A d \in 0..Len(s), e \in 1..r :
        IsSentence(s, d, e) /\ Stripped(s, d + 1, e) # <<>>
        /\ Size(Stripped(s, d + 1, e)[1]) <= MaxChars
        => Stripped(s, d + 1, e)[1] \in P

Natural(s, P, r) == EndsOfParts(s, P) /\ SentencesAreParts(s, P, r)

PartsOK(s, P, r) ==
    /\ Solid(s, P, r)
    /\ Covers(s, P, r)
    /\ WordsInParts(s, P, r)
    /\ StopsInLine(s) => Natural(s, P, r)

LEMMA NoParts ==
  ASSUME NEW s \in Seq(Characters)
  PROVE  PartsOK(s, {}, 0)
  BY DEF PartsOK, Solid, Covers, Natural, WordsInParts, EndsOfParts, SentencesAreParts, Ink

\* The parts of what strip() leaves.
LEMMA StrippedElems ==
  ASSUME NEW s \in Seq(Characters), NEW a \in Nat \ {0}, NEW b \in 0..Len(s),
         NEW p \in Elems(Stripped(s, a, b))
  PROVE  /\ Ink(s, a, b) # {}
         /\ Stripped(s, a, b) = <<p>>
         /\ p \in (a..b) \X (a..b)
         /\ p[1] <= p[2]
         /\ s[p[1]] \notin White /\ s[p[2]] \notin White
<1>1. Ink(s, a, b) # {}
  BY StrippedNothing DEF Elems
<1>2. PICK f \in a..b, l \in a..b :
            /\ Stripped(s, a, b) = <<<<f, l>>>>
            /\ f <= l
            /\ s[f] \notin White /\ s[l] \notin White
  BY <1>1, StrippedSlice
<1>3. p = <<f, l>>
  BY <1>2 DEF Elems
<1>. QED BY <1>1, <1>2, <1>3

\* They hold all that is no white space.
LEMMA StrippedCovers ==
  ASSUME NEW s \in Seq(Characters), NEW a \in Nat \ {0}, NEW b \in 0..Len(s),
         NEW i \in a..b, s[i] \notin White
  PROVE  \E p \in Elems(Stripped(s, a, b)) :
            /\ Stripped(s, a, b) = <<p>>
            /\ \A j \in a..b : s[j] \notin White => In(j, p)
<1>1. Ink(s, a, b) # {}
  BY DEF Ink
<1>2. PICK f \in a..b, l \in a..b :
            /\ Stripped(s, a, b) = <<<<f, l>>>>
            /\ f <= l
            /\ \A j \in a..b : s[j] \notin White => f <= j /\ j <= l
  BY <1>1, StrippedSlice
<1>3. PICK p : p = <<f, l>>
  OBVIOUS
<1>4. p \in Elems(Stripped(s, a, b))
  BY <1>2, <1>3 DEF Elems
<1>. QED BY <1>2, <1>3, <1>4 DEF In

\* Where the last sentence ended at a, and the next one ends at b or with the
\* text, what is between becomes a part.
LEMMA PartsGrow ==
  ASSUME NEW s \in Seq(Characters), NEW P, NEW a \in 0..Len(s), NEW b \in a..Len(s),
         PartsOK(s, P, a),
         a = 0 \/ a = Len(s) \/ s[a + 1] \in White,
         StopsInLine(s) => /\ a = 0 \/ a \in SentenceEnds(s)
                           /\ b = Len(s) \/ b \in SentenceEnds(s)
                           /\ \A j \in a + 1..b - 1 : j \notin SentenceEnds(s)
  PROVE  PartsOK(s, P \cup Elems(Stripped(s, a + 1, b)), b)
<1>. DEFINE new == Elems(Stripped(s, a + 1, b))
<1>0. a + 1 \in Nat \ {0} /\ b \in 0..Len(s) /\ b \in Nat /\ Len(s) \in Nat
  OBVIOUS
<1>1. \A p \in new : /\ p \in (a + 1..b) \X (a + 1..b)
                     /\ p[1] <= p[2]
                     /\ s[p[1]] \notin White /\ s[p[2]] \notin White
  BY <1>0, StrippedElems
<1>2. \A i \in a + 1..b : s[i] \notin White
        => \E p \in new : \A j \in a + 1..b : s[j] \notin White => In(j, p)
  BY <1>0, StrippedCovers
<1>. HIDE DEF new
<1>3. Solid(s, P \cup new, b)
  <2>1. ASSUME NEW p \in P
        PROVE  /\ p \in (1..Len(s)) \X (1..Len(s)) /\ p[1] <= p[2] /\ p[2] <= b
               /\ s[p[1]] \notin White /\ s[p[2]] \notin White
    <3>1. /\ p \in (1..Len(s)) \X (1..Len(s)) /\ p[1] <= p[2] /\ p[2] <= a
          /\ s[p[1]] \notin White /\ s[p[2]] \notin White
      BY DEF PartsOK, Solid
    <3>2. p[2] \in 1..Len(s)
      BY <3>1
    <3>. QED BY <3>1, <3>2
  <2>2. ASSUME NEW p \in new
        PROVE  /\ p \in (1..Len(s)) \X (1..Len(s)) /\ p[2] <= b
    <3>1. p \in (a + 1..b) \X (a + 1..b)
      BY <1>1
    <3>2. p[1] \in a + 1..b /\ p[2] \in a + 1..b /\ p = <<p[1], p[2]>>
      BY <3>1
    <3>. QED BY <3>2
  <2>. QED BY <1>1, <2>1, <2>2 DEF Solid
<1>4. Covers(s, P \cup new, b)
  <2>1. ASSUME NEW i \in 1..b, s[i] \notin White
        PROVE  \E p \in P \cup new : In(i, p)
    <3>1. CASE i <= a
      <4>1. i \in Ink(s, 1, a)
        BY <2>1, <3>1 DEF Ink
      <4>. QED BY <4>1 DEF PartsOK, Covers
    <3>2. CASE i > a
      <4>1. i \in a + 1..b
        BY <3>2
      <4>. QED BY <1>2, <2>1, <4>1
    <3>. QED BY <3>1, <3>2
  <2>. QED BY <2>1 DEF Covers, Ink
<1>7. WordsInParts(s, P \cup new, b)
  <2>0. WordsInParts(s, P, a)
    BY DEF PartsOK
  <2>1. ASSUME NEW u \in 1..Len(s), NEW v \in 1..b, IsWord(s, <<u, v>>), v - u < MaxChars,
               u = 1 \/ s[u - 1] = " "
        PROVE  \E p \in P \cup new : In(u, p) /\ In(v, p)
    <3>1. CASE v <= a
      <4>1. v \in 1..a
        BY <3>1
      <4>. QED BY <2>0, <2>1, <4>1 DEF WordsInParts
    <3>2. CASE v > a
      <4>1. u <= v /\ \A k \in u..v : s[k] \notin White
        BY <2>1 DEF IsWord
      <4>2. ~ u <= a
        <5>1. SUFFICES ASSUME u <= a PROVE FALSE
          OBVIOUS
        <5>2. a + 1 \in u..v /\ a # 0 /\ a # Len(s)
          BY <3>2, <5>1
        <5>. QED BY <4>1, <5>2
      <4>3. u \in a + 1..b /\ v \in a + 1..b /\ s[u] \notin White /\ s[v] \notin White
        BY <3>2, <4>1, <4>2
      <4>. QED BY <1>2, <4>3
    <3>. QED BY <3>1, <3>2
  <2>. QED BY <2>1 DEF WordsInParts
<1>5. ASSUME StopsInLine(s) PROVE Natural(s, P \cup new, b)
  <2>0. EndsOfParts(s, P) /\ SentencesAreParts(s, P, a) /\ Solid(s, P, a)
    BY <1>5 DEF PartsOK, Natural
  <2>2. ASSUME NEW p \in new, NEW j \in SentenceEnds(s), In(j, p)
        PROVE  j = p[2]
    <3>1. p[1] \in a + 1..b /\ p[2] \in a + 1..b
      BY <1>1
    <3>2. j \in 1..Len(s) /\ p[1] <= j /\ j <= p[2]
      BY <2>2 DEF In, SentenceEnds
    <3>3. j \notin a + 1..b - 1
      BY <1>5
    <3>. QED BY <3>1, <3>2, <3>3
  <2>3. ASSUME NEW d \in 0..Len(s), NEW e \in 1..b, IsSentence(s, d, e),
               Stripped(s, d + 1, e) # <<>>, Size(Stripped(s, d + 1, e)[1]) <= MaxChars
        PROVE  Stripped(s, d + 1, e)[1] \in P \cup new
    <3>1. CASE e <= a
      <4>1. e \in 1..a
        BY <3>1
      <4>. QED BY <2>0, <2>3, <4>1 DEF SentencesAreParts
    <3>2. CASE e > a
      <4>1. /\ d < e
            /\ d = 0 \/ d \in SentenceEnds(s)
            /\ e = Len(s) \/ e \in SentenceEnds(s)
            /\ \A j \in d + 1..e - 1 : j \notin SentenceEnds(s)
        BY <2>3 DEF IsSentence
      <4>2. e = b
        <5>1. e \notin a + 1..b - 1 \/ e = Len(s)
          BY <1>5, <4>1
        <5>. QED BY <3>2, <5>1
      <4>3. ~ a < d
        <5>1. SUFFICES ASSUME a < d PROVE FALSE
          OBVIOUS
        <5>2. d \in a + 1..b - 1 /\ d # 0
          BY <4>1, <4>2, <5>1
        <5>. QED BY <1>5, <4>1, <5>2
      <4>4. ~ d < a
        <5>1. SUFFICES ASSUME d < a PROVE FALSE
          OBVIOUS
        <5>2. a \in d + 1..e - 1 /\ a # 0
          BY <3>2, <5>1
        <5>. QED BY <1>5, <4>1, <5>2
      <4>5. d = a
        BY <4>3, <4>4
      <4>6. Stripped(s, a + 1, b) # <<>> /\ Stripped(s, a + 1, b)[1] \in new
        <5>1. Stripped(s, a + 1, b) # <<>>
          BY <2>3, <4>2, <4>5
        <5>2. 1 \in DOMAIN Stripped(s, a + 1, b)
          BY <1>0, <5>1, StrippedNothing, StrippedSlice
        <5>. QED BY <5>1, <5>2 DEF Elems, new
      <4>. QED BY <4>2, <4>5, <4>6
    <3>. QED BY <3>1, <3>2
  <2>5. EndsOfParts(s, P \cup new)
    BY <2>0, <2>2 DEF EndsOfParts
  <2>6. SentencesAreParts(s, P \cup new, b)
    BY <2>3 DEF SentencesAreParts
  <2>. QED BY <2>5, <2>6 DEF Natural
<1>6. PartsOK(s, P \cup new, b)
  BY <1>3, <1>4, <1>5, <1>7 DEF PartsOK
<1>. QED BY <1>6 DEF new

\* Where a part that is too long is cut: behind its first character, at a space
\* or after max_chars characters without one.
LEMMA CutPlace ==
  ASSUME NEW s \in Seq(Characters), NEW f \in 1..Len(s)
  PROVE  \E c \in Nat :
            /\ Cut(s, f) = c
            /\ f < c /\ c <= f + MaxChars
            /\ \/ s[c] = " "
               \/ /\ c = f + MaxChars
                  /\ \A i \in f + 1..f + MaxChars - 1 : s[i] # " "
<1>. DEFINE spaces == {i \in f + 1..f + MaxChars - 1 : s[i] = " "}
<1>1. MaxChars \in Nat /\ MaxChars >= 1 /\ f \in Nat
  BY MaxCharsAssumption
<1>2. /\ spaces \subseteq f + 1..f + MaxChars - 1
      /\ \A i \in f + 1..f + MaxChars - 1 : i \in spaces <=> s[i] = " "
  BY <1>1
<1>3. Cut(s, f) = IF spaces = {} THEN f + MaxChars ELSE Max(spaces)
  BY DEF Cut
<1>. HIDE DEF spaces
<1>4. f + MaxChars \in Nat /\ f < f + MaxChars /\ f + MaxChars <= f + MaxChars
  BY <1>1
<1>5. CASE spaces = {}
  <2>1. Cut(s, f) = f + MaxChars /\ \A i \in f + 1..f + MaxChars - 1 : s[i] # " "
    BY <1>2, <1>3, <1>5
  <2>. QED BY <1>4, <2>1
<1>6. CASE spaces # {}
  <2>1. \A i \in f + 1..f + MaxChars - 1 : i \in Nat /\ f < i /\ i <= f + MaxChars
    BY <1>1
  <2>2. ASSUME NEW i \in spaces PROVE i \in 0..f + MaxChars
    <3>1. i \in Nat /\ i <= f + MaxChars
      BY <1>2, <2>1
    <3>. QED BY <1>4, <3>1
  <2>3. Max(spaces) \in spaces
    BY <1>4, <1>6, <2>2, MaxPosition
  <2>4. Max(spaces) \in f + 1..f + MaxChars - 1 /\ s[Max(spaces)] = " "
    BY <1>2, <2>3
  <2>. QED BY <1>3, <1>6, <2>1, <2>4
<1>. QED BY <1>5, <1>6

\* A part that is too long gives way to what is left of it on both sides of a cut.
LEMMA PartsCut ==
  ASSUME NEW s \in Seq(Characters), NEW P, PartsOK(s, P, Len(s)),
         NEW p \in P, Size(p) > MaxChars,
         NEW Q, P \ {p} \subseteq Q, Q \subseteq P
  PROVE  LET cut == Cut(s, p[1])
         IN  PartsOK(s, Q \cup Elems(Stripped(s, p[1], cut - 1)) \cup Elems(Stripped(s, cut, p[2])),
                     Len(s))
<1>0. MaxChars \in Nat /\ MaxChars >= 1
  BY MaxCharsAssumption
<1>1. /\ p \in (1..Len(s)) \X (1..Len(s)) /\ p[1] <= p[2]
      /\ s[p[1]] \notin White /\ s[p[2]] \notin White
  BY DEF PartsOK, Solid
<1>2. PICK f, l : f = p[1] /\ l = p[2]
  OBVIOUS
<1>3. /\ f \in 1..Len(s) /\ l \in 1..Len(s) /\ f <= l
      /\ l - f + 1 > MaxChars
      /\ s[f] \notin White
  BY <1>1, <1>2 DEF Size
<1>4. PICK cut \in Nat :
        /\ Cut(s, f) = cut
        /\ f < cut /\ cut <= f + MaxChars
        /\ \/ s[cut] = " "
           \/ /\ cut = f + MaxChars
              /\ \A i \in f + 1..f + MaxChars - 1 : s[i] # " "
  BY <1>3, CutPlace
<1>5. /\ f \in Nat /\ l \in Nat /\ Len(s) \in Nat /\ 1 <= f /\ l <= Len(s)
      /\ l - f + 1 > MaxChars
      /\ f < cut /\ cut <= f + MaxChars
  <2>1. f < cut /\ cut <= f + MaxChars
    BY <1>4
  <2>. QED BY <1>3, <2>1
<1>6. /\ cut \in Nat \ {0} /\ cut - 1 \in 0..Len(s) /\ l \in 0..Len(s) /\ f \in Nat \ {0}
      /\ cut <= l /\ f < cut
  BY <1>0, <1>5
<1>. DEFINE head == Elems(Stripped(s, f, cut - 1))
<1>. DEFINE tail == Elems(Stripped(s, cut, l))
<1>7. \A q \in head : /\ q \in (f..cut - 1) \X (f..cut - 1)
                      /\ q[1] <= q[2]
                      /\ s[q[1]] \notin White /\ s[q[2]] \notin White
  BY <1>6, StrippedElems
<1>8. \A q \in tail : /\ q \in (cut..l) \X (cut..l)
                      /\ q[1] <= q[2]
                      /\ s[q[1]] \notin White /\ s[q[2]] \notin White
  BY <1>6, StrippedElems
<1>9. \A i \in f..cut - 1 : s[i] \notin White
        => \E q \in head : \A j \in f..cut - 1 : s[j] \notin White => In(j, q)
  BY <1>6, StrippedCovers
<1>10. \A i \in cut..l : s[i] \notin White
        => \E q \in tail : \A j \in cut..l : s[j] \notin White => In(j, q)
  BY <1>6, StrippedCovers
<1>. DEFINE R == Q \cup head \cup tail
<1>. HIDE DEF head, tail
<1>11. Solid(s, R, Len(s))
  <2>1. ASSUME NEW q \in head \cup tail
        PROVE  q \in (1..Len(s)) \X (1..Len(s)) /\ q[2] <= Len(s)
    <3>1. q \in (f..l) \X (f..l)
      <4>1. CASE q \in head
        <5>1. q[1] \in f..cut - 1 /\ q[2] \in f..cut - 1 /\ q = <<q[1], q[2]>>
          BY <1>7, <4>1
        <5>2. q[1] \in f..l /\ q[2] \in f..l
          BY <1>3, <1>6, <5>1
        <5>. QED BY <5>1, <5>2
      <4>2. CASE q \in tail
        <5>1. q[1] \in cut..l /\ q[2] \in cut..l /\ q = <<q[1], q[2]>>
          BY <1>8, <4>2
        <5>2. q[1] \in f..l /\ q[2] \in f..l
          BY <1>5, <1>6, <5>1
        <5>. QED BY <5>1, <5>2
      <4>. QED BY <2>1, <4>1, <4>2
    <3>2. q[1] \in 1..Len(s) /\ q[2] \in 1..Len(s) /\ q = <<q[1], q[2]>>
      BY <1>3, <3>1
    <3>. QED BY <3>2
  <2>2. Solid(s, P, Len(s))
    BY DEF PartsOK
  <2>. QED BY <1>7, <1>8, <2>1, <2>2 DEF Solid
<1>12. ASSUME NEW i \in 1..Len(s), NEW k \in 1..Len(s), NEW q \in P, In(i, q), In(k, q),
              s[i] \notin White, s[k] \notin White,
              i < cut <=> k < cut
       PROVE  \E t \in R : In(i, t) /\ In(k, t)
  <2>1. CASE q \in Q
    BY <1>12, <2>1
  <2>2. CASE q = p
    <3>1. i \in f..l /\ k \in f..l
      BY <1>2, <1>12, <2>2 DEF In
    <3>2. CASE i < cut
      <4>1. i \in f..cut - 1 /\ k \in f..cut - 1
        BY <1>6, <1>12, <3>1, <3>2
      <4>. QED BY <1>9, <1>12, <4>1
    <3>3. CASE ~ i < cut
      <4>1. i \in cut..l /\ k \in cut..l
        BY <1>6, <1>12, <3>1, <3>3
      <4>. QED BY <1>10, <1>12, <4>1
    <3>. QED BY <3>2, <3>3
  <2>. QED BY <2>1, <2>2
<1>13. Covers(s, R, Len(s))
  <2>1. ASSUME NEW i \in Ink(s, 1, Len(s)) PROVE \E t \in R : In(i, t)
    <3>1. i \in 1..Len(s) /\ s[i] \notin White
      BY DEF Ink
    <3>2. PICK q \in P : In(i, q)
      BY DEF PartsOK, Covers
    <3>3. \E t \in R : In(i, t) /\ In(i, t)
      BY <1>12, <3>1, <3>2
    <3>. QED BY <3>3
  <2>. QED BY <2>1 DEF Covers
<1>16. WordsInParts(s, R, Len(s))
  <2>0. WordsInParts(s, P, Len(s))
    BY DEF PartsOK
  <2>1. ASSUME NEW u \in 1..Len(s), NEW v \in 1..Len(s), IsWord(s, <<u, v>>), v - u < MaxChars,
               u = 1 \/ s[u - 1] = " "
        PROVE  \E t \in R : In(u, t) /\ In(v, t)
    <3>1. PICK q \in P : In(u, q) /\ In(v, q)
      BY <2>0, <2>1 DEF WordsInParts
    <3>2. /\ u <= v
          /\ \A k \in u..v : s[k] \notin White
      BY <2>1 DEF IsWord
    <3>3. CASE q = p
      <4>1. f <= u /\ v <= l
        BY <1>2, <3>1, <3>3 DEF In
      <4>2. ~ (u < cut /\ cut <= v)
        <5>1. SUFFICES ASSUME u < cut, cut <= v PROVE FALSE
          OBVIOUS
        <5>2. s[cut] # " "
          <6>1. cut \in u..v
            BY <1>6, <5>1
          <6>. QED BY <3>2, <6>1 DEF White
        <5>3. /\ cut = f + MaxChars
              /\ \A i \in f + 1..f + MaxChars - 1 : s[i] # " "
          BY <1>4, <5>2
        <5>4. cut = f + MaxChars /\ f <= u /\ v - u < MaxChars /\ u < cut /\ cut <= v
          BY <2>1, <4>1, <5>1, <5>3
        <5>5. /\ f < u /\ u # 1 /\ u - 1 \in 1..Len(s)
              /\ u - 1 = f \/ u - 1 \in f + 1..f + MaxChars - 1
          BY <1>0, <1>5, <5>4
        <5>6. s[u - 1] = " "
          BY <2>1, <5>5
        <5>. QED BY <1>3, <5>3, <5>5, <5>6 DEF White
      <4>3. u < cut <=> v < cut
        BY <1>6, <3>2, <4>2
      <4>. QED BY <1>12, <3>1, <3>2, <4>3
    <3>4. CASE q # p
      BY <3>1, <3>4
    <3>. QED BY <3>3, <3>4
  <2>. QED BY <2>1 DEF WordsInParts
<1>14. ASSUME StopsInLine(s) PROVE Natural(s, R, Len(s))
  <2>0. EndsOfParts(s, P) /\ SentencesAreParts(s, P, Len(s))
    BY <1>14 DEF PartsOK, Natural
  <2>2. ASSUME NEW q \in head \cup tail, NEW j \in SentenceEnds(s), In(j, q)
        PROVE  j = q[2]
    <3>0. j \in 1..Len(s) /\ s[j] \notin White
      BY DEF SentenceEnds, EndsSentence, White
    <3>1. q[1] \in f..l /\ q[2] \in f..l /\ q[1] <= j /\ j <= q[2]
      <4>1. CASE q \in head
        <5>1. q[1] \in f..cut - 1 /\ q[2] \in f..cut - 1
          BY <1>7, <4>1
        <5>. QED BY <1>3, <1>6, <2>2, <5>1 DEF In
      <4>2. CASE q \in tail
        <5>1. q[1] \in cut..l /\ q[2] \in cut..l
          BY <1>8, <4>2
        <5>. QED BY <1>5, <1>6, <2>2, <5>1 DEF In
      <4>. QED BY <2>2, <4>1, <4>2
    <3>2. In(j, p)
      BY <1>2, <1>3, <3>0, <3>1 DEF In
    <3>3. j = l
      BY <1>2, <2>0, <3>2 DEF EndsOfParts
    <3>. QED BY <1>3, <3>0, <3>1, <3>3
  <2>3. ASSUME NEW d \in 0..Len(s), NEW e \in 1..Len(s), IsSentence(s, d, e),
               Stripped(s, d + 1, e) # <<>>, Size(Stripped(s, d + 1, e)[1]) <= MaxChars
        PROVE  Stripped(s, d + 1, e)[1] \in R
    <3>1. Stripped(s, d + 1, e)[1] \in P
      BY <2>0, <2>3 DEF SentencesAreParts
    <3>2. Stripped(s, d + 1, e)[1] # p
      <4>1. SUFFICES ASSUME Stripped(s, d + 1, e)[1] = p PROVE FALSE
        OBVIOUS
      <4>2. Size(p) \in Int
        BY <1>2, <1>3 DEF Size
      <4>. QED BY <1>0, <2>3, <4>1, <4>2
    <3>. QED BY <3>1, <3>2
  <2>5. EndsOfParts(s, R)
    BY <2>0, <2>2 DEF EndsOfParts
  <2>6. SentencesAreParts(s, R, Len(s))
    BY <2>3 DEF SentencesAreParts
  <2>. QED BY <2>5, <2>6 DEF Natural
<1>15. PartsOK(s, R, Len(s))
  BY <1>11, <1>13, <1>14, <1>16 DEF PartsOK
<1>. QED BY <1>2, <1>4, <1>15 DEF head, tail
-----------------------------------------------------------------------------
(* Sequences of slices, one after the other *)

Ascending(q) == \A k, l \in DOMAIN q : k < l => q[k][2] < q[l][1]

Precedes(q, r) == \A k \in DOMAIN q, l \in DOMAIN r : q[k][2] < r[l][1]

\* What is in a sequence that is put together.
LEMMA ConcatParts ==
  ASSUME NEW S, NEW q \in Seq(S), NEW r \in Seq(S)
  PROVE  /\ q \o r \in Seq(S)
         /\ DOMAIN (q \o r) = 1..Len(q) + Len(r)
         /\ \A k \in DOMAIN q : k \in DOMAIN (q \o r) /\ (q \o r)[k] = q[k]
         /\ \A k \in DOMAIN r : /\ Len(q) + k \in DOMAIN (q \o r)
                                /\ (q \o r)[Len(q) + k] = r[k]
         /\ \A k \in DOMAIN (q \o r) : \/ k \in DOMAIN q
                                       \/ k - Len(q) \in DOMAIN r /\ (q \o r)[k] = r[k - Len(q)]
<1>1. /\ DOMAIN q = 1..Len(q) /\ DOMAIN r = 1..Len(r)
      /\ Len(q) \in Nat /\ Len(r) \in Nat /\ Len(q \o r) = Len(q) + Len(r)
      /\ q \o r \in Seq(S)
  OBVIOUS
<1>2. DOMAIN (q \o r) = 1..Len(q) + Len(r)
  BY <1>1
<1>3. \A k \in 1..Len(q) + Len(r) :
        (q \o r)[k] = IF k <= Len(q) THEN q[k] ELSE r[k - Len(q)]
  OBVIOUS
<1>4. ASSUME NEW k \in DOMAIN q PROVE k \in DOMAIN (q \o r) /\ (q \o r)[k] = q[k]
  BY <1>1, <1>2, <1>3
<1>5. ASSUME NEW k \in DOMAIN r
      PROVE  Len(q) + k \in DOMAIN (q \o r) /\ (q \o r)[Len(q) + k] = r[k]
  <2>1. /\ Len(q) + k \in 1..Len(q) + Len(r)
        /\ ~ Len(q) + k <= Len(q) /\ (Len(q) + k) - Len(q) = k
    BY <1>1
  <2>. QED BY <1>2, <1>3, <2>1
<1>6. ASSUME NEW k \in DOMAIN (q \o r)
      PROVE  \/ k \in DOMAIN q
             \/ k - Len(q) \in DOMAIN r /\ (q \o r)[k] = r[k - Len(q)]
  BY <1>1, <1>2, <1>3
<1>. QED BY <1>1, <1>2, <1>4, <1>5, <1>6

LEMMA ConcatElems ==
  ASSUME NEW S, NEW q \in Seq(S), NEW r \in Seq(S)
  PROVE  Elems(q \o r) = Elems(q) \cup Elems(r)
<1>1. ASSUME NEW k \in DOMAIN (q \o r) PROVE (q \o r)[k] \in Elems(q) \cup Elems(r)
  <2>1. CASE k \in DOMAIN q
    BY <2>1, ConcatParts DEF Elems
  <2>2. CASE k - Len(q) \in DOMAIN r /\ (q \o r)[k] = r[k - Len(q)]
    BY <2>2 DEF Elems
  <2>. QED BY <2>1, <2>2, ConcatParts
<1>2. ASSUME NEW k \in DOMAIN q PROVE q[k] \in Elems(q \o r)
  BY ConcatParts DEF Elems
<1>3. ASSUME NEW k \in DOMAIN r PROVE r[k] \in Elems(q \o r)
  <2>1. Len(q) + k \in DOMAIN (q \o r) /\ (q \o r)[Len(q) + k] = r[k]
    BY ConcatParts
  <2>. QED BY <2>1 DEF Elems
<1>. QED BY <1>1, <1>2, <1>3 DEF Elems

LEMMA ConcatAscending ==
  ASSUME NEW S, NEW q \in Seq(S), NEW r \in Seq(S),
         Ascending(q), Ascending(r), Precedes(q, r)
  PROVE  Ascending(q \o r)
<1>1. SUFFICES ASSUME NEW k \in DOMAIN (q \o r), NEW l \in DOMAIN (q \o r), k < l
               PROVE  (q \o r)[k][2] < (q \o r)[l][1]
  BY DEF Ascending
<1>2. PICK n \in Nat : n = Len(q)
  OBVIOUS
<1>3. DOMAIN q = 1..n /\ k \in Nat /\ l \in Nat /\ DOMAIN r \subseteq Nat
  BY <1>2, ConcatParts
<1>4. /\ k \in DOMAIN q \/ (k - n \in DOMAIN r /\ (q \o r)[k] = r[k - n])
      /\ l \in DOMAIN q \/ (l - n \in DOMAIN r /\ (q \o r)[l] = r[l - n])
      /\ k \in DOMAIN q => (q \o r)[k] = q[k]
      /\ l \in DOMAIN q => (q \o r)[l] = q[l]
  BY <1>2, ConcatParts
<1>5. k \notin DOMAIN q /\ k - n \in DOMAIN r => l \notin DOMAIN q /\ k - n < l - n
  BY <1>1, <1>3
<1>. QED BY <1>1, <1>4, <1>5 DEF Ascending, Precedes

LEMMA ConcatPrecedes ==
  ASSUME NEW S, NEW q \in Seq(S), NEW r \in Seq(S), NEW t, Precedes(q, t), Precedes(r, t)
  PROVE  Precedes(q \o r, t)
  BY ConcatParts DEF Precedes

\* Taking the first of a sequence.
LEMMA TakeFirst ==
  ASSUME NEW S, NEW q \in Seq(S), q # <<>>
  PROVE  /\ Head(q) \in S /\ Tail(q) \in Seq(S)
         /\ Elems(q) = {Head(q)} \cup Elems(Tail(q))
         /\ Ascending(q) => Ascending(Tail(q)) /\ Precedes(<<Head(q)>>, Tail(q))
         /\ \A t : Precedes(t, q) => Precedes(t, <<Head(q)>>) /\ Precedes(t, Tail(q))
<1>1. /\ DOMAIN q = 1..Len(q) /\ Len(q) \in Nat /\ 1 \in DOMAIN q
      /\ Head(q) = q[1] /\ Head(q) \in S
      /\ Tail(q) \in Seq(S) /\ DOMAIN Tail(q) = 1..Len(q) - 1
      /\ \A k \in 1..Len(q) - 1 : Tail(q)[k] = q[k + 1]
  OBVIOUS
<1>2. \A k \in DOMAIN Tail(q) : k + 1 \in DOMAIN q /\ 1 < k + 1 /\ Tail(q)[k] = q[k + 1]
  BY <1>1
<1>3. \A k \in DOMAIN q : k = 1 \/ (k - 1 \in DOMAIN Tail(q) /\ Tail(q)[k - 1] = q[k])
  <2>1. \A k \in 1..Len(q) : k = 1 \/ (k - 1 \in 1..Len(q) - 1 /\ (k - 1) + 1 = k)
    BY <1>1
  <2>. QED BY <1>1, <2>1
<1>4. Elems(q) = {Head(q)} \cup Elems(Tail(q))
  <2>1. ASSUME NEW k \in DOMAIN q PROVE q[k] \in {Head(q)} \cup Elems(Tail(q))
    <3>1. CASE k = 1
      BY <1>1, <3>1
    <3>2. CASE k - 1 \in DOMAIN Tail(q) /\ Tail(q)[k - 1] = q[k]
      BY <3>2 DEF Elems
    <3>. QED BY <1>3, <3>1, <3>2
  <2>2. ASSUME NEW k \in DOMAIN Tail(q) PROVE Tail(q)[k] \in Elems(q)
    BY <1>2 DEF Elems
  <2>3. Head(q) \in Elems(q)
    BY <1>1 DEF Elems
  <2>. QED BY <2>1, <2>2, <2>3 DEF Elems
<1>5. DOMAIN <<Head(q)>> = {1} /\ <<Head(q)>>[1] = q[1]
  BY <1>1
<1>6. ASSUME Ascending(q) PROVE Ascending(Tail(q)) /\ Precedes(<<Head(q)>>, Tail(q))
  <2>1. ASSUME NEW k \in DOMAIN Tail(q), NEW l \in DOMAIN Tail(q), k < l
        PROVE  Tail(q)[k][2] < Tail(q)[l][1]
    <3>1. k + 1 < l + 1
      BY <1>1, <2>1
    <3>. QED BY <1>2, <1>6, <3>1 DEF Ascending
  <2>. QED BY <1>1, <1>2, <1>5, <1>6, <2>1 DEF Ascending, Precedes
<1>7. ASSUME NEW t, Precedes(t, q) PROVE Precedes(t, <<Head(q)>>) /\ Precedes(t, Tail(q))
  BY <1>1, <1>2, <1>5, <1>7 DEF Precedes
<1>. QED BY <1>1, <1>4, <1>6, <1>7

\* A sequence of at most one slice.
LEMMA OneIsAscending ==
  ASSUME NEW q, q = <<>> \/ \E x : q = <<x>>
  PROVE  Ascending(q)
  BY DEF Ascending

LEMMA NothingPrecedes ==
  ASSUME NEW q
  PROVE  Precedes(<<>>, q) /\ Precedes(q, <<>>) /\ Elems(<<>>) = {}
  BY DEF Precedes, Elems
-----------------------------------------------------------------------------
(* The inductive invariant *)

Parts == Elems(chunks) \cup Elems(rest) \cup Elems(pieces)

\* How far the text has been split into parts.
Reach == IF stage = "sentences" THEN start ELSE Len(text)

CleanBreak(s, a) == a = 0 \/ a = Len(s) \/ s[a + 1] \in White

\* Between the end of the last sentence and that of the last match none ends.
Scanned(s, a, b) ==
    /\ a <= b
    /\ CleanBreak(s, a) /\ CleanBreak(s, b)
    /\ StopsInLine(s) => /\ a = 0 \/ a \in SentenceEnds(s)
                         /\ \A j \in a + 1..b : j \notin SentenceEnds(s)

InOrder ==
    /\ Ascending(chunks) /\ Ascending(pieces)
    /\ Precedes(chunks, rest) /\ Precedes(chunks, pieces) /\ Precedes(rest, pieces)

Short(cs) == \A k \in DOMAIN cs : Size(cs[k]) <= MaxChars

Splitting == WasSplit /\ stage # "plan"

StageOK ==
    /\ stage = "plan" => at = 0 /\ start = 0 /\ pieces = <<>> /\ rest = <<>> /\ chunks = <<>>
    /\ stage \in {"sentences", "pieces", "hard"} => WasSplit
    /\ stage = "sentences" => chunks = <<>> /\ Scanned(text, start, at)
    /\ stage # "hard" => rest = <<>>
    /\ stage = "done" => chunks # <<>> /\ (WasSplit => pieces = <<>>)
    /\ stage = "done" /\ ~WasSplit => chunks = <<Whole>>

SplitInv ==
    /\ PlanTypeOK
    /\ StageOK
    /\ Splitting => PartsOK(text, Parts, Reach) /\ InOrder /\ Short(chunks)

\* What strip() returns is a sequence of at most one slice.
LEMMA StrippedType ==
  ASSUME NEW s \in Seq(Characters), NEW a \in Nat \ {0}, NEW b \in 0..Len(s)
  PROVE  /\ Stripped(s, a, b) \in Seq(Slices(s))
         /\ Len(Stripped(s, a, b)) <= 1
         /\ Stripped(s, a, b) = <<>> \/ \E x \in Slices(s) : Stripped(s, a, b) = <<x>>
         /\ Ascending(Stripped(s, a, b))
<1>1. CASE Ink(s, a, b) = {}
  <2>1. Stripped(s, a, b) = <<>>
    BY <1>1, StrippedNothing
  <2>2. <<>> \in Seq(Slices(s)) /\ Len(<<>>) <= 1
    OBVIOUS
  <2>. QED BY <2>1, <2>2, OneIsAscending
<1>2. CASE Ink(s, a, b) # {}
  <2>1. PICK f \in a..b, l \in a..b : Stripped(s, a, b) = <<<<f, l>>>>
    BY <1>2, StrippedSlice
  <2>2. f \in 1..Len(s) + 1 /\ l \in 0..Len(s)
    BY <2>1
  <2>3. PICK x \in Slices(s) : x = <<f, l>>
    BY <2>2 DEF Slices
  <2>4. Stripped(s, a, b) = <<x>>
    BY <2>1, <2>3
  <2>5. <<x>> \in Seq(Slices(s)) /\ Len(<<x>>) = 1
    BY <2>3
  <2>. QED BY <2>4, <2>5, OneIsAscending
<1>. QED BY <1>1, <1>2

\* Up to the next boundary no sentence ends, and there one does if it is real.
LEMMA NextBoundary ==
  ASSUME NEW s \in Seq(Characters), NEW at0 \in 0..Len(s), CleanBreak(s, at0),
         NEW b \in Boundaries(s), at0 < b[1],
         \A c \in Boundaries(s) : at0 < c[1] => b[1] <= c[1]
  PROVE  /\ b[2] \in at0 + 1..Len(s)
         /\ CleanBreak(s, b[2])
         /\ StopsInLine(s) =>
              /\ \A j \in at0 + 1..b[2] - 1 : j \notin SentenceEnds(s)
              /\ IsRealBoundary(s, b[1]) <=> b[2] \in SentenceEnds(s)
<1>1. PICK f, l : b = <<f, l>>
  BY DEF Boundaries
<1>2. b[1] = f /\ b[2] = l
  BY <1>1
<1>3. /\ f \in 1..Len(s) /\ l \in 1..Len(s) /\ f <= l
      /\ \A k \in f..l : s[k] = "."
      /\ f = 1 \/ s[f - 1] # "."
      /\ l = Len(s) \/ s[l + 1] \in White
  BY <1>1, BoundaryMeans
<1>4. l \in at0 + 1..Len(s) /\ CleanBreak(s, l)
  BY <1>2, <1>3 DEF CleanBreak
<1>5. ASSUME NEW j \in at0 + 1..l - 1, j \in SentenceEnds(s) PROVE FALSE
  <2>1. PICK i \in 1..j : <<i, j>> \in Boundaries(s)
    BY <1>5, EndIsBoundary
  <2>2. /\ i <= j
        /\ \A k \in i..j : s[k] = "."
        /\ j = Len(s) \/ s[j + 1] \in White
    BY <2>1, BoundaryMeans
  <2>3. at0 < i
    <3>1. SUFFICES ASSUME i <= at0 PROVE FALSE
      OBVIOUS
    <3>2. at0 + 1 \in i..j /\ at0 # 0 /\ at0 # Len(s)
      BY <1>3, <1>5, <3>1
    <3>3. s[at0 + 1] \in White
      BY <3>2 DEF CleanBreak
    <3>. QED BY <2>2, <3>2, <3>3 DEF White
  <2>4. f <= i
    <3>1. PICK c : c = <<i, j>>
      OBVIOUS
    <3>2. c \in Boundaries(s) /\ c[1] = i
      BY <2>1, <3>1
    <3>. QED BY <1>2, <2>3, <3>2
  <2>5. j + 1 \in f..l /\ j # Len(s)
    BY <1>3, <1>5, <2>4
  <2>. QED BY <1>3, <2>2, <2>5 DEF White
<1>6. StopsInLine(s) => (IsRealBoundary(s, f) <=> l \in SentenceEnds(s))
  BY <1>1, RealBoundary
<1>. QED BY <1>2, <1>4, <1>5, <1>6

\* After the last boundary none ends.
LEMMA NoBoundary ==
  ASSUME NEW s \in Seq(Characters), NEW at0 \in 0..Len(s), CleanBreak(s, at0),
         \A b \in Boundaries(s) : b[1] <= at0,
         NEW j \in at0 + 1..Len(s)
  PROVE  j \notin SentenceEnds(s)
<1>1. SUFFICES ASSUME j \in SentenceEnds(s) PROVE FALSE
  OBVIOUS
<1>2. PICK i \in 1..j : <<i, j>> \in Boundaries(s)
  BY <1>1, EndIsBoundary
<1>3. \A k \in i..j : s[k] = "."
  BY <1>2, BoundaryMeans
<1>4. i <= at0
  <2>1. PICK c : c = <<i, j>>
    OBVIOUS
  <2>2. c \in Boundaries(s) /\ c[1] = i
    BY <1>2, <2>1
  <2>. QED BY <2>2
<1>5. at0 + 1 \in i..j /\ at0 # 0 /\ at0 # Len(s)
  BY <1>4
<1>6. s[at0 + 1] \in White
  BY <1>5 DEF CleanBreak
<1>. QED BY <1>3, <1>5, <1>6 DEF White

\* The invariant in the words of constants: what the next state needs.
LEMMA SplitInvNext ==
  ASSUME SplitInv, text' = text, enabled' = enabled, stage' # "plan",
         at' \in 0..Len(text), start' \in 0..Len(text),
         stage' \in {"sentences", "pieces", "hard", "done"},
         pieces' \in Seq(Slices(text)), rest' \in Seq(Slices(text)), Len(rest') <= 1,
         chunks' \in Seq(Slices(text)),
         WasSplit,
         stage' = "sentences" => chunks' = <<>> /\ Scanned(text, start', at'),
         stage' # "hard" => rest' = <<>>,
         stage' = "done" => chunks' # <<>> /\ pieces' = <<>>,
         PartsOK(text, Elems(chunks') \cup Elems(rest') \cup Elems(pieces'),
                 IF stage' = "sentences" THEN start' ELSE Len(text)),
         Ascending(chunks'), Ascending(pieces'),
         Precedes(chunks', rest'), Precedes(chunks', pieces'), Precedes(rest', pieces'),
         Short(chunks')
  PROVE  SplitInv'
<1>1. WasSplit'
  BY DEF WasSplit
<1>2. PlanTypeOK'
  BY DEF SplitInv, PlanTypeOK
<1>3. StageOK'
  BY <1>1 DEF StageOK
<1>4. PartsOK(text, Parts, Reach)'
  BY DEF Parts, Reach
<1>5. InOrder'
  BY DEF InOrder
<1>. QED BY <1>2, <1>3, <1>4, <1>5 DEF SplitInv

\* A string that is split is a sequence of characters.
LEMMA TextType ==
  ASSUME SplitInv
  PROVE  /\ text \in Seq(Characters) /\ Len(text) \in Nat
         /\ stage \in {"plan", "sentences", "pieces", "hard", "done"}
         /\ at \in 0..Len(text) /\ start \in 0..Len(text)
         /\ pieces \in Seq(Slices(text)) /\ rest \in Seq(Slices(text)) /\ Len(rest) <= 1
         /\ chunks \in Seq(Slices(text))
  BY DEF SplitInv, PlanTypeOK

LEMMA NextMatchPreserves == ASSUME SplitInv, NextMatch PROVE SplitInv'
<1>1. /\ text \in Seq(Characters) /\ Len(text) \in Nat
      /\ at \in 0..Len(text) /\ start \in 0..Len(text) /\ pieces \in Seq(Slices(text))
  BY TextType
<1>2. /\ stage = "sentences" /\ WasSplit /\ chunks = <<>> /\ rest = <<>>
      /\ Scanned(text, start, at)
      /\ PartsOK(text, Parts, start) /\ InOrder /\ Short(chunks)
  BY DEF NextMatch, AfterMatch, SplitInv, StageOK, Splitting, Reach
<1>3. /\ text' = text /\ enabled' = enabled /\ stage' = stage /\ rest' = rest
      /\ chunks' = chunks
  BY DEF NextMatch, AfterMatch
<1>4. PICK b \in Boundaries(text) :
        /\ at < b[1]
        /\ \A c \in Boundaries(text) : at < c[1] => b[1] <= c[1]
        /\ at' = b[2]
        /\ \/ /\ IsRealBoundary(text, b[1])
              /\ pieces' = pieces \o Stripped(text, start + 1, b[2])
              /\ start' = b[2]
           \/ /\ ~IsRealBoundary(text, b[1])
              /\ UNCHANGED <<pieces, start>>
  BY DEF NextMatch, AfterMatch
<1>5. PICK s, a, g, e : s = text /\ a = at /\ g = start /\ e = b[2]
  OBVIOUS
<1>6. /\ s \in Seq(Characters) /\ a \in 0..Len(s) /\ g \in 0..Len(s) /\ g <= a
      /\ CleanBreak(s, g) /\ CleanBreak(s, a)
      /\ StopsInLine(s) => /\ g = 0 \/ g \in SentenceEnds(s)
                           /\ \A j \in g + 1..a : j \notin SentenceEnds(s)
  BY <1>1, <1>2, <1>5 DEF Scanned
<1>7. /\ e \in a + 1..Len(s)
      /\ CleanBreak(s, e)
      /\ StopsInLine(s) =>
           /\ \A j \in a + 1..e - 1 : j \notin SentenceEnds(s)
           /\ IsRealBoundary(s, b[1]) <=> e \in SentenceEnds(s)
  BY <1>4, <1>5, <1>6, NextBoundary
<1>8. e \in g..Len(s) /\ e \in 0..Len(s) /\ g + 1 \in Nat \ {0} /\ e > g
  BY <1>6, <1>7
<1>9. StopsInLine(s) => \A j \in g + 1..e - 1 : j \notin SentenceEnds(s)
  <2>1. \A j \in g + 1..e - 1 : j \in g + 1..a \/ j \in a + 1..e - 1
    BY <1>6, <1>7
  <2>. QED BY <1>6, <1>7, <2>1
<1>10. Elems(chunks) = {} /\ Elems(rest) = {}
  BY <1>2, NothingPrecedes
<1>11. CASE IsRealBoundary(text, b[1])
  <2>1. pieces' = pieces \o Stripped(s, g + 1, e) /\ start' = e /\ at' = e
    BY <1>4, <1>5, <1>11
  <2>2. PICK P, new : P = Elems(pieces) /\ new = Stripped(s, g + 1, e)
    OBVIOUS
  <2>3. PartsOK(s, P, g)
    BY <1>2, <1>5, <1>10, <2>2 DEF Parts
  <2>4. PartsOK(s, P \cup Elems(new), e)
    <3>1. g = 0 \/ g = Len(s) \/ s[g + 1] \in White
      BY <1>6 DEF CleanBreak
    <3>2. StopsInLine(s) => /\ g = 0 \/ g \in SentenceEnds(s)
                            /\ e = Len(s) \/ e \in SentenceEnds(s)
                            /\ \A j \in g + 1..e - 1 : j \notin SentenceEnds(s)
      BY <1>5, <1>6, <1>7, <1>9, <1>11
    <3>. QED BY <1>6, <1>8, <2>2, <2>3, <3>1, <3>2, PartsGrow
  <2>5. new \in Seq(Slices(s)) /\ Ascending(new)
    BY <1>6, <1>8, <2>2, StrippedType
  <2>6. Precedes(pieces, new)
    <3>1. ASSUME NEW k \in DOMAIN pieces, NEW l \in DOMAIN new PROVE pieces[k][2] < new[l][1]
      <4>1. pieces[k] \in P /\ new[l] \in Elems(new)
        BY <2>2 DEF Elems
      <4>2. pieces[k][2] <= g /\ pieces[k] \in (1..Len(s)) \X (1..Len(s))
        BY <2>3, <4>1 DEF PartsOK, Solid
      <4>3. new[l] \in (g + 1..e) \X (g + 1..e)
        BY <1>6, <1>8, <2>2, <4>1, StrippedElems
      <4>4. pieces[k][2] \in 1..Len(s) /\ new[l][1] \in g + 1..e
        BY <4>2, <4>3
      <4>. QED BY <1>6, <4>2, <4>4
    <3>. QED BY <3>1 DEF Precedes
  <2>7. /\ pieces' = pieces \o new /\ pieces' \in Seq(Slices(text))
        /\ Elems(pieces') = P \cup Elems(new)
        /\ Ascending(pieces')
    <3>1. pieces \in Seq(Slices(s)) /\ Ascending(pieces)
      BY <1>1, <1>2, <1>5 DEF InOrder
    <3>2. /\ pieces \o new \in Seq(Slices(s))
          /\ Elems(pieces \o new) = P \cup Elems(new)
          /\ Ascending(pieces \o new)
      BY <2>2, <2>5, <2>6, <3>1, ConcatParts, ConcatElems, ConcatAscending
    <3>. QED BY <1>5, <2>1, <2>2, <3>2
  <2>8. Scanned(text, start', at')
    <3>1. Scanned(s, e, e)
      BY <1>5, <1>6, <1>7, <1>8, <1>11 DEF Scanned
    <3>. QED BY <1>5, <2>1, <3>1
  <2>9. PartsOK(text, Elems(chunks') \cup Elems(rest') \cup Elems(pieces'), start')
    <3>1. Elems(chunks') \cup Elems(rest') \cup Elems(pieces') = P \cup Elems(new)
      BY <1>3, <1>10, <2>7
    <3>. QED BY <1>5, <2>1, <2>4, <3>1
  <2>. QED
    BY <1>1, <1>2, <1>3, <1>5, <1>8, <2>1, <2>7, <2>8, <2>9, NothingPrecedes, SplitInvNext,
       TextType
       DEF InOrder
<1>12. CASE ~IsRealBoundary(text, b[1])
  <2>1. UNCHANGED <<pieces, start>> /\ at' = e
    BY <1>4, <1>5, <1>12
  <2>2. Scanned(s, g, e)
    <3>1. StopsInLine(s) => \A j \in g + 1..e : j \notin SentenceEnds(s)
      <4>1. \A j \in g + 1..e : j = e \/ j \in g + 1..e - 1
        BY <1>8
      <4>. QED BY <1>5, <1>7, <1>9, <1>12, <4>1
    <3>. QED BY <1>6, <1>7, <1>8, <3>1 DEF Scanned
  <2>3. Scanned(text, start', at')
    BY <1>5, <2>1, <2>2
  <2>4. PartsOK(text, Elems(chunks') \cup Elems(rest') \cup Elems(pieces'), start')
    BY <1>2, <1>3, <2>1 DEF Parts
  <2>. QED
    BY <1>1, <1>2, <1>3, <1>5, <1>8, <2>1, <2>3, <2>4, NothingPrecedes, SplitInvNext, TextType
       DEF InOrder
<1>. QED BY <1>11, <1>12

LEMMA TakeTailPreserves == ASSUME SplitInv, TakeTail PROVE SplitInv'
<1>1. /\ text \in Seq(Characters) /\ Len(text) \in Nat
      /\ at \in 0..Len(text) /\ start \in 0..Len(text) /\ pieces \in Seq(Slices(text))
  BY TextType
<1>2. /\ stage = "sentences" /\ WasSplit /\ chunks = <<>> /\ rest = <<>>
      /\ Scanned(text, start, at)
      /\ PartsOK(text, Parts, start) /\ InOrder /\ Short(chunks)
      /\ \A b \in Boundaries(text) : b[1] <= at
  BY DEF TakeTail, NoMatch, SplitInv, StageOK, Splitting, Reach
<1>3. /\ text' = text /\ enabled' = enabled /\ stage' = "pieces" /\ rest' = rest
      /\ chunks' = chunks /\ at' = at /\ start' = start
      /\ pieces' = pieces \o Stripped(text, start + 1, Len(text))
  BY DEF TakeTail, NoMatch
<1>4. PICK s, a, g, e : s = text /\ a = at /\ g = start /\ e = Len(text)
  OBVIOUS
<1>5. /\ s \in Seq(Characters) /\ e = Len(s) /\ e \in Nat
      /\ a \in 0..e /\ g \in 0..e /\ g <= a
      /\ CleanBreak(s, g) /\ CleanBreak(s, a)
      /\ StopsInLine(s) => /\ g = 0 \/ g \in SentenceEnds(s)
                           /\ \A j \in g + 1..a : j \notin SentenceEnds(s)
  BY <1>1, <1>2, <1>4 DEF Scanned
<1>6. e \in g..Len(s) /\ e \in 0..Len(s) /\ g + 1 \in Nat \ {0}
  BY <1>5
<1>7. \A j \in a + 1..e : j \notin SentenceEnds(s)
  BY <1>2, <1>4, <1>5, NoBoundary
<1>8. StopsInLine(s) => \A j \in g + 1..e - 1 : j \notin SentenceEnds(s)
  <2>1. \A j \in g + 1..e - 1 : j \in g + 1..a \/ j \in a + 1..e
    BY <1>5
  <2>. QED BY <1>5, <1>7, <2>1
<1>9. PICK P, new : P = Elems(pieces) /\ new = Stripped(s, g + 1, e)
  OBVIOUS
<1>10. Elems(chunks) = {} /\ Elems(rest) = {}
  BY <1>2, NothingPrecedes
<1>11. PartsOK(s, P, g)
  BY <1>2, <1>4, <1>9, <1>10 DEF Parts
<1>12. PartsOK(s, P \cup Elems(new), e)
  <2>1. g = 0 \/ g = Len(s) \/ s[g + 1] \in White
    BY <1>5 DEF CleanBreak
  <2>. QED BY <1>5, <1>6, <1>8, <1>9, <1>11, <2>1, PartsGrow
<1>13. new \in Seq(Slices(s)) /\ Ascending(new)
  BY <1>5, <1>6, <1>9, StrippedType
<1>14. Precedes(pieces, new)
  <2>1. ASSUME NEW k \in DOMAIN pieces, NEW l \in DOMAIN new PROVE pieces[k][2] < new[l][1]
    <3>1. pieces[k] \in P /\ new[l] \in Elems(new)
      BY <1>9 DEF Elems
    <3>2. pieces[k][2] <= g /\ pieces[k] \in (1..Len(s)) \X (1..Len(s))
      BY <1>11, <3>1 DEF PartsOK, Solid
    <3>3. new[l] \in (g + 1..e) \X (g + 1..e)
      BY <1>5, <1>6, <1>9, <3>1, StrippedElems
    <3>4. pieces[k][2] \in 1..Len(s) /\ new[l][1] \in g + 1..e
      BY <3>2, <3>3
    <3>. QED BY <1>5, <3>2, <3>4
  <2>. QED BY <2>1 DEF Precedes
<1>15. /\ pieces' = pieces \o new /\ pieces' \in Seq(Slices(text))
       /\ Elems(pieces') = P \cup Elems(new)
       /\ Ascending(pieces')
  <2>1. pieces \in Seq(Slices(s)) /\ Ascending(pieces)
    BY <1>1, <1>2, <1>4 DEF InOrder
  <2>2. /\ pieces \o new \in Seq(Slices(s))
        /\ Elems(pieces \o new) = P \cup Elems(new)
        /\ Ascending(pieces \o new)
    BY <1>9, <1>13, <1>14, <2>1, ConcatParts, ConcatElems, ConcatAscending
  <2>. QED BY <1>3, <1>4, <1>9, <2>2
<1>16. PartsOK(text, Elems(chunks') \cup Elems(rest') \cup Elems(pieces'), Len(text))
  <2>1. Elems(chunks') \cup Elems(rest') \cup Elems(pieces') = P \cup Elems(new)
    BY <1>3, <1>10, <1>15
  <2>. QED BY <1>4, <1>12, <2>1
<1>. QED
  BY <1>1, <1>2, <1>3, <1>15, <1>16, NothingPrecedes, SplitInvNext, TextType DEF InOrder

\* In the second loop: where the parts are.
LEMMA SecondLoop ==
  ASSUME SplitInv, stage \in {"pieces", "hard"}
  PROVE  /\ text \in Seq(Characters) /\ Len(text) \in Nat /\ WasSplit
         /\ at \in 0..Len(text) /\ start \in 0..Len(text)
         /\ pieces \in Seq(Slices(text)) /\ rest \in Seq(Slices(text)) /\ Len(rest) <= 1
         /\ chunks \in Seq(Slices(text))
         /\ PartsOK(text, Parts, Len(text))
         /\ Ascending(chunks) /\ Ascending(pieces)
         /\ Precedes(chunks, rest) /\ Precedes(chunks, pieces) /\ Precedes(rest, pieces)
         /\ Short(chunks)
         /\ stage # "hard" => rest = <<>>
  BY TextType DEF SplitInv, StageOK, Splitting, Reach, InOrder

LEMMA ShortPiecePreserves == ASSUME SplitInv, ShortPiece PROVE SplitInv'
<1>1. /\ stage = "pieces" /\ pieces # <<>> /\ Size(Head(pieces)) <= MaxChars
      /\ chunks' = Append(chunks, Head(pieces)) /\ pieces' = Tail(pieces)
      /\ text' = text /\ enabled' = enabled /\ stage' = stage /\ at' = at /\ start' = start
      /\ rest' = rest
  BY DEF ShortPiece
<1>2. rest = <<>> /\ Elems(rest) = {}
  BY <1>1, SecondLoop, NothingPrecedes
<1>3. PICK S, h : S = Slices(text) /\ h = Head(pieces)
  OBVIOUS
<1>4. /\ h \in S /\ Tail(pieces) \in Seq(S)
      /\ Elems(pieces) = {h} \cup Elems(Tail(pieces))
      /\ Ascending(Tail(pieces)) /\ Precedes(<<h>>, Tail(pieces))
      /\ Precedes(chunks, <<h>>) /\ Precedes(chunks, Tail(pieces))
  BY <1>1, <1>3, SecondLoop, TakeFirst
<1>5. /\ <<h>> \in Seq(S) /\ Elems(<<h>>) = {h} /\ Ascending(<<h>>)
  <2>1. DOMAIN <<h>> = {1} /\ <<h>>[1] = h
    OBVIOUS
  <2>2. Elems(<<h>>) = {h}
    BY <2>1 DEF Elems
  <2>. QED BY <1>4, <2>2, OneIsAscending
<1>6. chunks \in Seq(S)
  BY <1>1, <1>3, SecondLoop
<1>7. chunks' = chunks \o <<h>>
  BY <1>1, <1>3, <1>4, <1>6, AppendIsConcat
<1>8. /\ chunks' \in Seq(S)
      /\ Elems(chunks') = Elems(chunks) \cup {h}
      /\ Ascending(chunks')
      /\ Precedes(chunks', Tail(pieces))
  <2>1. chunks \o <<h>> \in Seq(S)
    BY <1>5, <1>6, ConcatParts
  <2>2. Elems(chunks \o <<h>>) = Elems(chunks) \cup {h}
    <3>1. Elems(chunks \o <<h>>) = Elems(chunks) \cup Elems(<<h>>)
      BY <1>5, <1>6, ConcatElems
    <3>. QED BY <1>5, <3>1
  <2>3. Ascending(chunks \o <<h>>)
    BY <1>1, <1>4, <1>5, <1>6, SecondLoop, ConcatAscending
  <2>4. Precedes(chunks \o <<h>>, Tail(pieces))
    BY <1>4, <1>5, <1>6, ConcatPrecedes
  <2>. QED BY <1>7, <2>1, <2>2, <2>3, <2>4
<1>9. Short(chunks')
  <2>1. ASSUME NEW k \in DOMAIN chunks' PROVE Size(chunks'[k]) <= MaxChars
    <3>1. chunks'[k] \in Elems(chunks) \cup {h}
      BY <1>8 DEF Elems
    <3>2. \A x \in Elems(chunks) : Size(x) <= MaxChars
      BY <1>1, SecondLoop DEF Short, Elems
    <3>. QED BY <1>1, <1>3, <3>1, <3>2
  <2>. QED BY <2>1 DEF Short
<1>10. PartsOK(text, Elems(chunks') \cup Elems(rest') \cup Elems(pieces'), Len(text))
  <2>1. Elems(chunks') \cup Elems(rest') \cup Elems(pieces') = Parts
    BY <1>1, <1>2, <1>4, <1>8 DEF Parts
  <2>. QED BY <1>1, <2>1, SecondLoop
<1>. QED
  BY <1>1, <1>2, <1>3, <1>4, <1>8, <1>9, <1>10, NothingPrecedes, SecondLoop, SplitInvNext

LEMMA LongPiecePreserves == ASSUME SplitInv, LongPiece PROVE SplitInv'
<1>1. /\ stage = "pieces" /\ pieces # <<>>
      /\ rest' = <<Head(pieces)>> /\ pieces' = Tail(pieces)
      /\ text' = text /\ enabled' = enabled /\ stage' = "hard" /\ at' = at /\ start' = start
      /\ chunks' = chunks
  BY DEF LongPiece
<1>2. rest = <<>> /\ Elems(rest) = {}
  BY <1>1, SecondLoop, NothingPrecedes
<1>3. PICK S, h : S = Slices(text) /\ h = Head(pieces)
  OBVIOUS
<1>4. /\ h \in S /\ Tail(pieces) \in Seq(S)
      /\ Elems(pieces) = {h} \cup Elems(Tail(pieces))
      /\ Ascending(Tail(pieces)) /\ Precedes(<<h>>, Tail(pieces))
      /\ Precedes(chunks, <<h>>) /\ Precedes(chunks, Tail(pieces))
  BY <1>1, <1>3, SecondLoop, TakeFirst
<1>5. /\ <<h>> \in Seq(S) /\ Len(<<h>>) <= 1 /\ Elems(<<h>>) = {h}
  <2>1. DOMAIN <<h>> = {1} /\ <<h>>[1] = h
    OBVIOUS
  <2>2. Elems(<<h>>) = {h}
    BY <2>1 DEF Elems
  <2>. QED BY <1>4, <2>2
<1>6. rest' = <<h>>
  BY <1>1, <1>3
<1>7. PartsOK(text, Elems(chunks') \cup Elems(rest') \cup Elems(pieces'), Len(text))
  <2>1. Elems(chunks') \cup Elems(rest') \cup Elems(pieces') = Parts
    BY <1>1, <1>2, <1>4, <1>5, <1>6 DEF Parts
  <2>. QED BY <1>1, <2>1, SecondLoop
<1>. QED
  BY <1>1, <1>3, <1>4, <1>5, <1>6, <1>7, SecondLoop, SplitInvNext

LEMMA HardCutPreserves == ASSUME SplitInv, HardCut PROVE SplitInv'
<1>1. /\ stage = "hard" /\ rest # <<>> /\ Size(rest[1]) > MaxChars
      /\ text' = text /\ enabled' = enabled /\ stage' = stage /\ at' = at /\ start' = start
      /\ pieces' = pieces
      /\ chunks' = chunks \o Stripped(text, rest[1][1], Cut(text, rest[1][1]) - 1)
      /\ rest' = Stripped(text, Cut(text, rest[1][1]), rest[1][2])
  BY DEF HardCut, TooLong
<1>2. PICK s, S, p : s = text /\ S = Slices(s) /\ p = rest[1]
  OBVIOUS
<1>3. /\ s \in Seq(Characters) /\ Len(s) \in Nat
      /\ pieces \in Seq(S) /\ rest \in Seq(S) /\ Len(rest) <= 1 /\ chunks \in Seq(S)
      /\ PartsOK(s, Parts, Len(s))
      /\ Ascending(chunks) /\ Ascending(pieces)
      /\ Precedes(chunks, rest) /\ Precedes(chunks, pieces) /\ Precedes(rest, pieces)
      /\ Short(chunks)
  BY <1>1, <1>2, SecondLoop
<1>4. DOMAIN rest = {1} /\ Elems(rest) = {p}
  <2>1. DOMAIN rest = 1..Len(rest) /\ Len(rest) \in Nat /\ Len(rest) # 0
    BY <1>1, <1>3, EmptySeq
  <2>2. Len(rest) = 1
    BY <1>3, <2>1
  <2>3. DOMAIN rest = {1}
    BY <2>1, <2>2
  <2>. QED BY <1>2, <2>3 DEF Elems
<1>5. p \in Parts
  BY <1>4 DEF Parts
<1>6. /\ p \in (1..Len(s)) \X (1..Len(s)) /\ p[1] <= p[2]
  BY <1>3, <1>5 DEF PartsOK, Solid
<1>7. PICK f, l : f = p[1] /\ l = p[2]
  OBVIOUS
<1>8. f \in 1..Len(s) /\ l \in 1..Len(s) /\ f <= l /\ l - f + 1 > MaxChars
  BY <1>1, <1>2, <1>6, <1>7 DEF Size
<1>9. PICK cut \in Nat : Cut(s, f) = cut /\ f < cut /\ cut <= f + MaxChars
  BY <1>3, <1>8, CutPlace
<1>10. MaxChars \in Nat /\ MaxChars >= 1
  BY MaxCharsAssumption
<1>11. /\ f \in Nat \ {0} /\ cut \in Nat \ {0} /\ cut - 1 \in 0..Len(s) /\ l \in 0..Len(s)
       /\ cut <= l /\ l \in Nat
  <2>1. f \in Nat /\ l \in Nat /\ 1 <= f /\ l <= Len(s) /\ Len(s) \in Nat
    BY <1>3, <1>8
  <2>. QED BY <1>8, <1>9, <1>10, <2>1
<1>12. PICK head, tail : head = Stripped(s, f, cut - 1) /\ tail = Stripped(s, cut, l)
  OBVIOUS
<1>13. /\ head \in Seq(S) /\ Ascending(head)
       /\ tail \in Seq(S) /\ Len(tail) <= 1
  BY <1>2, <1>3, <1>11, <1>12, StrippedType
<1>14. chunks' = chunks \o head /\ rest' = tail
  BY <1>1, <1>2, <1>7, <1>9, <1>12
<1>15. \A k \in DOMAIN head : /\ head[k] \in (f..cut - 1) \X (f..cut - 1)
                              /\ head[k][1] <= head[k][2]
  <2>1. ASSUME NEW k \in DOMAIN head PROVE head[k] \in Elems(Stripped(s, f, cut - 1))
    BY <1>12 DEF Elems
  <2>. QED BY <1>3, <1>11, <2>1, StrippedElems
<1>16. \A k \in DOMAIN tail : tail[k] \in (cut..l) \X (cut..l)
  <2>1. ASSUME NEW k \in DOMAIN tail PROVE tail[k] \in Elems(Stripped(s, cut, l))
    BY <1>12 DEF Elems
  <2>. QED BY <1>3, <1>11, <2>1, StrippedElems
<1>17. \A k \in DOMAIN chunks : chunks[k][2] < f /\ chunks[k][2] \in Int
  <2>1. ASSUME NEW k \in DOMAIN chunks PROVE chunks[k][2] < f /\ chunks[k][2] \in Int
    <3>1. chunks[k][2] < rest[1][1]
      BY <1>3, <1>4 DEF Precedes
    <3>2. chunks[k] \in Parts
      BY DEF Parts, Elems
    <3>3. chunks[k] \in (1..Len(s)) \X (1..Len(s))
      BY <1>3, <3>2 DEF PartsOK, Solid
    <3>. QED BY <1>2, <1>7, <3>1, <3>3
  <2>. QED BY <2>1
<1>18. \A k \in DOMAIN pieces : l < pieces[k][1] /\ pieces[k][1] \in Int
  <2>1. ASSUME NEW k \in DOMAIN pieces PROVE l < pieces[k][1] /\ pieces[k][1] \in Int
    <3>1. rest[1][2] < pieces[k][1]
      BY <1>3, <1>4 DEF Precedes
    <3>2. pieces[k] \in Parts
      BY DEF Parts, Elems
    <3>3. pieces[k] \in (1..Len(s)) \X (1..Len(s))
      BY <1>3, <3>2 DEF PartsOK, Solid
    <3>. QED BY <1>2, <1>7, <3>1, <3>3
  <2>. QED BY <2>1
<1>19. Precedes(chunks, head)
  <2>1. ASSUME NEW k \in DOMAIN chunks, NEW n \in DOMAIN head PROVE chunks[k][2] < head[n][1]
    <3>1. head[n][1] \in f..cut - 1
      BY <1>15
    <3>. QED BY <1>11, <1>17, <3>1
  <2>. QED BY <2>1 DEF Precedes
<1>20. Precedes(chunks, tail)
  <2>1. ASSUME NEW k \in DOMAIN chunks, NEW n \in DOMAIN tail PROVE chunks[k][2] < tail[n][1]
    <3>1. tail[n][1] \in cut..l
      BY <1>16
    <3>. QED BY <1>9, <1>11, <1>17, <3>1
  <2>. QED BY <2>1 DEF Precedes
<1>21. Precedes(head, tail)
  <2>1. ASSUME NEW k \in DOMAIN head, NEW n \in DOMAIN tail PROVE head[k][2] < tail[n][1]
    <3>1. head[k][2] \in f..cut - 1 /\ tail[n][1] \in cut..l
      BY <1>15, <1>16
    <3>. QED BY <1>11, <3>1
  <2>. QED BY <2>1 DEF Precedes
<1>22. Precedes(head, pieces)
  <2>1. ASSUME NEW k \in DOMAIN head, NEW n \in DOMAIN pieces PROVE head[k][2] < pieces[n][1]
    <3>1. head[k][2] \in f..cut - 1
      BY <1>15
    <3>. QED BY <1>11, <1>18, <3>1
  <2>. QED BY <2>1 DEF Precedes
<1>23. Precedes(tail, pieces)
  <2>1. ASSUME NEW k \in DOMAIN tail, NEW n \in DOMAIN pieces PROVE tail[k][2] < pieces[n][1]
    <3>1. tail[k][2] \in cut..l
      BY <1>16
    <3>. QED BY <1>11, <1>18, <3>1
  <2>. QED BY <2>1 DEF Precedes
<1>24. /\ chunks \o head \in Seq(S) /\ Ascending(chunks \o head)
       /\ Elems(chunks \o head) = Elems(chunks) \cup Elems(head)
       /\ Precedes(chunks \o head, tail) /\ Precedes(chunks \o head, pieces)
  <2>1. chunks \o head \in Seq(S)
    BY <1>3, <1>13, ConcatParts
  <2>2. Ascending(chunks \o head)
    BY <1>3, <1>13, <1>19, ConcatAscending
  <2>3. Elems(chunks \o head) = Elems(chunks) \cup Elems(head)
    BY <1>3, <1>13, ConcatElems
  <2>4. Precedes(chunks \o head, tail)
    BY <1>3, <1>13, <1>20, <1>21, ConcatPrecedes
  <2>5. Precedes(chunks \o head, pieces)
    BY <1>3, <1>13, <1>22, ConcatPrecedes
  <2>. QED BY <2>1, <2>2, <2>3, <2>4, <2>5
<1>25. Short(chunks \o head)
  <2>1. ASSUME NEW k \in DOMAIN head PROVE Size(head[k]) <= MaxChars
    <3>1. head[k][1] \in f..cut - 1 /\ head[k][2] \in f..cut - 1
      BY <1>15
    <3>. QED BY <1>9, <1>10, <1>11, <3>1 DEF Size
  <2>2. ASSUME NEW x \in Elems(chunks) \cup Elems(head) PROVE Size(x) <= MaxChars
    BY <1>3, <2>1 DEF Elems, Short
  <2>3. \A k \in DOMAIN (chunks \o head) : (chunks \o head)[k] \in Elems(chunks) \cup Elems(head)
    BY <1>24 DEF Elems
  <2>. QED BY <2>2, <2>3 DEF Short
<1>26. PartsOK(s, Elems(chunks) \cup Elems(pieces) \cup Elems(head) \cup Elems(tail), Len(s))
  <2>1. PICK P, Q : P = Parts /\ Q = Elems(chunks) \cup Elems(pieces)
    OBVIOUS
  <2>2. PartsOK(s, P, Len(s)) /\ p \in P /\ P \ {p} \subseteq Q /\ Q \subseteq P /\ Size(p) > MaxChars
    BY <1>1, <1>2, <1>3, <1>4, <1>5, <2>1 DEF Parts
  <2>3. PartsOK(s, Q \cup Elems(Stripped(s, p[1], Cut(s, p[1]) - 1))
                    \cup Elems(Stripped(s, Cut(s, p[1]), p[2])), Len(s))
    BY <1>3, <2>2, PartsCut
  <2>. QED BY <1>7, <1>9, <1>12, <2>1, <2>3
<1>27. PartsOK(text, Elems(chunks') \cup Elems(rest') \cup Elems(pieces'), Len(text))
  <2>1. Elems(chunks') \cup Elems(rest') \cup Elems(pieces')
          = Elems(chunks) \cup Elems(pieces) \cup Elems(head) \cup Elems(tail)
    BY <1>1, <1>14, <1>24
  <2>. QED BY <1>2, <1>26, <2>1
<1>. QED
  BY <1>1, <1>2, <1>3, <1>13, <1>14, <1>20, <1>23, <1>24, <1>25, <1>27, SecondLoop, SplitInvNext

LEMMA HardEndPreserves == ASSUME SplitInv, HardEnd PROVE SplitInv'
<1>1. /\ stage = "hard" /\ ~TooLong
      /\ text' = text /\ enabled' = enabled /\ stage' = "pieces" /\ at' = at /\ start' = start
      /\ pieces' = pieces /\ chunks' = chunks \o rest /\ rest' = <<>>
  BY DEF HardEnd
<1>2. PICK S : S = Slices(text)
  OBVIOUS
<1>3. /\ pieces \in Seq(S) /\ rest \in Seq(S) /\ Len(rest) <= 1 /\ chunks \in Seq(S)
      /\ PartsOK(text, Parts, Len(text))
      /\ Ascending(chunks) /\ Ascending(pieces)
      /\ Precedes(chunks, rest) /\ Precedes(chunks, pieces) /\ Precedes(rest, pieces)
      /\ Short(chunks)
  BY <1>1, <1>2, SecondLoop
<1>4. Len(rest) \in Nat /\ DOMAIN rest = 1..Len(rest)
  BY <1>3, LenProperties
<1>5. \A k \in DOMAIN rest : k = 1
  BY <1>3, <1>4
<1>6. Ascending(rest) /\ \A k \in DOMAIN rest : Size(rest[k]) <= MaxChars
  <2>1. ASSUME NEW k \in DOMAIN rest PROVE Size(rest[k]) <= MaxChars
    <3>1. k = 1 /\ rest # <<>>
      BY <1>5
    <3>2. rest[1] \in Parts
      BY <3>1 DEF Parts, Elems
    <3>3. rest[1] \in (1..Len(text)) \X (1..Len(text))
      BY <1>3, <3>2 DEF PartsOK, Solid
    <3>4. Size(rest[1]) \in Int
      <4>1. rest[1][1] \in Int /\ rest[1][2] \in Int
        BY <3>3
      <4>. QED BY <4>1 DEF Size
    <3>5. ~ (Size(rest[1]) > MaxChars)
      BY <1>1, <3>1 DEF TooLong
    <3>. QED BY <3>1, <3>4, <3>5, MaxCharsAssumption
  <2>2. Ascending(rest)
    BY <1>4, <1>5 DEF Ascending
  <2>. QED BY <2>1, <2>2
<1>7. chunks \o rest \in Seq(S)
  BY <1>3, ConcatParts
<1>8. Ascending(chunks \o rest)
  BY <1>3, <1>6, ConcatAscending
<1>9. Elems(chunks \o rest) = Elems(chunks) \cup Elems(rest)
  BY <1>3, ConcatElems
<1>10. Precedes(chunks \o rest, pieces)
  BY <1>3, ConcatPrecedes
<1>11. Short(chunks \o rest)
  <2>1. ASSUME NEW x \in Elems(chunks) \cup Elems(rest) PROVE Size(x) <= MaxChars
    BY <1>3, <1>6 DEF Elems, Short
  <2>2. \A k \in DOMAIN (chunks \o rest) : (chunks \o rest)[k] \in Elems(chunks) \cup Elems(rest)
    BY <1>9 DEF Elems
  <2>. QED BY <2>1, <2>2 DEF Short
<1>12. PartsOK(text, Elems(chunks') \cup Elems(rest') \cup Elems(pieces'), Len(text))
  <2>1. Elems(chunks') \cup Elems(rest') \cup Elems(pieces') = Parts
    BY <1>1, <1>9, NothingPrecedes DEF Parts
  <2>. QED BY <1>3, <2>1
<1>. QED
  BY <1>1, <1>2, <1>3, <1>7, <1>8, <1>10, <1>11, <1>12, NothingPrecedes, EmptySeq, SecondLoop,
     SplitInvNext

LEMMA SplitEndPreserves == ASSUME SplitInv, SplitEnd PROVE SplitInv'
<1>1. /\ stage = "pieces" /\ pieces = <<>>
      /\ text' = text /\ enabled' = enabled /\ stage' = "done" /\ at' = at /\ start' = start
      /\ pieces' = pieces /\ rest' = rest
      /\ chunks' = IF chunks = <<>> THEN <<Whole>> ELSE chunks
  BY DEF SplitEnd
<1>2. /\ rest = <<>> /\ Elems(rest) = {} /\ Elems(pieces) = {}
  BY <1>1, SecondLoop, NothingPrecedes
<1>3. chunks # <<>>
  <2>1. WasSplit /\ PartsOK(text, Parts, Len(text))
    BY <1>1, SecondLoop
  <2>2. PICK i \in Ink(text, 1, Len(text)) : TRUE
    BY <2>1 DEF WasSplit
  <2>3. PICK p \in Parts : In(i, p)
    BY <2>1 DEF PartsOK, Covers
  <2>4. p \in Elems(chunks)
    BY <1>2, <2>3 DEF Parts
  <2>. QED BY <2>4, NothingPrecedes
<1>4. chunks' = chunks
  BY <1>1, <1>3
<1>5. PartsOK(text, Elems(chunks') \cup Elems(rest') \cup Elems(pieces'), Len(text))
  BY <1>1, <1>4, SecondLoop DEF Parts
<1>. QED
  BY <1>1, <1>2, <1>3, <1>4, <1>5, NothingPrecedes, SecondLoop, SplitInvNext

LEMMA BeginPreserves == ASSUME SplitInv, Begin PROVE SplitInv'
<1>1. /\ stage = "plan" /\ WasSplit
      /\ text' = text /\ enabled' = enabled /\ stage' = "sentences" /\ at' = at /\ start' = start
      /\ pieces' = pieces /\ rest' = rest /\ chunks' = chunks
  BY DEF Begin, WasSplit
<1>2. at = 0 /\ start = 0 /\ pieces = <<>> /\ rest = <<>> /\ chunks = <<>>
  BY <1>1 DEF SplitInv, StageOK
<1>3. PartsOK(text, Elems(chunks') \cup Elems(rest') \cup Elems(pieces'), start')
  <2>1. Elems(chunks') \cup Elems(rest') \cup Elems(pieces') = {}
    BY <1>1, <1>2, NothingPrecedes
  <2>. QED BY <1>1, <1>2, <2>1, TextType, NoParts
<1>4. Scanned(text, start', at')
  <2>1. Scanned(text, 0, 0)
    BY TextType DEF Scanned, CleanBreak
  <2>. QED BY <1>1, <1>2, <2>1
<1>5. Ascending(<<>>) /\ Short(<<>>)
  BY DEF Ascending, Short
<1>. QED
  BY <1>1, <1>2, <1>3, <1>4, <1>5, NothingPrecedes, TextType, SplitInvNext

LEMMA KeepWholePreserves == ASSUME SplitInv, KeepWhole PROVE SplitInv'
<1>1. /\ stage = "plan" /\ ~WasSplit
      /\ text' = text /\ enabled' = enabled /\ stage' = "done" /\ at' = at /\ start' = start
      /\ pieces' = pieces /\ rest' = rest /\ chunks' = <<Whole>>
  <2>1. enabled \in BOOLEAN /\ Len(text) \in Nat /\ MinChars \in Nat
    BY TextType, MinCharsAssumption DEF SplitInv, PlanTypeOK
  <2>. QED BY <2>1 DEF KeepWhole, WasSplit
<1>2. ~WasSplit'
  BY <1>1 DEF WasSplit
<1>3. Whole' = Whole
  BY <1>1 DEF Whole
<1>4. PlanTypeOK'
  <2>1. 1 \in 1..Len(text) + 1 /\ Len(text) \in 0..Len(text)
    BY TextType
  <2>2. Whole \in Slices(text)
    BY <2>1 DEF Whole, Slices
  <2>3. <<Whole>> \in Seq(Slices(text))
    BY <2>2
  <2>. QED BY <1>1, <2>3 DEF SplitInv, PlanTypeOK
<1>5. StageOK'
  BY <1>1, <1>2, <1>3 DEF SplitInv, StageOK
<1>. QED BY <1>2, <1>4, <1>5 DEF SplitInv, Splitting

LEMMA SplitInvInit == PlanInit => SplitInv
<1>1. SUFFICES ASSUME PlanInit PROVE SplitInv
  OBVIOUS
<1>2. PICK n \in 0..MaxText : text \in [1..n -> Characters]
  BY <1>1 DEF PlanInit
<1>3. text \in Seq(Characters) /\ Len(text) = n /\ n \in Nat
  BY <1>2, MaxTextAssumption
<1>4. PlanTypeOK
  <2>1. n <= MaxText
    BY <1>2, MaxTextAssumption
  <2>2. <<>> \in Seq(Slices(text)) /\ Len(<<>>) = 0
    OBVIOUS
  <2>. QED BY <1>1, <1>3, <2>1, <2>2 DEF PlanInit, PlanTypeOK
<1>. QED BY <1>1, <1>4 DEF PlanInit, SplitInv, StageOK, Splitting

LEMMA SplitInvStep == SplitInv /\ [PlanNext]_planVars => SplitInv'
<1>1. SUFFICES ASSUME SplitInv, [PlanNext]_planVars PROVE SplitInv'
  OBVIOUS
<1>2. CASE KeepWhole
  BY <1>1, <1>2, KeepWholePreserves
<1>3. CASE Begin
  BY <1>1, <1>3, BeginPreserves
<1>4. CASE NextMatch
  BY <1>1, <1>4, NextMatchPreserves
<1>5. CASE TakeTail
  BY <1>1, <1>5, TakeTailPreserves
<1>6. CASE ShortPiece
  BY <1>1, <1>6, ShortPiecePreserves
<1>7. CASE LongPiece
  BY <1>1, <1>7, LongPiecePreserves
<1>8. CASE HardCut
  BY <1>1, <1>8, HardCutPreserves
<1>9. CASE HardEnd
  BY <1>1, <1>9, HardEndPreserves
<1>10. CASE SplitEnd
  BY <1>1, <1>10, SplitEndPreserves
<1>11. CASE UNCHANGED planVars
  BY <1>1, <1>11 DEF planVars, SplitInv, PlanTypeOK, StageOK, WasSplit, Whole, Splitting, Parts,
     Reach, InOrder
<1>. QED
  BY <1>1, <1>2, <1>3, <1>4, <1>5, <1>6, <1>7, <1>8, <1>9, <1>10, <1>11 DEF PlanNext

THEOREM SplitInvariance == PlanSpec => []SplitInv
<1>1. [Turn]_<<planVars, turns>> => [PlanNext]_planVars
  BY DEF Turn
<1>. QED BY <1>1, SplitInvInit, SplitInvStep, PTL DEF PlanSpec

\* The types of the variables, for texts of any length.
THEOREM PlanTypeCorrect == PlanSpec => []PlanTypeOK
<1>1. SplitInv => PlanTypeOK
  BY DEF SplitInv
<1>. QED BY <1>1, SplitInvariance, PTL

\* When a text was split, its chunks are its parts.
LEMMA SplitDone ==
  ASSUME SplitInv, Done, WasSplit
  PROVE  /\ PartsOK(text, Elems(chunks), Len(text))
         /\ Ascending(chunks) /\ Short(chunks) /\ chunks # <<>>
<1>1. Splitting /\ pieces = <<>> /\ rest = <<>> /\ chunks # <<>>
  BY DEF SplitInv, StageOK, Splitting, Done
<1>2. Parts = Elems(chunks)
  BY <1>1, NothingPrecedes DEF Parts
<1>. QED BY <1>1, <1>2 DEF SplitInv, InOrder, Reach, Done

\* Every text of any length is said by its chunks, whatever the limits are: nothing
\* is lost, repeated or moved, and no chunk is longer than it may be.
THEOREM AllTextIsSaid == PlanSpec => []TextIsSaid
<1>1. ASSUME SplitInv, Done PROVE SayAll(text, chunks) /\ chunks # <<>>
  <2>1. CASE WasSplit
    <3>1. PartsOK(text, Elems(chunks), Len(text)) /\ Ascending(chunks) /\ chunks # <<>>
      BY <1>1, <2>1, SplitDone
    <3>2. \A i \in Ink(text, 1, Len(text)) : \E p \in Elems(chunks) : In(i, p)
      BY <3>1 DEF PartsOK, Covers
    <3>3. \A i \in Ink(text, 1, Len(text)) : \E k \in DOMAIN chunks : In(i, chunks[k])
      BY <3>2 DEF Elems
    <3>. QED BY <3>1, <3>3 DEF SayAll, Ascending
  <2>2. CASE ~WasSplit
    <3>1. chunks = <<Whole>>
      BY <1>1, <2>2 DEF SplitInv, StageOK, Done
    <3>2. DOMAIN chunks = {1} /\ chunks[1] = Whole /\ chunks # <<>>
      BY <3>1
    <3>3. ASSUME NEW i \in Ink(text, 1, Len(text)) PROVE In(i, Whole)
      <4>1. i \in 1..Len(text) /\ Len(text) \in Nat
        BY <1>1, TextType DEF Ink
      <4>. QED BY <4>1 DEF In, Whole
    <3>. QED BY <3>2, <3>3 DEF SayAll
  <2>. QED BY <2>1, <2>2
<1>2. ASSUME SplitInv, Done, WasSplit PROVE KeepLimit(text, chunks)
  <2>1. PartsOK(text, Elems(chunks), Len(text)) /\ Short(chunks)
    BY <1>2, SplitDone
  <2>2. ASSUME NEW k \in DOMAIN chunks PROVE Within(text, chunks[k])
    <3>1. PICK c : c = chunks[k]
      OBVIOUS
    <3>2. /\ c \in (1..Len(text)) \X (1..Len(text)) /\ c[1] <= c[2]
          /\ text[c[1]] \notin White /\ text[c[2]] \notin White
      BY <2>1, <3>1 DEF PartsOK, Solid, Elems
    <3>3. Size(c) <= MaxChars
      BY <2>1, <3>1 DEF Short
    <3>4. c[1] \in Nat /\ c[2] \in Nat
      BY <3>2
    <3>5. Size(c) \in 1..MaxChars
      BY <3>2, <3>3, <3>4, MaxCharsAssumption DEF Size
    <3>. QED BY <3>1, <3>2, <3>5 DEF Within
  <2>. QED BY <2>2 DEF KeepLimit
<1>3. SplitInv => TextIsSaid
  BY <1>1, <1>2 DEF TextIsSaid
<1>. QED BY <1>3, SplitInvariance, PTL

\* Every text of any length is cut at the ends of its sentences, or where a
\* sentence is too long between words, or where a word is too long.
THEOREM AllCutsAreNatural == PlanSpec => []CutsAreNatural
<1>1. ASSUME SplitInv, Done, WasSplit
      PROVE  KeepWords(text, chunks) /\ (StopsInLine(text) => KeepSentences(text, chunks))
  <2>1. PICK s, cs : s = text /\ cs = chunks
    OBVIOUS
  <2>2. /\ WordsInParts(s, Elems(cs), Len(s))
        /\ StopsInLine(s) => Natural(s, Elems(cs), Len(s))
    BY <1>1, <2>1, SplitDone DEF PartsOK
  <2>3. Len(s) \in Nat
    BY <1>1, <2>1, TextType
  <2>4. KeepWords(s, cs)
    <3>1. ASSUME NEW w \in (1..Len(s)) \X (1..Len(s)), IsWord(s, w), Size(w) <= MaxChars,
                 w[1] = 1 \/ s[w[1] - 1] = " "
          PROVE  \E k \in DOMAIN cs : In(w[1], cs[k]) /\ In(w[2], cs[k])
      <4>1. PICK u \in 1..Len(s), v \in 1..Len(s) : w = <<u, v>>
        OBVIOUS
      <4>2. v - u < MaxChars
        <5>1. u \in Nat /\ v \in Nat
          OBVIOUS
        <5>2. Size(w) = v - u + 1
          BY <4>1 DEF Size
        <5>3. v - u + 1 <= MaxChars
          BY <3>1, <5>2
        <5>. QED BY <5>1, <5>3, MaxCharsAssumption
      <4>3. \E p \in Elems(cs) : In(u, p) /\ In(v, p)
        BY <2>2, <3>1, <4>1, <4>2 DEF WordsInParts
      <4>. QED BY <4>1, <4>3 DEF Elems
    <3>. QED BY <3>1 DEF KeepWords
  <2>5. ASSUME NEW k \in DOMAIN cs, NEW j \in SentenceEnds(s), In(j, cs[k]), StopsInLine(s)
        PROVE  j = cs[k][2]
    BY <2>2, <2>5 DEF Natural, EndsOfParts, Elems
  <2>6. ASSUME NEW d \in 0..Len(s), NEW e \in 1..Len(s), IsSentence(s, d, e),
               Stripped(s, d + 1, e) # <<>>, Size(Stripped(s, d + 1, e)[1]) <= MaxChars,
               StopsInLine(s)
        PROVE  \E k \in DOMAIN cs : cs[k] = Stripped(s, d + 1, e)[1]
    <3>1. Stripped(s, d + 1, e)[1] \in Elems(cs)
      BY <2>2, <2>6 DEF Natural, SentencesAreParts
    <3>. QED BY <3>1 DEF Elems
  <2>7. StopsInLine(s) => KeepSentences(s, cs)
    BY <2>5, <2>6 DEF KeepSentences
  <2>. QED BY <2>1, <2>4, <2>7
<1>2. SplitInv => CutsAreNatural
  BY <1>1 DEF CutsAreNatural
<1>. QED BY <1>2, SplitInvariance, PTL

-----------------------------------------------------------------------------
(* Splitting: what is left to do *)

\* What is left begins in the text or right after it.
LEMMA LeftRange ==
  ASSUME NEW n \in Nat, NEW r \in Seq((1..n + 1) \X (0..n)), NEW q \in Seq((1..n + 1) \X (0..n))
  PROVE  Left(r, q, n) \in 1..n + 1
<1>1. ASSUME NEW S, NEW w \in Seq(S), w # <<>> PROVE w[1] \in S
  <2>1. 1 \in 1..Len(w)
    BY <1>1, EmptySeq
  <2>. QED BY <2>1, ElementOfSeq
<1>2. CASE r # <<>>
  <2>1. r[1] \in (1..n + 1) \X (0..n)
    BY <1>1, <1>2
  <2>. QED BY <1>2, <2>1 DEF Left
<1>3. CASE r = <<>> /\ q # <<>>
  <2>1. q[1] \in (1..n + 1) \X (0..n)
    BY <1>1, <1>3
  <2>. QED BY <1>3, <2>1 DEF Left
<1>4. CASE r = <<>> /\ q = <<>>
  BY <1>4 DEF Left
<1>. QED BY <1>2, <1>3, <1>4

\* What is left after the slice that begins at f, begins after f.
LEMMA LeftGrows ==
  ASSUME NEW n \in Nat, NEW f \in 1..n, NEW S, NEW r \in Seq(S), NEW q \in Seq(S),
         \A k \in DOMAIN r : f < r[k][1], \A k \in DOMAIN q : f < q[k][1]
  PROVE  f < Left(r, q, n)
<1>1. ASSUME NEW w \in Seq(S), w # <<>> PROVE 1 \in DOMAIN w
  <2>1. DOMAIN w = 1..Len(w) /\ Len(w) \in Nat /\ Len(w) # 0
    BY <1>1, EmptySeq
  <2>. QED BY <2>1
<1>2. CASE r # <<>>
  BY <1>1, <1>2 DEF Left
<1>3. CASE r = <<>> /\ q # <<>>
  BY <1>1, <1>3 DEF Left
<1>4. CASE r = <<>> /\ q = <<>>
  BY <1>4 DEF Left
<1>. QED BY <1>2, <1>3, <1>4

\* A number of steps is left, at most four for a character.
LEMMA WorkRange ==
  ASSUME SplitInv
  PROVE  /\ Len(text) \in Nat /\ at \in 0..Len(text)
         /\ Left(rest, pieces, Len(text)) \in 1..Len(text) + 1
         /\ Work \in Nat
<1>1. /\ Len(text) \in Nat /\ at \in 0..Len(text)
      /\ pieces \in Seq(Slices(text)) /\ rest \in Seq(Slices(text))
      /\ stage \in {"plan", "sentences", "pieces", "hard", "done"}
  BY TextType
<1>2. PICK n : n = Len(text)
  OBVIOUS
<1>3. Left(rest, pieces, n) \in 1..n + 1
  BY <1>1, <1>2, LeftRange DEF Slices
<1>4. PICK l : l = Left(rest, pieces, n)
  OBVIOUS
<1>5. n \in Nat /\ l \in 1..n + 1 /\ 3 * (n + 1 - l) \in Nat /\ 4 * n + 3 - at \in Nat
  BY <1>1, <1>2, <1>3, <1>4
<1>6. /\ stage = "plan" => Work = 4 * n + 4
      /\ stage = "sentences" => Work = 4 * n + 3 - at
      /\ stage = "pieces" => Work = 3 * (n + 1 - l) + 1
      /\ stage = "hard" => Work \in {3 * (n + 1 - l), 3 * (n + 1 - l) + 2}
      /\ stage = "done" => Work = 0
  BY <1>2, <1>4 DEF Work
<1>7. Work \in Nat
  BY <1>1, <1>5, <1>6
<1>. QED BY <1>1, <1>2, <1>3, <1>7

\* The plan, the search for sentences and its end leave less to do.
LEMMA FirstLoopShrinks ==
  ASSUME SplitInv, SplitInv', KeepWhole \/ Begin \/ NextMatch \/ TakeTail
  PROVE  Work' < Work
<1>1. PICK n, a : n = Len(text) /\ a = at
  OBVIOUS
<1>2. n \in Nat /\ a \in 0..n /\ text' = text
  BY <1>1, WorkRange DEF KeepWhole, Begin, NextMatch, TakeTail, NoMatch
<1>3. CASE KeepWhole
  <2>1. Work = 4 * n + 4 /\ Work' = 0
    BY <1>1, <1>3 DEF KeepWhole, Work
  <2>. QED BY <1>2, <2>1
<1>4. CASE Begin
  <2>1. Work = 4 * n + 4 /\ Work' = 4 * n + 3 - a
    BY <1>1, <1>4 DEF Begin, Work
  <2>. QED BY <1>2, <2>1
<1>5. CASE NextMatch
  <2>1. PICK b \in Boundaries(text) : at < b[1] /\ at' = b[2]
    BY <1>5 DEF NextMatch
  <2>2. b \in (1..n) \X (1..n) /\ b[1] <= b[2]
    BY <1>1, <2>1 DEF Boundaries
  <2>3. Work = 4 * n + 3 - a /\ Work' = 4 * n + 3 - b[2]
    BY <1>1, <1>5, <2>1 DEF NextMatch, Work
  <2>. QED BY <1>1, <1>2, <2>1, <2>2, <2>3
<1>6. CASE TakeTail
  <2>1. PICK l : l = Left(rest', pieces', n)
    OBVIOUS
  <2>2. l \in 1..n + 1
    <3>1. rest' \in Seq(Slices(text)) /\ pieces' \in Seq(Slices(text))
      BY <1>2 DEF SplitInv, PlanTypeOK
    <3>. QED BY <1>1, <1>2, <2>1, <3>1, LeftRange DEF Slices
  <2>3. Work = 4 * n + 3 - a /\ Work' = 3 * (n + 1 - l) + 1
    BY <1>1, <1>6, <2>1 DEF TakeTail, NoMatch, Work
  <2>. QED BY <1>2, <2>2, <2>3
<1>. QED BY <1>3, <1>4, <1>5, <1>6

\* The loop over the sentences and that of _hard_split leave less to do.
LEMMA SecondLoopShrinks ==
  ASSUME SplitInv, SplitInv', ShortPiece \/ LongPiece \/ HardCut \/ HardEnd \/ SplitEnd
  PROVE  Work' < Work
<1>1. /\ stage \in {"pieces", "hard"} /\ text' = text
      /\ pieces \in Seq(Slices(text)) /\ rest \in Seq(Slices(text)) /\ Len(rest) <= 1
      /\ Ascending(pieces) /\ Precedes(rest, pieces)
      /\ stage # "hard" => rest = <<>>
      /\ PartsOK(text, Parts, Len(text))
  <2>1. stage \in {"pieces", "hard"} /\ text' = text
    BY DEF ShortPiece, LongPiece, HardCut, HardEnd, SplitEnd
  <2>. QED BY <2>1, SecondLoop
<1>2. PICK n, S, l, m :
        /\ n = Len(text) /\ S = Slices(text)
        /\ l = Left(rest, pieces, n) /\ m = Left(rest', pieces', n)
  OBVIOUS
<1>3. /\ n \in Nat /\ l \in 1..n + 1 /\ S = (1..n + 1) \X (0..n)
      /\ pieces' \in Seq(S) /\ rest' \in Seq(S) /\ m \in 1..n + 1
  <2>1. n \in Nat /\ l \in 1..n + 1 /\ S = (1..n + 1) \X (0..n)
    BY <1>2, WorkRange DEF Slices
  <2>2. pieces' \in Seq(S) /\ rest' \in Seq(S)
    BY <1>1, <1>2 DEF SplitInv, PlanTypeOK
  <2>. QED BY <1>2, <2>1, <2>2, LeftRange
<1>4. ASSUME NEW p \in Parts PROVE p \in (1..n) \X (1..n) /\ p[1] <= p[2]
  BY <1>1, <1>2 DEF PartsOK, Solid
<1>5. CASE ShortPiece
  <2>1. /\ stage = "pieces" /\ stage' = "pieces" /\ pieces # <<>> /\ rest = <<>> /\ rest' = <<>>
        /\ pieces' = Tail(pieces)
    BY <1>1, <1>5 DEF ShortPiece
  <2>2. PICK h : h = Head(pieces)
    OBVIOUS
  <2>3. Elems(pieces) = {h} \cup Elems(pieces') /\ Precedes(<<h>>, pieces')
    BY <1>1, <1>2, <2>1, <2>2, TakeFirst
  <2>4. h \in (1..n) \X (1..n) /\ h[1] <= h[2] /\ \A k \in DOMAIN pieces' : pieces'[k] \in (1..n) \X (1..n)
    <3>1. h \in Parts
      BY <2>3 DEF Parts
    <3>2. ASSUME NEW k \in DOMAIN pieces' PROVE pieces'[k] \in Parts
      BY <2>3 DEF Parts, Elems
    <3>. QED BY <1>4, <3>1, <3>2
  <2>5. \A k \in DOMAIN pieces' : h[1] < pieces'[k][1]
    <3>1. DOMAIN <<h>> = {1} /\ <<h>>[1] = h
      OBVIOUS
    <3>2. \A k \in DOMAIN pieces' : h[2] < pieces'[k][1]
      BY <2>3, <3>1 DEF Precedes
    <3>. QED BY <1>3, <2>4, <3>2
  <2>6. l = h[1]
    BY <1>1, <1>2, <2>1, <2>2 DEF Left
  <2>7. h[1] < m
    <3>1. \A k \in DOMAIN rest' : h[1] < rest'[k][1]
      BY <2>1
    <3>. QED BY <1>2, <1>3, <2>4, <2>5, <3>1, LeftGrows
  <2>8. Work = 3 * (n + 1 - l) + 1 /\ Work' = 3 * (n + 1 - m) + 1
    BY <1>1, <1>2, <2>1 DEF Work
  <2>. QED BY <1>3, <2>6, <2>7, <2>8
<1>6. CASE LongPiece
  <2>1. /\ stage = "pieces" /\ stage' = "hard" /\ pieces # <<>> /\ rest = <<>>
        /\ rest' = <<Head(pieces)>> /\ rest' # <<>>
    BY <1>1, <1>6 DEF LongPiece
  <2>2. m = l
    BY <1>1, <1>2, <2>1 DEF Left
  <2>3. Work = 3 * (n + 1 - l) + 1 /\ Work' = 3 * (n + 1 - m)
    BY <1>1, <1>2, <2>1 DEF Work
  <2>. QED BY <1>3, <2>2, <2>3
<1>7. ASSUME stage = "hard", rest # <<>>
      PROVE  /\ rest[1] \in (1..n) \X (1..n) /\ rest[1][1] <= rest[1][2] /\ l = rest[1][1]
             /\ \A k \in DOMAIN pieces : rest[1][2] < pieces[k][1] /\ rest[1][1] < pieces[k][1]
             /\ Work = 3 * (n + 1 - l)
  <2>1. 1 \in DOMAIN rest
    BY <1>1, <1>7, EmptySeq
  <2>2. rest[1] \in Parts
    BY <2>1 DEF Parts, Elems
  <2>3. rest[1] \in (1..n) \X (1..n) /\ rest[1][1] <= rest[1][2]
    BY <1>4, <2>2
  <2>4. ASSUME NEW k \in DOMAIN pieces
        PROVE  rest[1][2] < pieces[k][1] /\ rest[1][1] < pieces[k][1]
    <3>1. pieces[k] \in (1..n) \X (1..n)
      <4>1. pieces[k] \in Parts
        BY DEF Parts, Elems
      <4>. QED BY <1>4, <4>1
    <3>2. rest[1][2] < pieces[k][1]
      BY <1>1, <2>1 DEF Precedes
    <3>. QED BY <1>3, <2>3, <3>1, <3>2
  <2>5. l = rest[1][1]
    BY <1>2, <1>7 DEF Left
  <2>6. Work = 3 * (n + 1 - l)
    BY <1>2, <1>7 DEF Work
  <2>. QED BY <2>3, <2>4, <2>5, <2>6
<1>8. CASE HardCut
  <2>1. /\ stage = "hard" /\ stage' = "hard" /\ rest # <<>> /\ pieces' = pieces
        /\ Size(rest[1]) > MaxChars
        /\ rest' = Stripped(text, Cut(text, rest[1][1]), rest[1][2])
    BY <1>8 DEF HardCut, TooLong
  <2>2. PICK f, e : f = rest[1][1] /\ e = rest[1][2]
    OBVIOUS
  <2>3. f \in 1..n /\ e \in 1..n /\ f <= e /\ l = f /\ e - f + 1 > MaxChars
    BY <1>7, <2>1, <2>2 DEF Size
  <2>4. text \in Seq(Characters) /\ MaxChars \in Nat
    BY MaxCharsAssumption, TextType
  <2>5. PICK cut \in Nat : Cut(text, f) = cut /\ f < cut /\ cut <= f + MaxChars
    BY <1>2, <2>3, <2>4, CutPlace
  <2>6. \A k \in DOMAIN rest' : f < rest'[k][1]
    <3>1. ASSUME NEW k \in DOMAIN rest' PROVE f < rest'[k][1]
      <4>1. rest' = Stripped(text, cut, e) /\ rest'[k] \in Elems(Stripped(text, cut, e))
        BY <2>1, <2>2, <2>5 DEF Elems
      <4>2. cut \in Nat \ {0} /\ e \in 0..Len(text)
        BY <1>2, <1>3, <2>3, <2>5
      <4>3. rest'[k] \in (cut..e) \X (cut..e)
        BY <2>4, <4>1, <4>2, StrippedElems
      <4>4. rest'[k][1] \in cut..e
        BY <4>3
      <4>. QED BY <1>3, <2>3, <2>5, <4>4
    <3>. QED BY <3>1
  <2>7. f < m
    <3>1. \A k \in DOMAIN pieces' : f < pieces'[k][1]
      BY <1>7, <2>1, <2>2
    <3>. QED BY <1>2, <1>3, <2>3, <2>6, <3>1, LeftGrows
  <2>8. Work' \in {3 * (n + 1 - m) + 2, 3 * (n + 1 - m)}
    BY <1>1, <1>2, <2>1 DEF Work
  <2>. QED BY <1>3, <1>7, <2>1, <2>3, <2>7, <2>8
<1>9. CASE HardEnd
  <2>1. stage = "hard" /\ stage' = "pieces" /\ pieces' = pieces /\ rest' = <<>>
    BY <1>9 DEF HardEnd
  <2>2. Work' = 3 * (n + 1 - m) + 1
    BY <1>1, <1>2, <2>1 DEF Work
  <2>3. CASE rest = <<>>
    <3>1. m = l
      BY <1>2, <2>1, <2>3 DEF Left
    <3>2. Work = 3 * (n + 1 - l) + 2
      BY <1>2, <2>1, <2>3 DEF Work
    <3>. QED BY <1>3, <2>2, <3>1, <3>2
  <2>4. CASE rest # <<>>
    <3>1. l \in 1..n /\ \A k \in DOMAIN pieces' : l < pieces'[k][1]
      BY <1>7, <2>1, <2>4
    <3>2. \A k \in DOMAIN rest' : l < rest'[k][1]
      BY <2>1
    <3>3. l < m
      BY <1>2, <1>3, <3>1, <3>2, LeftGrows
    <3>4. Work = 3 * (n + 1 - l)
      BY <1>7, <2>1, <2>4
    <3>. QED BY <1>3, <2>2, <3>3, <3>4
  <2>. QED BY <2>3, <2>4
<1>10. CASE SplitEnd
  <2>1. Work = 3 * (n + 1 - l) + 1 /\ Work' = 0
    BY <1>2, <1>10 DEF SplitEnd, Work
  <2>. QED BY <1>3, <2>1
<1>. QED BY <1>5, <1>6, <1>8, <1>9, <1>10

WorkOK == Work \in Nat

\* Every step pays for itself: what it leaves to do is less by one at least.
LEMMA TurnPays ==
  ASSUME SplitInv, SplitInv', WorkOK', PlanNext
  PROVE  Work' + 1 <= Work /\ text' = text
<1>1. Work' < Work
  BY FirstLoopShrinks, SecondLoopShrinks DEF PlanNext
<1>2. PICK w, v : w = Work /\ v = Work'
  OBVIOUS
<1>3. w \in Nat /\ v \in Nat /\ v < w
  BY <1>1, <1>2, WorkRange DEF WorkOK
<1>4. v + 1 <= w
  BY <1>3
<1>5. text' = text
  BY DEF PlanNext, KeepWhole, Begin, NextMatch, TakeTail, NoMatch, ShortPiece, LongPiece,
         HardCut, HardEnd, SplitEnd
<1>. QED BY <1>2, <1>4, <1>5

\* The turns so far, and what is left to do.
Paid == turns \in Nat /\ turns + Work <= 4 * Len(text) + 4

\* No loop turns for ever: the steps of the splitting, of a text of any length and
\* under any limit, are no more than its length allows.
THEOREM SplittingEnds == PlanSpec => []LoopsEnd
<1>1. PlanInit /\ turns = 0 => Paid
  <2>1. SUFFICES ASSUME PlanInit, turns = 0 PROVE Paid
    OBVIOUS
  <2>2. Len(text) \in Nat /\ Work = 4 * Len(text) + 4
    BY <2>1, SplitInvInit, WorkRange DEF PlanInit, Work
  <2>. QED BY <2>1, <2>2 DEF Paid
<1>2. SplitInv => WorkOK
  BY WorkRange DEF WorkOK
<1>3. SplitInv /\ SplitInv' /\ WorkOK' /\ Paid /\ [Turn]_<<planVars, turns>> => Paid'
  <2>1. SUFFICES ASSUME SplitInv, SplitInv', WorkOK', Paid, [Turn]_<<planVars, turns>>
                 PROVE  Paid'
    OBVIOUS
  <2>2. PICK n, w, v : n = Len(text) /\ w = Work /\ v = Work'
    OBVIOUS
  <2>3. /\ n \in Nat /\ w \in Nat /\ v \in Nat
        /\ turns \in Nat /\ turns + w <= 4 * n + 4
    BY <2>1, <2>2, WorkRange DEF Paid, WorkOK
  <2>4. Len(text') = n /\ turns' \in Nat /\ turns' + v <= 4 * n + 4
    <3>1. CASE Turn
      <4>1. v + 1 <= w /\ text' = text /\ turns' = turns + 1
        BY <2>1, <2>2, <3>1, TurnPays DEF Turn
      <4>2. Len(text') = n
        BY <2>2, <4>1
      <4>3. turns' \in Nat /\ turns' + v <= 4 * n + 4
        BY <2>3, <4>1
      <4>. QED BY <4>2, <4>3
    <3>2. CASE UNCHANGED <<planVars, turns>>
      <4>1. v = w /\ text' = text /\ turns' = turns
        BY <2>2, <3>2 DEF planVars, Work, Left
      <4>2. Len(text') = n
        BY <2>2, <4>1
      <4>3. turns' \in Nat /\ turns' + v <= 4 * n + 4
        BY <2>3, <4>1
      <4>. QED BY <4>2, <4>3
    <3>. QED BY <2>1, <3>1, <3>2
  <2>. QED BY <2>2, <2>4 DEF Paid
<1>4. SplitInv /\ Paid => LoopsEnd
  <2>1. SUFFICES ASSUME SplitInv, Paid PROVE LoopsEnd
    OBVIOUS
  <2>2. PICK n, w : n = Len(text) /\ w = Work
    OBVIOUS
  <2>3. n \in Nat /\ w \in Nat
    BY <2>1, <2>2, WorkRange
  <2>. QED BY <2>1, <2>2, <2>3 DEF Paid, LoopsEnd
<1>. QED BY <1>1, <1>2, <1>3, <1>4, SplitInvariance, PTL DEF PlanSpec

-----------------------------------------------------------------------------
(* Settings: paths *)

\* The way to a path: its first keys.
LEMMA Way ==
  ASSUME NEW p \in Seq(Keys), NEW n \in 0..Len(p)
  PROVE  /\ SubSeq(p, 1, n) \in Seq(Keys) /\ Len(SubSeq(p, 1, n)) = n
         /\ \A k \in 1..n : SubSeq(p, 1, n)[k] = p[k]
         /\ Above(SubSeq(p, 1, n), p)
<1>1. SubSeq(p, 1, n) \in Seq(Keys) /\ Len(SubSeq(p, 1, n)) = n
  OBVIOUS
<1>2. \A k \in 1..n : SubSeq(p, 1, n)[k] = p[k]
  OBVIOUS
<1>. QED BY <1>1, <1>2 DEF Above

LEMMA AboveTransitive ==
  ASSUME NEW p \in Seq(Keys), NEW q \in Seq(Keys), NEW r \in Seq(Keys), Above(p, q), Above(q, r)
  PROVE  Above(p, r)
<1>1. Len(p) \in Nat /\ Len(q) \in Nat /\ Len(r) \in Nat
  OBVIOUS
<1>. QED BY <1>1 DEF Above

\* Below a path: what follows it.
LEMMA Below ==
  ASSUME NEW p \in Seq(Keys), NEW q \in Seq(Keys)
  PROVE  /\ p \o q \in Seq(Keys) /\ Len(p \o q) = Len(p) + Len(q)
         /\ Above(p, p \o q)
         /\ SubSeq(p \o q, Len(p) + 1, Len(p \o q)) = q
         /\ \A n \in 0..Len(p) : SubSeq(p \o q, 1, n) = SubSeq(p, 1, n)
         /\ \A n \in 0..Len(q) : SubSeq(p \o q, 1, Len(p) + n) = p \o SubSeq(q, 1, n)
<1>1. /\ Len(p) \in Nat /\ Len(q) \in Nat /\ p \o q \in Seq(Keys)
      /\ Len(p \o q) = Len(p) + Len(q)
      /\ \A k \in 1..Len(p) + Len(q) : (p \o q)[k] = IF k <= Len(p) THEN p[k] ELSE q[k - Len(p)]
  OBVIOUS
<1>2. PICK a, b, c : a = Len(p) /\ b = Len(q) /\ c = p \o q
  OBVIOUS
<1>3. /\ a \in Nat /\ b \in Nat /\ c \in Seq(Keys) /\ Len(c) = a + b
      /\ \A k \in 1..a + b : c[k] = IF k <= a THEN p[k] ELSE q[k - a]
  BY <1>1, <1>2
<1>4. Above(p, c)
  BY <1>2, <1>3 DEF Above
<1>5. SubSeq(c, a + 1, a + b) = q
  <2>1. SubSeq(c, a + 1, a + b) \in Seq(Keys) /\ Len(SubSeq(c, a + 1, a + b)) = b
    BY <1>3
  <2>2. ASSUME NEW k \in 1..b PROVE SubSeq(c, a + 1, a + b)[k] = q[k]
    <3>1. a + k \in 1..a + b /\ ~ a + k <= a /\ (a + k) - a = k /\ (a + 1) + k - 1 = a + k
      BY <1>3
    <3>2. SubSeq(c, a + 1, a + b)[k] = c[a + k]
      BY <1>3, <3>1
    <3>. QED BY <1>3, <3>1, <3>2
  <2>. QED BY <1>2, <2>1, <2>2, SeqEqual
<1>6. ASSUME NEW n \in 0..a PROVE SubSeq(c, 1, n) = SubSeq(p, 1, n)
  <2>1. /\ SubSeq(c, 1, n) \in Seq(Keys) /\ Len(SubSeq(c, 1, n)) = n
        /\ \A k \in 1..n : SubSeq(c, 1, n)[k] = c[k]
    BY <1>3
  <2>2. /\ SubSeq(p, 1, n) \in Seq(Keys) /\ Len(SubSeq(p, 1, n)) = n
        /\ \A k \in 1..n : SubSeq(p, 1, n)[k] = p[k]
    BY <1>2, Way
  <2>3. \A k \in 1..n : c[k] = p[k]
    BY <1>3
  <2>. QED BY <2>1, <2>2, <2>3, SeqEqual
<1>7. ASSUME NEW n \in 0..b PROVE SubSeq(c, 1, a + n) = p \o SubSeq(q, 1, n)
  <2>1. /\ SubSeq(c, 1, a + n) \in Seq(Keys) /\ Len(SubSeq(c, 1, a + n)) = a + n
        /\ \A k \in 1..a + n : SubSeq(c, 1, a + n)[k] = c[k]
    BY <1>3
  <2>2. PICK w : w = SubSeq(q, 1, n)
    OBVIOUS
  <2>3. /\ w \in Seq(Keys) /\ Len(w) = n
        /\ \A k \in 1..n : w[k] = q[k]
    BY <1>2, <2>2, Way
  <2>4. /\ p \o w \in Seq(Keys) /\ Len(p \o w) = a + n
        /\ \A k \in 1..a + n : (p \o w)[k] = IF k <= a THEN p[k] ELSE w[k - a]
    <3>1. /\ p \o w \in Seq(Keys) /\ Len(p \o w) = Len(p) + Len(w)
          /\ \A k \in 1..Len(p) + Len(w) :
                (p \o w)[k] = IF k <= Len(p) THEN p[k] ELSE w[k - Len(p)]
      BY <2>3
    <3>. QED BY <1>2, <2>3, <3>1
  <2>5. ASSUME NEW k \in 1..a + n PROVE c[k] = (p \o w)[k]
    <3>1. k \in 1..a + b /\ (~ k <= a => k - a \in 1..n)
      BY <1>3
    <3>. QED BY <1>3, <2>3, <2>4, <3>1
  <2>. QED BY <2>1, <2>2, <2>4, <2>5, SeqEqual
<1>. QED BY <1>1, <1>2, <1>3, <1>4, <1>5, <1>6, <1>7

-----------------------------------------------------------------------------
(* Settings: the two operations *)

\* What a path of the new tree comes from: the value, the way to it, the old tree.
Origin(t, path, value, new, p) ==
    \/ \E q \in DOMAIN value : p = path \o q /\ new[p] = value[q]
    \/ \E n \in 0..Len(path) - 1 : p = SubSeq(path, 1, n) /\ new[p] = Section
    \/ p \in DOMAIN t /\ ~Above(path, p) /\ new[p] = t[p]

\* What one variable leaves: its value, the way to it, and what is apart from it.
LEMMA AssignAt ==
  ASSUME NEW t, IsTree(t), NEW path \in Seq(Keys), NEW value, IsTree(value),
         NEW new, new = Assign(t, path, value)
  PROVE  /\ \A q \in DOMAIN value : path \o q \in DOMAIN new /\ new[path \o q] = value[q]
         /\ \A n \in 0..Len(path) - 1 :
               SubSeq(path, 1, n) \in DOMAIN new /\ new[SubSeq(path, 1, n)] = Section
         /\ \A p \in DOMAIN new : Origin(t, path, value, new, p)
         /\ \A p \in DOMAIN t : Apart(path, p) => p \in DOMAIN new /\ new[p] = t[p]
<1>. DEFINE way == {SubSeq(path, 1, n) : n \in 0..Len(path) - 1}
<1>. DEFINE kept == {p \in DOMAIN t : ~Above(path, p)}
<1>. DEFINE set == {path \o q : q \in DOMAIN value}
<1>0. Len(path) \in Nat
  OBVIOUS
<1>1. /\ DOMAIN new = way \cup kept \cup set
      /\ \A p \in way \cup kept \cup set :
            new[p] = IF p \in set THEN value[SubSeq(p, Len(path) + 1, Len(p))]
                     ELSE IF p \in way THEN Section
                     ELSE t[p]
  BY DEF Assign
<1>2. DOMAIN value \subseteq Seq(Keys) /\ DOMAIN t \subseteq Seq(Keys)
  BY DEF IsTree
<1>3. ASSUME NEW q \in DOMAIN value
      PROVE  path \o q \in set /\ path \o q \in DOMAIN new /\ new[path \o q] = value[q]
  <2>1. path \o q \in set
    OBVIOUS
  <2>2. SubSeq(path \o q, Len(path) + 1, Len(path \o q)) = q
    BY <1>2, Below
  <2>. HIDE DEF set, way, kept
  <2>. QED BY <1>1, <2>1, <2>2
<1>4. ASSUME NEW p \in set PROVE Above(path, p)
  <2>1. PICK q \in DOMAIN value : p = path \o q
    OBVIOUS
  <2>. QED BY <1>2, <2>1, Below
<1>5. ASSUME NEW n \in 0..Len(path) - 1
      PROVE  /\ SubSeq(path, 1, n) \in way /\ SubSeq(path, 1, n) \notin set
             /\ Above(SubSeq(path, 1, n), path)
  <2>1. n \in 0..Len(path) /\ ~ Len(path) <= n
    BY <1>0
  <2>2. Len(SubSeq(path, 1, n)) = n /\ Above(SubSeq(path, 1, n), path)
    BY <2>1, Way
  <2>3. ~Above(path, SubSeq(path, 1, n))
    BY <2>1, <2>2 DEF Above
  <2>4. SubSeq(path, 1, n) \in way
    OBVIOUS
  <2>. HIDE DEF set, way, kept
  <2>. QED BY <1>4, <2>2, <2>3, <2>4
<1>6. ASSUME NEW p \in way
      PROVE  \E n \in 0..Len(path) - 1 : p = SubSeq(path, 1, n) /\ Above(p, path)
  BY <1>5
<1>7. \A p : p \in kept <=> p \in DOMAIN t /\ ~Above(path, p)
  OBVIOUS
<1>8. \A p \in set : \E q \in DOMAIN value : p = path \o q
  OBVIOUS
<1>. HIDE DEF set, way, kept
<1>9. \A p \in DOMAIN new : Origin(t, path, value, new, p)
  <2>1. ASSUME NEW p \in set PROVE \E q \in DOMAIN value : p = path \o q /\ new[p] = value[q]
    BY <1>3, <1>8
  <2>2. ASSUME NEW p \in way, p \notin set
        PROVE  \E n \in 0..Len(path) - 1 : p = SubSeq(path, 1, n) /\ new[p] = Section
    BY <1>1, <1>6, <2>2
  <2>3. ASSUME NEW p \in kept, p \notin set, p \notin way
        PROVE  p \in DOMAIN t /\ ~Above(path, p) /\ new[p] = t[p]
    BY <1>1, <1>7, <2>3
  <2>. QED BY <1>1, <2>1, <2>2, <2>3 DEF Origin
<1>10. \A p \in DOMAIN t : Apart(path, p) => p \in DOMAIN new /\ new[p] = t[p]
  <2>1. ASSUME NEW p \in DOMAIN t, Apart(path, p) PROVE p \in kept /\ p \notin set /\ p \notin way
    BY <1>4, <1>6, <1>7, <2>1 DEF Apart
  <2>. QED BY <1>1, <2>1
<1>11. \A n \in 0..Len(path) - 1 :
               SubSeq(path, 1, n) \in DOMAIN new /\ new[SubSeq(path, 1, n)] = Section
  BY <1>1, <1>5
<1>. QED BY <1>3, <1>9, <1>10, <1>11

\* One variable leaves a tree.
LEMMA AssignTree ==
  ASSUME NEW t, IsTree(t), NEW path \in Seq(Keys), path # <<>>, NEW value, IsTree(value)
  PROVE  IsTree(Assign(t, path, value))
<1>1. PICK new : new = Assign(t, path, value)
  OBVIOUS
<1>2. /\ \A q \in DOMAIN value : path \o q \in DOMAIN new /\ new[path \o q] = value[q]
      /\ \A n \in 0..Len(path) - 1 :
               SubSeq(path, 1, n) \in DOMAIN new /\ new[SubSeq(path, 1, n)] = Section
      /\ \A p \in DOMAIN new : Origin(t, path, value, new, p)
      /\ \A p \in DOMAIN t : Apart(path, p) => p \in DOMAIN new /\ new[p] = t[p]
  BY <1>1, AssignAt
<1>3. DOMAIN value \subseteq Seq(Keys) /\ DOMAIN t \subseteq Seq(Keys)
  BY DEF IsTree
<1>4. Len(path) \in Nat /\ Len(path) # 0 /\ 0 \in 0..Len(path) - 1
  BY EmptySeq
<1>5. DOMAIN new \subseteq Seq(Keys)
  <2>1. ASSUME NEW p \in DOMAIN new PROVE p \in Seq(Keys)
    <3>1. CASE \E q \in DOMAIN value : p = path \o q
      BY <1>3, <3>1
    <3>2. CASE \E n \in 0..Len(path) - 1 : p = SubSeq(path, 1, n)
      <4>1. PICK n \in 0..Len(path) - 1 : p = SubSeq(path, 1, n)
        BY <3>2
      <4>2. n \in 0..Len(path)
        BY <1>4
      <4>. QED BY <4>1, <4>2, Way
    <3>3. CASE p \in DOMAIN t
      BY <1>3, <3>3
    <3>. QED BY <1>2, <3>1, <3>2, <3>3 DEF Origin
  <2>. QED BY <2>1
<1>6. <<>> \in DOMAIN new
  <2>1. SubSeq(path, 1, 0) = <<>>
    <3>1. SubSeq(path, 1, 0) \in Seq(Keys) /\ Len(SubSeq(path, 1, 0)) = 0
      BY <1>4, Way
    <3>. QED BY <3>1, EmptySeq
  <2>. QED BY <1>2, <1>4, <2>1
<1>7. ASSUME NEW p \in DOMAIN new, NEW n \in 0..Len(p) - 1
      PROVE  SubSeq(p, 1, n) \in DOMAIN new /\ new[SubSeq(p, 1, n)] = Section
  <2>0. p \in Seq(Keys) /\ Len(p) \in Nat /\ n \in 0..Len(p)
    BY <1>5
  <2>1. CASE \E q \in DOMAIN value : p = path \o q
    <3>1. PICK q \in DOMAIN value : p = path \o q
      BY <2>1
    <3>0. q \in Seq(Keys)
      BY <1>3
    <3>2. /\ q \in Seq(Keys) /\ Len(q) \in Nat /\ Len(p) = Len(path) + Len(q)
          /\ \A k \in 0..Len(path) : SubSeq(p, 1, k) = SubSeq(path, 1, k)
          /\ \A k \in 0..Len(q) : SubSeq(p, 1, Len(path) + k) = path \o SubSeq(q, 1, k)
      BY <3>0, <3>1, Below
    <3>3. CASE n < Len(path)
      <4>1. n \in 0..Len(path) - 1 /\ n \in 0..Len(path)
        BY <1>4, <3>3
      <4>. QED BY <1>2, <3>2, <4>1
    <3>4. CASE ~ n < Len(path)
      <4>1. PICK k \in 0..Len(q) - 1 : n = Len(path) + k
        <5>1. n - Len(path) \in 0..Len(q) - 1 /\ n = Len(path) + (n - Len(path))
          BY <1>4, <2>0, <3>2, <3>4
        <5>. QED BY <5>1
      <4>2. k \in 0..Len(q)
        BY <3>2
      <4>3. SubSeq(q, 1, k) \in DOMAIN value /\ value[SubSeq(q, 1, k)] = Section
        BY <4>1 DEF IsTree
      <4>4. SubSeq(p, 1, n) = path \o SubSeq(q, 1, k)
        BY <3>2, <4>1, <4>2
      <4>. QED BY <1>2, <4>3, <4>4
    <3>. QED BY <3>3, <3>4
  <2>2. CASE \E m \in 0..Len(path) - 1 : p = SubSeq(path, 1, m)
    <3>1. PICK m \in 0..Len(path) - 1 : p = SubSeq(path, 1, m)
      BY <2>2
    <3>2. m \in 0..Len(path) /\ m \in Nat
      BY <1>4
    <3>3. Len(p) = m /\ \A k \in 1..m : p[k] = path[k]
      BY <3>1, <3>2, Way
    <3>4. n \in 0..Len(path) - 1 /\ n \in 0..Len(path) /\ n < m
      BY <1>4, <2>0, <3>3, <3>2
    <3>5. /\ SubSeq(p, 1, n) \in Seq(Keys) /\ Len(SubSeq(p, 1, n)) = n
          /\ \A k \in 1..n : SubSeq(p, 1, n)[k] = p[k]
      BY <2>0, Way
    <3>6. /\ SubSeq(path, 1, n) \in Seq(Keys) /\ Len(SubSeq(path, 1, n)) = n
          /\ \A k \in 1..n : SubSeq(path, 1, n)[k] = path[k]
      BY <3>4, Way
    <3>7. \A k \in 1..n : p[k] = path[k]
      BY <3>2, <3>3, <3>4
    <3>8. SubSeq(p, 1, n) = SubSeq(path, 1, n)
      BY <3>5, <3>6, <3>7, SeqEqual
    <3>. QED BY <1>2, <3>4, <3>8
  <2>3. CASE p \in DOMAIN t /\ ~Above(path, p) /\ new[p] = t[p]
    <3>1. PICK r : r = SubSeq(p, 1, n)
      OBVIOUS
    <3>2. r \in DOMAIN t /\ t[r] = Section
      BY <2>3, <3>1 DEF IsTree
    <3>3. Above(r, p) /\ r \in Seq(Keys)
      BY <2>0, <3>1, Way
    <3>4. ~Above(path, r)
      BY <2>0, <2>3, <3>3, AboveTransitive
    <3>5. CASE Above(r, path)
      <4>1. Len(r) \in Nat /\ Len(r) <= Len(path) /\ \A k \in 1..Len(r) : r[k] = path[k]
        BY <3>3, <3>5 DEF Above
      <4>2. Len(r) # Len(path)
        <5>1. SUFFICES ASSUME Len(r) = Len(path) PROVE FALSE
          OBVIOUS
        <5>. QED BY <1>4, <3>4, <4>1, <5>1 DEF Above
      <4>3. Len(r) \in 0..Len(path) - 1 /\ Len(r) \in 0..Len(path)
        BY <1>4, <4>1, <4>2
      <4>4. /\ SubSeq(path, 1, Len(r)) \in Seq(Keys) /\ Len(SubSeq(path, 1, Len(r))) = Len(r)
            /\ \A k \in 1..Len(r) : SubSeq(path, 1, Len(r))[k] = path[k]
        BY <4>3, Way
      <4>5. r = SubSeq(path, 1, Len(r))
        BY <3>3, <4>1, <4>4, SeqEqual
      <4>. QED BY <1>2, <3>1, <4>3, <4>5
    <3>6. CASE ~Above(r, path)
      BY <1>2, <3>1, <3>2, <3>4, <3>6 DEF Apart
    <3>. QED BY <3>5, <3>6
  <2>. QED BY <1>2, <2>1, <2>2, <2>3 DEF Origin
<1>. QED BY <1>1, <1>5, <1>6, <1>7 DEF IsTree

\* What a merge leaves: the override, and of the base what is below none of its
\* scalars.
LEMMA MergeAt ==
  ASSUME NEW base, NEW over, NEW new, new = DeepMerge(base, over)
  PROVE  /\ \A p \in DOMAIN over : p \in DOMAIN new /\ new[p] = over[p]
         /\ \A p \in DOMAIN new : p \notin DOMAIN over =>
               /\ p \in DOMAIN base /\ new[p] = base[p]
               /\ \A q \in DOMAIN over : Above(q, p) => over[q] = Section
         /\ \A p \in DOMAIN base :
               p \notin DOMAIN over /\ (\A q \in DOMAIN over : Above(q, p) => over[q] = Section)
               => p \in DOMAIN new /\ new[p] = base[p]
<1>. DEFINE hidden == {p \in DOMAIN base : \E q \in DOMAIN over : Above(q, p) /\ over[q] # Section}
<1>1. /\ DOMAIN new = DOMAIN over \cup (DOMAIN base \ hidden)
      /\ \A p \in DOMAIN over \cup (DOMAIN base \ hidden) :
            new[p] = IF p \in DOMAIN over THEN over[p] ELSE base[p]
  BY DEF DeepMerge
<1>2. \A p \in DOMAIN base :
         p \in hidden <=> \E q \in DOMAIN over : Above(q, p) /\ over[q] # Section
  OBVIOUS
<1>. HIDE DEF hidden
<1>. QED BY <1>1, <1>2

\* A merge leaves a tree.
LEMMA MergeTree ==
  ASSUME NEW base, NEW over, IsTree(base), IsTree(over)
  PROVE  IsTree(DeepMerge(base, over))
<1>1. PICK new : new = DeepMerge(base, over)
  OBVIOUS
<1>2. /\ \A p \in DOMAIN over : p \in DOMAIN new /\ new[p] = over[p]
      /\ \A p \in DOMAIN new : p \notin DOMAIN over =>
               /\ p \in DOMAIN base /\ new[p] = base[p]
               /\ \A q \in DOMAIN over : Above(q, p) => over[q] = Section
      /\ \A p \in DOMAIN base :
               p \notin DOMAIN over /\ (\A q \in DOMAIN over : Above(q, p) => over[q] = Section)
               => p \in DOMAIN new /\ new[p] = base[p]
  BY <1>1, MergeAt
<1>3. /\ DOMAIN over \subseteq Seq(Keys) /\ DOMAIN base \subseteq Seq(Keys)
      /\ <<>> \in DOMAIN over
  BY DEF IsTree
<1>4. ASSUME NEW p \in DOMAIN new, NEW n \in 0..Len(p) - 1
      PROVE  SubSeq(p, 1, n) \in DOMAIN new /\ new[SubSeq(p, 1, n)] = Section
  <2>1. p \in Seq(Keys) /\ n \in 0..Len(p)
    BY <1>2, <1>3
  <2>2. PICK r : r = SubSeq(p, 1, n)
    OBVIOUS
  <2>3. r \in Seq(Keys) /\ Above(r, p)
    BY <2>1, <2>2, Way
  <2>4. CASE p \in DOMAIN over
    BY <1>2, <2>4 DEF IsTree
  <2>5. CASE p \notin DOMAIN over
    <3>1. /\ p \in DOMAIN base
          /\ \A q \in DOMAIN over : Above(q, p) => over[q] = Section
      BY <1>2, <2>5
    <3>2. r \in DOMAIN base /\ base[r] = Section
      BY <2>2, <3>1 DEF IsTree
    <3>3. \A q \in DOMAIN over : Above(q, r) => over[q] = Section
      BY <1>3, <2>1, <2>3, <3>1, AboveTransitive
    <3>4. r \in DOMAIN over => over[r] = Section
      BY <2>3, <3>1
    <3>. QED BY <1>2, <2>2, <3>2, <3>3, <3>4
  <2>. QED BY <2>4, <2>5
<1>5. DOMAIN new \subseteq Seq(Keys)
  BY <1>2, <1>3
<1>. QED BY <1>1, <1>2, <1>3, <1>4, <1>5 DEF IsTree

-----------------------------------------------------------------------------
(* Settings: the inductive invariant *)

\* What the variables vs leave in a tree t: what one sets and no later one touches,
\* the root, nothing that is neither on the way to one nor below it, and no scalar
\* that none of them sets.
Overriding(vs, t) ==
    /\ \A i \in DOMAIN vs : \A q \in DOMAIN vs[i].value :
          vs[i].value[q] # Section /\ SetLast(vs, i, vs[i].path \o q)
          => HasScalar(t, vs[i].path \o q, vs[i].value[q])
    /\ \A p \in DOMAIN t : p = <<>> \/ \E i \in DOMAIN vs : ~Apart(vs[i].path, p)
    /\ \A p \in DOMAIN t : t[p] # Section => \E i \in DOMAIN vs : Sets(vs[i], p, t[p])

ConfigInv ==
    /\ ConfigTypeOK
    /\ file \in Files
    /\ Overriding(env, overrides)
    /\ \A i \in DOMAIN env : env[i].path # <<>>
    /\ loaded => settings = DeepMerge(file, overrides)

LEMMA ConfigInvInit == ConfigInit => ConfigInv
<1>1. SUFFICES ASSUME ConfigInit PROVE ConfigInv
  OBVIOUS
<1>2. IsTree(NoSettings)
  <2>1. DOMAIN NoSettings = {<<>>} /\ Len(<<>>) = 0 /\ <<>> \in Seq(Keys)
    BY DEF NoSettings
  <2>2. \A p \in DOMAIN NoSettings : 0..Len(p) - 1 = {}
    BY <2>1
  <2>. QED BY <2>1, <2>2 DEF IsTree
<1>3. env \in Seq([path : Seq(Keys), value : Values]) /\ DOMAIN env = {}
  BY <1>1 DEF ConfigInit
<1>4. ConfigTypeOK
  BY <1>1, <1>2, <1>3 DEF ConfigInit, ConfigTypeOK
<1>5. Overriding(env, overrides)
  BY <1>1, <1>3 DEF ConfigInit, Overriding, NoSettings
<1>. QED BY <1>1, <1>3, <1>4, <1>5 DEF ConfigInit, ConfigInv

\* One more variable, after those of e, leaves what it must in their tree.
LEMMA OneMoreVariable ==
  ASSUME NEW e \in Seq([path : Seq(Keys), value : Values]),
         NEW path \in Seq(Keys), NEW value \in Values,
         NEW old, IsTree(old), Overriding(e, old), NEW new, new = Assign(old, path, value)
  PROVE  Overriding(Append(e, [path |-> path, value |-> value]), new)
<1>1. PICK l, x, f :
        l = Len(e) /\ x = [path |-> path, value |-> value] /\ f = Append(e, x)
  OBVIOUS
<1>0. x \in [path : Seq(Keys), value : Values] /\ x.path = path /\ x.value = value
  BY <1>1
<1>2. /\ Len(path) \in Nat
      /\ IsTree(value) /\ DOMAIN value \subseteq Seq(Keys)
      /\ DOMAIN old \subseteq Seq(Keys)
  BY ValuesAssumption DEF IsTree
<1>3. l \in Nat /\ DOMAIN e = 1..l
  BY <1>1
<1>4. \A i \in 1..l : /\ e[i] \in [path : Seq(Keys), value : Values] /\ IsTree(e[i].value)
                      /\ e[i].path \in Seq(Keys) /\ DOMAIN e[i].value \subseteq Seq(Keys)
  <2>1. ASSUME NEW i \in 1..l PROVE e[i] \in [path : Seq(Keys), value : Values]
    BY <1>1, ElementOfSeq
  <2>. QED BY <2>1, ValuesAssumption DEF IsTree
<1>5. /\ f \in Seq([path : Seq(Keys), value : Values])
      /\ Len(f) = l + 1 /\ DOMAIN f = 1..l + 1
      /\ \A i \in 1..l : f[i] = e[i]
      /\ f[l + 1] = x
  <2>1. PICK S : S = [path : Seq(Keys), value : Values]
    OBVIOUS
  <2>2. e \in Seq(S) /\ x \in S
    BY <1>0, <2>1
  <2>3. /\ Append(e, x) \in Seq(S) /\ Len(Append(e, x)) = Len(e) + 1
        /\ \A i \in 1..Len(e) : Append(e, x)[i] = e[i]
        /\ Append(e, x)[Len(e) + 1] = x
    BY <2>2, AppendProperties
  <2>. QED BY <1>1, <2>1, <2>3
<1>60. IsTree(value)
  BY <1>2
<1>61. \A q \in DOMAIN value : path \o q \in DOMAIN new /\ new[path \o q] = value[q]
  BY <1>60, AssignAt
<1>62. \A p \in DOMAIN new : Origin(old, path, value, new, p)
  BY <1>60, AssignAt
<1>63. \A p \in DOMAIN old : Apart(path, p) => p \in DOMAIN new /\ new[p] = old[p]
  BY <1>60, AssignAt
<1>7. ASSUME NEW i \in 1..l + 1, NEW q \in DOMAIN f[i].value,
             f[i].value[q] # Section, SetLast(f, i, f[i].path \o q)
      PROVE  HasScalar(new, f[i].path \o q, f[i].value[q])
  <2>1. CASE i = l + 1
    BY <1>0, <1>5, <1>61, <1>7, <2>1 DEF HasScalar
  <2>2. CASE i \in 1..l
    <3>1. f[i] = e[i]
      BY <1>5, <2>2
    <3>2. PICK p, v : p = e[i].path \o q /\ v = e[i].value[q]
      OBVIOUS
    <3>3. q \in Seq(Keys) /\ e[i].path \in Seq(Keys)
      BY <1>4, <1>7, <2>2, <3>1
    <3>4. p \in Seq(Keys) /\ v # Section /\ q \in DOMAIN e[i].value
      BY <1>7, <3>1, <3>2, <3>3
    <3>5. \A j \in i + 1..l + 1 : Apart(f[j].path, p)
      BY <1>5, <1>7, <3>1, <3>2 DEF SetLast
    <3>6. Apart(path, p)
      <4>1. l + 1 \in i + 1..l + 1
        BY <1>3, <2>2
      <4>. QED BY <1>0, <1>5, <3>5, <4>1
    <3>7. SetLast(e, i, p)
      <4>1. \A j \in i + 1..l : j \in 1..l /\ j \in i + 1..l + 1
        BY <1>3, <2>2
      <4>2. \A j \in i + 1..l : Apart(e[j].path, p)
        BY <1>5, <3>5, <4>1
      <4>. QED BY <1>1, <4>2 DEF SetLast
    <3>8. HasScalar(old, p, v)
      BY <1>3, <2>2, <3>2, <3>4, <3>7 DEF Overriding
    <3>9. HasScalar(new, p, v)
      BY <1>63, <3>6, <3>8 DEF HasScalar
    <3>. QED BY <3>1, <3>2, <3>9
  <2>. QED BY <1>3, <2>1, <2>2
<1>8. ASSUME NEW p \in DOMAIN new
      PROVE  p = <<>> \/ \E i \in 1..l + 1 : ~Apart(f[i].path, p)
  <2>0. l + 1 \in 1..l + 1
    BY <1>3
  <2>1. CASE \E q \in DOMAIN value : p = path \o q
    <3>1. Above(path, p)
      BY <1>2, <2>1, Below
    <3>. QED BY <1>0, <1>5, <2>0, <3>1 DEF Apart
  <2>2. CASE \E k \in 0..Len(path) - 1 : p = SubSeq(path, 1, k)
    <3>1. PICK k \in 0..Len(path) - 1 : p = SubSeq(path, 1, k)
      BY <2>2
    <3>2. k \in 0..Len(path)
      BY <1>2
    <3>3. Above(p, path)
      BY <1>2, <3>1, <3>2, Way
    <3>. QED BY <1>0, <1>5, <2>0, <3>3 DEF Apart
  <2>3. CASE p \in DOMAIN old
    <3>1. p = <<>> \/ \E i \in 1..l : ~Apart(e[i].path, p)
      BY <1>3, <2>3 DEF Overriding
    <3>2. \A i \in 1..l : i \in 1..l + 1 /\ f[i] = e[i]
      BY <1>3, <1>5
    <3>. QED BY <3>1, <3>2
  <2>. QED BY <1>62, <2>1, <2>2, <2>3 DEF Origin
<1>9. ASSUME NEW p \in DOMAIN new, new[p] # Section
      PROVE  \E i \in 1..l + 1 : Sets(f[i], p, new[p])
  <2>0. l + 1 \in 1..l + 1
    BY <1>3
  <2>1. CASE \E q \in DOMAIN value : p = path \o q /\ new[p] = value[q]
    <3>1. PICK q \in DOMAIN value : p = path \o q /\ new[p] = value[q]
      BY <2>1
    <3>2. HasScalar(value, q, new[p])
      BY <1>9, <3>1 DEF HasScalar
    <3>3. Sets(x, p, new[p])
      BY <1>0, <3>1, <3>2 DEF Sets
    <3>. QED BY <1>5, <2>0, <3>3
  <2>2. CASE p \in DOMAIN old /\ new[p] = old[p]
    <3>1. PICK i \in 1..l : Sets(e[i], p, old[p])
      BY <1>3, <1>9, <2>2 DEF Overriding
    <3>2. f[i] = e[i] /\ i \in 1..l + 1
      BY <1>3, <1>5
    <3>. QED BY <2>2, <3>1, <3>2
  <2>. QED BY <1>62, <1>9, <2>1, <2>2 DEF Origin
<1>10. Overriding(f, new)
  BY <1>5, <1>7, <1>8, <1>9 DEF Overriding
<1>. QED BY <1>1, <1>10

LEMMA ReadVariablePreserves ==
  ASSUME ConfigInv, NEW n \in 1..MaxPath, NEW path \in [1..n -> Keys], NEW value \in Values,
         ReadVariable(path, value)
  PROVE  ConfigInv'
<1>1. path \in Seq(Keys) /\ path # <<>> /\ IsTree(value)
  <2>1. n \in Nat /\ n # 0
    BY MaxPathAssumption
  <2>2. path \in Seq(Keys) /\ Len(path) = n
    BY <2>1
  <2>3. path # <<>>
    BY <2>1, <2>2
  <2>. QED BY <2>2, <2>3, ValuesAssumption
<1>2. PICK e, x, old, new, S :
        /\ e = env /\ x = [path |-> path, value |-> value]
        /\ old = overrides /\ new = Assign(overrides, path, value)
        /\ S = [path : Seq(Keys), value : Values]
  OBVIOUS
<1>3. /\ e \in Seq(S) /\ IsTree(old) /\ Overriding(e, old)
      /\ \A i \in DOMAIN e : e[i].path # <<>>
  BY <1>2 DEF ConfigInv, ConfigTypeOK
<1>4. /\ env' = Append(e, x) /\ overrides' = new
      /\ file' = file /\ loaded' = loaded /\ settings' = settings /\ ~loaded
  BY <1>2 DEF ReadVariable
<1>5. x \in S /\ x.path = path /\ x.value = value
  BY <1>1, <1>2
<1>6. /\ Append(e, x) \in Seq(S) /\ Len(Append(e, x)) = Len(e) + 1
      /\ \A i \in 1..Len(e) : Append(e, x)[i] = e[i]
      /\ Append(e, x)[Len(e) + 1] = x
  BY <1>3, <1>5, AppendProperties
<1>7. IsTree(new)
  BY <1>1, <1>2, <1>3, AssignTree
<1>8. ConfigTypeOK'
  BY <1>2, <1>4, <1>6, <1>7 DEF ConfigInv, ConfigTypeOK
<1>9. Overriding(Append(e, x), new)
  BY <1>1, <1>2, <1>3, OneMoreVariable
<1>10. \A i \in DOMAIN Append(e, x) : Append(e, x)[i].path # <<>>
  <2>1. DOMAIN Append(e, x) = 1..Len(e) + 1 /\ DOMAIN e = 1..Len(e) /\ Len(e) \in Nat
    BY <1>3, <1>6
  <2>2. \A i \in 1..Len(e) + 1 : i \in 1..Len(e) \/ i = Len(e) + 1
    BY <2>1
  <2>. QED BY <1>1, <1>3, <1>5, <1>6, <2>1, <2>2
<1>11. Overriding(env, overrides)'
  BY <1>4, <1>9
<1>. QED BY <1>4, <1>8, <1>10, <1>11 DEF ConfigInv

LEMMA LoadPreserves == ASSUME ConfigInv, Load PROVE ConfigInv'
<1>1. /\ IsTree(file) /\ IsTree(overrides)
      /\ env \in Seq([path : Seq(Keys), value : Values])
  BY FilesAssumption DEF ConfigInv, ConfigTypeOK
<1>2. /\ settings' = DeepMerge(file, overrides) /\ loaded' = TRUE
      /\ file' = file /\ env' = env /\ overrides' = overrides
  BY DEF Load
<1>3. IsTree(DeepMerge(file, overrides))
  BY <1>1, MergeTree
<1>4. ConfigTypeOK'
  BY <1>1, <1>2, <1>3 DEF ConfigTypeOK
<1>5. Overriding(env, overrides)'
  BY <1>2 DEF ConfigInv
<1>6. (loaded => settings = DeepMerge(file, overrides))'
  BY <1>2
<1>. QED BY <1>2, <1>4, <1>5, <1>6 DEF ConfigInv

LEMMA ConfigInvStep == ASSUME ConfigInv, [ConfigNext]_configVars PROVE ConfigInv'
<1>1. CASE ConfigNext
  BY <1>1, ReadVariablePreserves, LoadPreserves DEF ConfigNext
<1>2. CASE UNCHANGED configVars
  BY <1>2 DEF configVars, ConfigInv, ConfigTypeOK
<1>. QED BY <1>1, <1>2

\* The inductive invariant of the loading of the settings.
THEOREM ConfigInvariance == ConfigSpec => []ConfigInv
BY ConfigInvInit, ConfigInvStep, PTL DEF ConfigSpec

\* What is loaded is a tree, whatever the file and the variables hold.
THEOREM ConfigTypeCorrect == ConfigSpec => []ConfigTypeOK
<1>1. ConfigInv => ConfigTypeOK
  BY DEF ConfigInv
<1>. QED BY <1>1, ConfigInvariance, PTL

-----------------------------------------------------------------------------
(* Settings: the precedence of the layers *)

\* Of the file what no variable touches is in force.
LEMMA FileInForce ==
  ASSUME ConfigInv, loaded, NEW p \in DOMAIN file, file[p] # Section,
         \A j \in DOMAIN env : Apart(env[j].path, p)
  PROVE  HasScalar(settings, p, file[p])
<1>1. /\ file \in Files /\ IsTree(file) /\ IsTree(overrides) /\ Overriding(env, overrides)
      /\ file[<<>>] = Section
      /\ env \in Seq([path : Seq(Keys), value : Values])
  BY FilesAssumption DEF ConfigInv, ConfigTypeOK
<1>2. p # <<>> /\ p \in Seq(Keys)
  BY <1>1 DEF IsTree
<1>3. p \notin DOMAIN overrides
  BY <1>1, <1>2 DEF Overriding
<1>4. ASSUME NEW q \in DOMAIN overrides, Above(q, p), overrides[q] # Section PROVE FALSE
  <2>1. PICK i \in DOMAIN env : Sets(env[i], q, overrides[q])
    BY <1>1, <1>4 DEF Overriding
  <2>2. PICK r \in DOMAIN env[i].value : q = env[i].path \o r
    BY <2>1 DEF Sets
  <2>3. env[i] \in [path : Seq(Keys), value : Values]
    <3>1. PICK e, S : e = env /\ S = [path : Seq(Keys), value : Values] /\ e \in Seq(S)
      BY <1>1
    <3>2. ASSUME NEW T, NEW s \in Seq(T), NEW j \in DOMAIN s PROVE s[j] \in T
      OBVIOUS
    <3>. QED BY <3>1, <3>2
  <2>4. env[i].path \in Seq(Keys) /\ r \in Seq(Keys)
    BY <2>3, ValuesAssumption DEF IsTree
  <2>5. Above(env[i].path, q) /\ q \in Seq(Keys)
    BY <2>2, <2>4, Below
  <2>6. Above(env[i].path, p)
    BY <1>2, <1>4, <2>4, <2>5, AboveTransitive
  <2>. QED BY <2>6 DEF Apart
<1>5. settings = DeepMerge(file, overrides)
  BY DEF ConfigInv
<1>6. p \in DOMAIN settings /\ settings[p] = file[p]
  <2>1. \A q \in DOMAIN overrides : Above(q, p) => overrides[q] = Section
    BY <1>4
  <2>2. \A u \in DOMAIN file :
               u \notin DOMAIN overrides
               /\ (\A q \in DOMAIN overrides : Above(q, u) => overrides[q] = Section)
               => u \in DOMAIN settings /\ settings[u] = file[u]
    BY <1>5, MergeAt
  <2>. QED BY <1>3, <2>1, <2>2
<1>. QED BY <1>6 DEF HasScalar

\* The environment is over the file: what a variable sets is in force unless a later
\* one touches it, what the file has is in force where no variable is, and nothing
\* else is, for every file and every number of variables.
THEOREM AllLayersPrecede == ConfigSpec => []LayersPrecede
<1>1. ASSUME ConfigInv PROVE LayersPrecede
  <2>1. SUFFICES ASSUME loaded PROVE LayersPrecede
    BY DEF LayersPrecede
  <2>2. Overriding(env, overrides) /\ settings = DeepMerge(file, overrides)
    BY <1>1, <2>1 DEF ConfigInv
  <2>3. /\ \A p \in DOMAIN overrides : p \in DOMAIN settings /\ settings[p] = overrides[p]
        /\ \A p \in DOMAIN settings : p \notin DOMAIN overrides =>
               /\ p \in DOMAIN file /\ settings[p] = file[p]
               /\ \A q \in DOMAIN overrides : Above(q, p) => overrides[q] = Section
    BY <2>2, MergeAt
  <2>4. \A i \in DOMAIN env : \A q \in DOMAIN env[i].value :
           env[i].value[q] # Section /\ SetLast(env, i, env[i].path \o q)
           => HasScalar(settings, env[i].path \o q, env[i].value[q])
    BY <2>2, <2>3 DEF Overriding, HasScalar
  <2>5. \A p \in DOMAIN file :
           file[p] # Section /\ (\A j \in DOMAIN env : Apart(env[j].path, p))
           => HasScalar(settings, p, file[p])
    BY <1>1, <2>1, FileInForce
  <2>6. ASSUME NEW p \in DOMAIN settings, settings[p] # Section
        PROVE  \/ HasScalar(file, p, settings[p])
               \/ \E i \in DOMAIN env : Sets(env[i], p, settings[p])
    BY <2>2, <2>3, <2>6 DEF Overriding, HasScalar
  <2>7. IsTree(settings)
    BY <1>1 DEF ConfigInv, ConfigTypeOK
  <2>. QED BY <2>4, <2>5, <2>6, <2>7 DEF LayersPrecede
<1>. QED BY <1>1, ConfigInvariance, PTL

-----------------------------------------------------------------------------
(* The hook *)

Script == INSTANCE HookScript

\* The greatest of some positions in a sequence.
LEMMA ScriptMax ==
  ASSUME NEW n \in Nat, NEW T, T \subseteq 1..n, T # {}
  PROVE  Script!Max(T) \in T /\ \A y \in T : Script!Max(T) >= y
<1>1. Script!Max(T) = Max(T)
  BY DEF Script!Max, Max
<1>2. T \subseteq 0..n
  OBVIOUS
<1>. QED BY <1>1, <1>2, MaxPosition

\* last_assistant_text, for transcripts of any length: the hook tells the newest
\* reply, or nothing, and raises only for the payloads and gateways it must not meet.
THEOREM HookTellsNewestReply ==
  ASSUME NEW p \in Script!PayloadsWith(Seq(Script!Lines)), NEW gateway \in Script!Gateways
  PROVE  Script!HookSays(p, gateway)
<1>. USE DEF Script!Nothing, Script!Given, Script!Reply, Script!Raises, Script!Empty,
             Script!Replies
<1>. DEFINE reply == Script!Hook(p, gateway)
            spoken == Script!TextFor(p)
            stops == p.stdin = "object" /\ p.event = "Stop" /\ ~p.active
            told == {k \in DOMAIN p.transcript : p.transcript[k] \in Script!Replies}
            wrong == {k \in DOMAIN p.transcript : p.transcript[k] \in {"scalar", "odd"}}
            newest(S) == \E k \in S : \A m \in told \cup wrong : m <= k
<1>1. /\ gateway \in {"good", "unreachable", "garbled", "misnamed"}
      /\ p.stdin \in {"text", "blank", "undecodable", "scalar", "object"}
      /\ p.stdin = "object" =>
            /\ p.event \in {"Notification", "Stop", "other"} /\ p.active \in BOOLEAN
            /\ p.transcript \in {<<"missing">>, <<"undecodable">>} \cup Seq(Script!Lines)
  BY DEF Script!PayloadsWith, Script!Gateways
<1>2. /\ spoken.of = "exception" => reply = spoken
      /\ spoken.of = "nothing" => reply = spoken
      /\ spoken.of \notin {"exception", "nothing"} =>
            \/ /\ gateway = "good"
               /\ \/ reply = Script!Prepare(p, spoken) /\ reply.of # "empty"
                  \/ reply = [of |-> "nothing"] /\ Script!Prepare(p, spoken) = [of |-> "empty"]
            \/ gateway = "unreachable" /\ reply.of = "nothing"
            \/ gateway \in {"garbled", "misnamed"}
  <2>1. /\ spoken.of \in {"given", "reply", "nothing", "exception"}
    BY <1>1 DEF Script!TextFor, Script!LastAssistantText
  <2>2. Script!Prepare(p, spoken) \in {spoken, [of |-> "empty"]}
    BY DEF Script!Prepare
  <2>. QED BY <1>1, <2>1, <2>2 DEF Script!Hook, Script!Speak
<1>3. CASE ~stops
  <2>1. p.stdin \in {"undecodable", "scalar"} \/ spoken.of \in {"given", "nothing"}
    BY <1>1, <1>3 DEF Script!TextFor
  <2>3. Script!Prepare(p, spoken).of \in {spoken.of, "empty"}
    BY DEF Script!Prepare
  <2>2. p.stdin = "object" /\ p.event = "Stop" /\ p.active => spoken = [of |-> "nothing"]
    BY <1>1 DEF Script!TextFor
  <2>. QED BY <1>2, <1>3, <2>1, <2>2, <2>3 DEF Script!HookSays
<1>4. CASE stops
  <2>. DEFINE telling == {k \in DOMAIN p.transcript : p.transcript[k] \in Script!Replies \cup {"scalar", "odd"}}
  <2>1. spoken = Script!LastAssistantText(p.transcript)
    BY <1>4 DEF Script!TextFor
  <2>2. telling = told \cup wrong
    OBVIOUS
  <2>3. CASE telling = {}
    <3>1. spoken.of = "nothing" \/ p.transcript = <<"undecodable">>
      BY <2>1, <2>3 DEF Script!LastAssistantText
    <3>2. told = {} /\ wrong = {}
      BY <2>2, <2>3
    <3>. QED BY <1>2, <1>4, <3>1, <3>2 DEF Script!HookSays
  <2>4. CASE telling # {}
    <3>. DEFINE m == Script!Max(telling)
    <3>1. \E n \in Nat : telling \subseteq 1..n
      <4>1. DOMAIN p.transcript = 1..Len(p.transcript) /\ Len(p.transcript) \in Nat
        BY <1>1, <1>4
      <4>. QED BY <4>1
    <3>2. m \in telling /\ \A y \in telling : m >= y
      BY <2>4, <3>1, ScriptMax
    <3>3. p.transcript # <<"undecodable">>
      BY <2>4
    <3>4. telling \subseteq Nat
      BY <3>1
    <3>5. spoken = IF p.transcript[m] \in Script!Replies THEN [of |-> "reply", line |-> m]
                 ELSE [of |-> "exception", class |-> "AttributeError"]
      BY <2>1, <2>4, <3>3 DEF Script!LastAssistantText
    <3>6. CASE m \in told
      <4>1. Script!Max(told) = m
        <5>1. told \subseteq telling /\ told # {}
          BY <2>2, <3>6
        <5>. DEFINE x == Script!Max(told)
        <5>2. x \in told /\ \A y \in told : x >= y
          BY <3>1, <5>1, ScriptMax
        <5>. HIDE DEF x, m, told, telling
        <5>3. x >= m /\ m >= x /\ x \in Nat /\ m \in Nat
          BY <3>2, <3>4, <3>6, <5>1, <5>2
        <5>. QED BY <5>3 DEF x
      <4>2. spoken = [of |-> "reply", line |-> m]
        BY <3>5, <3>6
      <4>3. /\ p.transcript[m] = "text" => Script!Prepare(p, spoken) = spoken
            /\ p.transcript[m] = "markup" => Script!Prepare(p, spoken) = [of |-> "empty"]
            /\ p.transcript[m] \in {"text", "markup"}
        BY <1>4, <3>6, <4>2 DEF Script!Prepare
      <4>4. ~newest(wrong)
        <5>. HIDE DEF m, telling
        <5>1. ASSUME NEW k \in wrong, \A y \in told \cup wrong : y <= k PROVE FALSE
          <6>1. k \in telling /\ m \in Nat /\ k \in Nat /\ m <= k /\ m >= k
            BY <2>2, <3>2, <3>4, <3>6, <5>1
          <6>. QED BY <3>6, <5>1, <6>1
        <5>. QED BY <5>1
      <4>5. /\ p.transcript[m] = "text" /\ gateway = "good" =>
                  reply = [of |-> "reply", line |-> m]
            /\ p.transcript[m] = "markup" /\ gateway = "good" => reply = [of |-> "nothing"]
            /\ reply.of = "exception" => gateway \in {"garbled", "misnamed"}
        <5>. DEFINE ready == Script!Prepare(p, spoken)
        <5>1. spoken.of \notin {"exception", "nothing"}
          BY <4>2
        <5>2. \/ /\ gateway = "good"
                 /\ \/ reply = ready /\ reply.of # "empty"
                    \/ reply = [of |-> "nothing"] /\ ready = [of |-> "empty"]
              \/ gateway = "unreachable" /\ reply.of = "nothing"
              \/ gateway \in {"garbled", "misnamed"}
          BY <1>2, <5>1
        <5>3. /\ p.transcript[m] = "text" => ready = [of |-> "reply", line |-> m]
              /\ p.transcript[m] = "markup" => ready = [of |-> "empty"]
              /\ p.transcript[m] \in {"text", "markup"}
          BY <4>2, <4>3
        <5>. HIDE DEF m, reply, spoken, ready
        <5>4. CASE p.transcript[m] = "text"
          <6>1. ready.of = "reply"
            BY <5>3, <5>4
          <6>. QED BY <5>2, <5>3, <5>4, <6>1
        <5>5. CASE p.transcript[m] = "markup"
          <6>1. ready.of = "empty"
            BY <5>3, <5>5
          <6>. QED BY <5>2, <5>3, <5>5, <6>1
        <5>. QED BY <5>3, <5>4, <5>5
      <4>. HIDE DEF m, reply, spoken, telling
      <4>. QED BY <1>4, <4>1, <4>3, <4>4, <4>5 DEF Script!HookSays, reply
    <3>7. CASE m \in wrong
      <4>1. newest(wrong)
        BY <2>2, <3>2, <3>4, <3>7
      <4>2. ~newest(told)
        <5>. HIDE DEF m, telling
        <5>1. ASSUME NEW k \in told, \A y \in told \cup wrong : y <= k PROVE FALSE
          <6>1. k \in telling /\ m \in Nat /\ k \in Nat /\ m <= k /\ m >= k
            BY <2>2, <3>2, <3>4, <3>7, <5>1
          <6>. QED BY <3>7, <5>1, <6>1
        <5>. QED BY <5>1
      <4>3. spoken = [of |-> "exception", class |-> "AttributeError"]
        BY <3>5, <3>7
      <4>. QED BY <1>2, <1>4, <4>1, <4>2, <4>3 DEF Script!HookSays
    <3>. QED BY <2>2, <3>2, <3>6, <3>7
  <2>. QED BY <2>3, <2>4
<1>. QED BY <1>3, <1>4

\* prepare(), for texts of any length and any limit: a text within the limit is said
\* as it is, and of a longer one a beginning within the limit, cut at the last space
\* unless that comes too early, with the notice after it.
THEOREM HookCutsAtWords ==
  ASSUME NEW t \in Seq({"x", "space"}), Script!IsWords(t), NEW limit \in Nat
  PROVE  Script!TruncatesWell(t, limit)
<1>. DEFINE said == Script!Truncate(t, limit)
            half == limit \div 2
            cut == SubSeq(t, 1, limit)
            late == {k \in Script!Spaces(cut) : k > half}
<1>1. CASE limit = 0 \/ Len(t) <= limit
  <2>1. Script!Truncate(t, limit) = t
    BY <1>1 DEF Script!Truncate
  <2>. QED BY <1>1, <2>1 DEF Script!TruncatesWell
<1>2. CASE limit > 0 /\ limit < Len(t)
  <2>1. /\ t # <<>> /\ Len(t) \in Nat /\ t[1] = "x" /\ half \in Nat /\ half < limit
        /\ \A k \in 1..Len(t) - 1 : t[k] = "x" \/ t[k + 1] = "x"
        /\ limit >= 2 => half >= 1
    BY <1>2 DEF Script!IsWords
  <2>2. Len(cut) = limit /\ \A k \in 1..limit : cut[k] = t[k]
    BY <1>2
  <2>3. Script!Spaces(cut) = {k \in 1..limit : t[k] = "space"}
    BY <1>2, <2>2 DEF Script!Spaces
  <2>. HIDE DEF half
  <2>4. CASE late = {}
    <3>1. said = cut \o Script!Notice
      BY <1>2, <2>4 DEF Script!Truncate, half
    <3>2. \A k \in half + 1..limit : t[k] # "space"
      BY <2>1, <2>3, <2>4
    <3>3. cut[limit] # "space"
      BY <1>2, <2>1, <2>2, <3>2
    <3>4. /\ said = SubSeq(t, 1, limit) \o Script!Notice
          /\ t[limit] # "space"
          /\ \A k \in limit \div 2 + 1..limit : t[k] # "space"
          /\ \A k \in limit + 2..limit : t[k] # "space"
      BY <1>2, <2>2, <3>1, <3>2, <3>3 DEF half
    <3>5. limit \in 1..limit /\ ~(limit = 0 \/ Len(t) <= limit)
      BY <1>2, <2>1
    <3>. HIDE DEF cut, late, said
    <3>. QED BY <3>4, <3>5, Zenon DEF Script!TruncatesWell, said
  <2>5. CASE late # {}
    <3>. DEFINE m == Script!Max(late)
                short == SubSeq(cut, 1, m - 1)
    <3>1. late \subseteq 1..limit
      BY <2>3
    <3>2. m \in late /\ \A y \in late : m >= y
      BY <2>5, <3>1, ScriptMax
    <3>3. m \in 2..limit /\ t[m] = "space" /\ m > half
      BY <1>2, <2>1, <2>3, <3>2
    <3>. HIDE DEF m, late
    <3>4. short = SubSeq(t, 1, m - 1) /\ Len(short) = m - 1
      BY <1>2, <2>2, <3>3
    <3>5. said = short \o Script!Notice
      <4>1. m = Script!Max({k \in Script!Spaces(cut) : k > limit \div 2})
        BY DEF m, late, half
      <4>2. late = {k \in Script!Spaces(cut) : k > limit \div 2}
        BY DEF late, half
      <4>. HIDE DEF m, short
      <4>3. ~(limit = 0 \/ Len(t) <= limit)
        BY <1>2
      <4>. HIDE DEF late
      <4>4. said = (IF late = {} THEN cut ELSE SubSeq(cut, 1, m - 1)) \o Script!Notice
        BY <4>1, <4>2, <4>3, Zenon DEF Script!Truncate
      <4>. QED BY <2>5, <4>4 DEF short
    <3>6. short # <<>> /\ short[m - 1] = t[m - 1] /\ t[m - 1] = "x"
      <4>1. m - 1 \in 1..Len(t) - 1 /\ (m - 1) + 1 = m
        BY <1>2, <2>1, <3>3
      <4>2. t[m - 1] = "x"
        BY <2>1, <3>3, <4>1
      <4>3. SubSeq(t, 1, m - 1)[m - 1] = t[m - 1]
        BY <4>1
      <4>. HIDE DEF short
      <4>4. short # <<>>
        BY <3>4, <4>1
      <4>. QED BY <3>4, <4>2, <4>3, <4>4
    <3>7. \A k \in m + 1..limit : t[k] # "space"
      BY <2>1, <2>3, <3>2, <3>3 DEF late
    <3>. HIDE DEF short, said
    <3>8. PICK n \in 1..limit : n = m - 1
      BY <1>2, <3>3
    <3>9. n + 1 = m /\ n + 2 = m + 1
      BY <3>3, <3>8
    <3>10. /\ said = SubSeq(t, 1, n) \o Script!Notice
           /\ t[n] # "space" /\ t[n + 1] = "space"
           /\ \A k \in n + 2..limit : t[k] # "space"
      BY <3>3, <3>4, <3>5, <3>6, <3>7, <3>8, <3>9
    <3>11. ~(limit = 0 \/ Len(t) <= limit)
      BY <1>2, <2>1
    <3>. HIDE DEF cut
    <3>. QED BY <3>10, <3>11, Zenon DEF Script!TruncatesWell, said
  <2>. QED BY <2>4, <2>5
<1>. QED BY <1>1, <1>2
=============================================================================
