------------------------------- MODULE Chunking -------------------------------
(***************************************************************************)
(* core/chunking.py and SpeechService._plan_chunks: how a text is split    *)
(* into the chunks that are synthesized and played one by one.             *)
(*                                                                         *)
(* A text is a sequence of characters, one per class that the code tells   *)
(* apart: "." for the terminators . ! ? and the ellipsis, " " for the      *)
(* space, "n" for the newline, "t" for all other white space (tabs, form   *)
(* feeds, no-break spaces), letters, "1" for the characters of a word that *)
(* are no letters, "," for everything else; "dr" stands for the            *)
(* abbreviations.  All three kinds of white space are white for \s and     *)
(* strip(), only the space for rfind(" "), only the newline for $.  A      *)
(* slice of the text is the pair of the positions of its first and its     *)
(* last character.                                                         *)
(*                                                                         *)
(* A definition marked "Mutant" is not part of the model: it is a bug that *)
(* the definition after it could have had, and that a property catches.    *)
(***************************************************************************)
EXTENDS Integers, Sequences, FiniteSetsExt

CONSTANTS
    MaxChars,       \* MAX_CHUNK_CHARS
    MinChars,       \* speech.chunking.min_chars
    MaxText         \* bound: the length of the texts

ASSUME MaxCharsAssumption == MaxChars \in Nat \ {0}
ASSUME MinCharsAssumption == MinChars \in Nat \ {0}
ASSUME MaxTextAssumption == MaxText \in Nat

VARIABLES
    text,
    enabled,        \* speech.chunking.enabled
    stage,          \* the loop that runs
    at,             \* where the last match of finditer ended
    start,          \* where the last sentence ended
    pieces,         \* the sentences found, less those the second loop has done
    rest,           \* the piece of _hard_split: one slice, or none when it is empty
    chunks,         \* what is returned
    turns           \* ghost: the steps taken so far

planVars == <<text, enabled, stage, at, start, pieces, rest, chunks>>

Letters == {"d", "r"}
White == {" ", "n", "t"}
Word == Letters \cup {"1"}
Characters == Word \cup White \cup {".", ","}

Abbreviations == {<<"d", "r">>}

-----------------------------------------------------------------------------

\* The characters of s from position a to b that are not white space.
Ink(s, a, b) == {i \in a..b : s[i] \notin White}

\* s[a:b].strip(): one slice, or none if it is empty.
Stripped(s, a, b) ==
    IF Ink(s, a, b) = {} THEN <<>> ELSE <<<<Min(Ink(s, a, b)), Max(Ink(s, a, b))>>>>

Size(slice) == slice[2] - slice[1] + 1

Whole == <<1, Len(text)>>

\* _BOUNDARY: the runs of terminators before white space or the end.
Boundaries(s) ==
    {b \in (1..Len(s)) \X (1..Len(s)) :
        /\ b[1] <= b[2]
        /\ \A k \in b[1]..b[2] : s[k] = "."
        /\ b[1] = 1 \/ s[b[1] - 1] # "."
        /\ b[2] = Len(s) \/ s[b[2] + 1] \in White}

\* _TRAILING_WORD: the word that ends at position b, or before a newline there.
TrailingWord(s, b) ==
    LET end == IF b > 0 /\ s[b] = "n" THEN b - 1 ELSE b
        starts == {i \in 1..end : \A k \in i..end : s[k] \in Word}
    IN  IF starts = {} THEN <<>> ELSE SubSeq(s, Min(starts), end)

\* Mutant: initials are not guarded.
AbbreviationsOnly(s, first) == TrailingWord(s, first - 1) \notin Abbreviations

\* _is_real_boundary: not after an abbreviation or an initial.
IsRealBoundary(s, first) ==
    LET word == TrailingWord(s, first - 1)
    IN  /\ word \notin Abbreviations
        /\ ~(Len(word) = 1 /\ word[1] \in Letters)

\* Where the sentence after the boundary b starts: match.end().
AfterMatch(b) == b[2]

\* Mutant: a piece without a space in reach is not cut at all.
CutNowhere(s, first) ==
    LET spaces == {i \in first + 1..first + MaxChars - 1 : s[i] = " "}
    IN  IF spaces = {} THEN first ELSE Max(spaces)

\* piece.rfind(" ", 0, max_chars): the position after the part to cut off.
Cut(s, first) ==
    LET spaces == {i \in first + 1..first + MaxChars - 1 : s[i] = " "}
    IN  IF spaces = {} THEN first + MaxChars ELSE Max(spaces)

-----------------------------------------------------------------------------

PlanInit ==
    /\ \E n \in 0..MaxText : text \in [1..n -> Characters]
    /\ enabled \in BOOLEAN
    /\ stage = "plan"
    /\ at = 0 /\ start = 0
    /\ pieces = <<>> /\ rest = <<>> /\ chunks = <<>>

\* Too short, disabled, or (in split_into_chunks) nothing but white space.
KeepWhole ==
    /\ stage = "plan"
    /\ ~enabled \/ Len(text) < MinChars \/ Ink(text, 1, Len(text)) = {}
    /\ chunks' = <<Whole>>
    /\ stage' = "done"
    /\ UNCHANGED <<text, enabled, at, start, pieces, rest>>

Begin ==
    /\ stage = "plan"
    /\ enabled /\ Len(text) >= MinChars /\ Ink(text, 1, Len(text)) # {}
    /\ stage' = "sentences"
    /\ UNCHANGED <<text, enabled, at, start, pieces, rest, chunks>>

\* One step of finditer: the first boundary after the last.
NextMatch ==
    /\ stage = "sentences"
    /\ \E b \in Boundaries(text) :
          /\ at < b[1]
          /\ \A c \in Boundaries(text) : at < c[1] => b[1] <= c[1]
          /\ at' = b[2]
          /\ \/ /\ IsRealBoundary(text, b[1])
                /\ pieces' = pieces \o Stripped(text, start + 1, b[2])
                /\ start' = AfterMatch(b)
             \/ /\ ~IsRealBoundary(text, b[1])
                /\ UNCHANGED <<pieces, start>>
    /\ UNCHANGED <<text, enabled, stage, rest, chunks>>

NoMatch ==
    /\ stage = "sentences"
    /\ \A b \in Boundaries(text) : b[1] <= at
    /\ stage' = "pieces"

\* Mutant: what follows the last terminator is forgotten.
LastMatch == NoMatch /\ UNCHANGED <<text, enabled, at, start, pieces, rest, chunks>>

\* The rest of the text is the last piece.
TakeTail ==
    /\ NoMatch
    /\ pieces' = pieces \o Stripped(text, start + 1, Len(text))
    /\ UNCHANGED <<text, enabled, at, start, rest, chunks>>

ShortPiece ==
    /\ stage = "pieces" /\ pieces # <<>>
    /\ Size(Head(pieces)) <= MaxChars
    /\ chunks' = Append(chunks, Head(pieces))
    /\ pieces' = Tail(pieces)
    /\ UNCHANGED <<text, enabled, stage, at, start, rest>>

LongPiece ==
    /\ stage = "pieces" /\ pieces # <<>>
    /\ Size(Head(pieces)) > MaxChars
    /\ rest' = <<Head(pieces)>>
    /\ pieces' = Tail(pieces)
    /\ stage' = "hard"
    /\ UNCHANGED <<text, enabled, at, start, chunks>>

TooLong == rest # <<>> /\ Size(rest[1]) > MaxChars

\* One turn of the loop of _hard_split.
HardCut ==
    /\ stage = "hard" /\ TooLong
    /\ LET first == rest[1][1]
           cut == Cut(text, first)
       IN  /\ chunks' = chunks \o Stripped(text, first, cut - 1)
           /\ rest' = Stripped(text, cut, rest[1][2])
    /\ UNCHANGED <<text, enabled, stage, at, start, pieces>>

\* The end of _hard_split: what is left is short enough.
HardEnd ==
    /\ stage = "hard" /\ ~TooLong
    /\ chunks' = chunks \o rest
    /\ rest' = <<>>
    /\ stage' = "pieces"
    /\ UNCHANGED <<text, enabled, at, start, pieces>>

\* The end of split_into_chunks, and "or [text]".
SplitEnd ==
    /\ stage = "pieces" /\ pieces = <<>>
    /\ chunks' = IF chunks = <<>> THEN <<Whole>> ELSE chunks
    /\ stage' = "done"
    /\ UNCHANGED <<text, enabled, at, start, pieces, rest>>

PlanNext ==
    \/ KeepWhole \/ Begin
    \/ NextMatch \/ TakeTail
    \/ ShortPiece \/ LongPiece \/ HardCut \/ HardEnd \/ SplitEnd

\* A step that changes nothing else, as the turn of a loop that does not get on, is
\* counted too.
Turn == PlanNext /\ turns' = turns + 1

PlanSpec == PlanInit /\ turns = 0 /\ [][Turn]_<<planVars, turns>>

-----------------------------------------------------------------------------
(* What is promised of a text s and its chunks cs *)

In(i, slice) == slice[1] <= i /\ i <= slice[2]

Slices(s) == (1..Len(s) + 1) \X (0..Len(s))

\* Nothing is lost, said twice or said in another order.
SayAll(s, cs) ==
    /\ \A i \in Ink(s, 1, Len(s)) : \E k \in DOMAIN cs : In(i, cs[k])
    /\ \A k, l \in DOMAIN cs : k < l => cs[k][2] < cs[l][1]

Within(s, slice) ==
    /\ Size(slice) \in 1..MaxChars
    /\ s[slice[1]] \notin White /\ s[slice[2]] \notin White

\* No chunk is longer than the limit or begins or ends with white space, unless
\* the text was not split.
KeepLimit(s, cs) == \A k \in DOMAIN cs : Within(s, cs[k])

\* The words of a text: the longest slices without white space.
IsWord(s, w) ==
    /\ w[1] <= w[2]
    /\ \A k \in w[1]..w[2] : s[k] \notin White
    /\ w[1] = 1 \/ s[w[1] - 1] \in White
    /\ w[2] = Len(s) \/ s[w[2] + 1] \in White

\* "Hard-splitting at the last space before the limit (or mid-word only when
\* there is no space at all)": a word that fits a chunk and begins the text or
\* comes after a space is never cut.
KeepWords(s, cs) ==
    \A w \in (1..Len(s)) \X (1..Len(s)) :
        IsWord(s, w) /\ Size(w) <= MaxChars /\ (w[1] = 1 \/ s[w[1] - 1] = " ")
        => \E k \in DOMAIN cs : In(w[1], cs[k]) /\ In(w[2], cs[k])

\* The word from position u to v is an abbreviation or an initial.
Guards(s, u, v) ==
    /\ \A k \in u..v : s[k] \in Word
    /\ u = 1 \/ s[u - 1] \notin Word
    /\ SubSeq(s, u, v) \in Abbreviations \/ (u = v /\ s[u] \in Letters)

\* The positions at which sentences end: at a terminator before white space or
\* the end, unless it and the terminators before it follow a guarded word.
EndsSentence(s, j) ==
    /\ s[j] = "."
    /\ j = Len(s) \/ s[j + 1] \in White
    /\ ~ \E i \in 1..j : /\ \A k \in i..j : s[k] = "."
                         /\ \E u \in 1..i - 1 : Guards(s, u, i - 1)

SentenceEnds(s) == {j \in 1..Len(s) : EndsSentence(s, j)}

\* The text after d and up to e is a sentence.
IsSentence(s, d, e) ==
    /\ d < e
    /\ d = 0 \/ d \in SentenceEnds(s)
    /\ e = Len(s) \/ e \in SentenceEnds(s)
    /\ \A j \in d + 1..e - 1 : j \notin SentenceEnds(s)

\* Sentences are neither glued nor broken: no chunk goes past the end of one, and
\* one that fits is a chunk.
KeepSentences(s, cs) ==
    /\ \A k \in DOMAIN cs : \A j \in SentenceEnds(s) : In(j, cs[k]) => j = cs[k][2]
    /\ \A d \in 0..Len(s), e \in 1..Len(s) :
          IsSentence(s, d, e)
          => LET sentence == Stripped(s, d + 1, e)
             IN  sentence # <<>> /\ Size(sentence[1]) <= MaxChars
                 => \E k \in DOMAIN cs : cs[k] = sentence[1]

\* No terminator is the first character of a line.
StopsInLine(s) == \A i \in 1..Len(s) - 1 : s[i] = "n" => s[i + 1] # "."

-----------------------------------------------------------------------------
(* Properties *)

PlanTypeOK ==
    /\ text \in Seq(Characters) /\ Len(text) <= MaxText
    /\ enabled \in BOOLEAN
    /\ stage \in {"plan", "sentences", "pieces", "hard", "done"}
    /\ at \in 0..Len(text) /\ start \in 0..Len(text)
    /\ pieces \in Seq(Slices(text))
    /\ rest \in Seq(Slices(text)) /\ Len(rest) <= 1
    /\ chunks \in Seq(Slices(text))

Done == stage = "done"
WasSplit == enabled /\ Len(text) >= MinChars /\ Ink(text, 1, Len(text)) # {}

\* What is played says the whole text, once and in order, and every text that is
\* accepted has something to play; the chunks of a text that is split keep the
\* limit, and have something to say.
TextIsSaid ==
    Done => /\ SayAll(text, chunks)
            /\ chunks # <<>>
            /\ WasSplit => KeepLimit(text, chunks)

\* A text is cut where a reader would pause: between its sentences, or else
\* between its words.  Two things are excepted.  The code, against its docstring,
\* cuts at spaces and at no other white space (chunking.py:105), so that a word may
\* be cut that a tab or a newline is before.  And it takes a terminator that begins
\* a line for one that is next to the last word of the line before (47).
CutsAreNatural ==
    Done /\ WasSplit =>
        /\ KeepWords(text, chunks)
        /\ StopsInLine(text) => KeepSentences(text, chunks)

\* Where what is left for the second loop begins: the piece r of _hard_split, or
\* the pieces q, of a text of n characters.
Left(r, q, n) ==
    IF r # <<>> THEN r[1][1] ELSE IF q # <<>> THEN q[1][1] ELSE n + 1

\* What is left to do: three for a character of what is left, with which a turn of
\* _hard_split is paid, its beginning and its end.
Work ==
    LET left == 3 * (Len(text) + 1 - Left(rest, pieces, Len(text)))
    IN  CASE stage = "plan" -> 4 * Len(text) + 4
          [] stage = "sentences" -> 4 * Len(text) + 3 - at
          [] stage = "pieces" -> left + 1
          [] stage = "hard" -> IF rest = <<>> THEN left + 2 ELSE left
          [] stage = "done" -> 0

\* No loop turns for ever, that of _hard_split neither, whatever the text and the
\* limit: the turns of them all are bounded by the length of the text.
LoopsEnd == turns <= 4 * Len(text) + 4
=============================================================================
