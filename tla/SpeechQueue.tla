----------------------------- MODULE SpeechQueue -----------------------------
(***************************************************************************)
(* What the playback queue promises its clients, with no threads, locks,   *)
(* events or chunks: accepted utterances wait in submission order, one at  *)
(* a time holds the speaking lane, a stop cancels all that wait in one     *)
(* indivisible step, and an outcome once given never changes.              *)
(***************************************************************************)
EXTENDS Naturals, Sequences

CONSTANTS
    Utt,        \* the utterances
    None,       \* no utterance
    MaxSize     \* how many may wait

VARIABLES
    waiting,    \* the utterances that wait, oldest first
    lane,       \* the utterance being synthesized or spoken, or None
    outcome     \* "new", "pending", or how the utterance ended

absVars == <<waiting, lane, outcome>>

Outcomes == {"finished", "cancelled", "failed"}

Init ==
    /\ waiting = <<>>
    /\ lane = None
    /\ outcome = [u \in Utt |-> "new"]

Accept(u) ==
    /\ outcome[u] = "new"
    /\ Len(waiting) < MaxSize
    /\ waiting' = Append(waiting, u)
    /\ outcome' = [outcome EXCEPT ![u] = "pending"]
    /\ UNCHANGED lane

\* The oldest utterance takes the lane once it is free.
Begin ==
    /\ lane = None /\ waiting # <<>>
    /\ lane' = Head(waiting)
    /\ waiting' = Tail(waiting)
    /\ UNCHANGED outcome

\* The utterance in the lane gets its outcome and leaves.
End ==
    /\ lane # None
    /\ \E o \in Outcomes : outcome' = [outcome EXCEPT ![lane] = o]
    /\ lane' = None
    /\ UNCHANGED waiting

\* Everything that waits is cancelled at once.
CancelWaiting ==
    /\ waiting # <<>>
    /\ waiting' = <<>>
    /\ outcome' = [u \in Utt |->
          IF \E i \in 1..Len(waiting) : waiting[i] = u
          THEN "cancelled" ELSE outcome[u]]
    /\ UNCHANGED lane

Next == (\E u \in Utt : Accept(u)) \/ Begin \/ End \/ CancelWaiting

Spec == Init /\ [][Next]_absVars

\* Every utterance that waits is begun or cancelled, and what began ends.
FairSpec == Spec /\ WF_absVars(Begin) /\ WF_absVars(End)
=============================================================================
