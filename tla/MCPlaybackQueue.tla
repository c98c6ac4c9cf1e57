--------------------------- MODULE MCPlaybackQueue ---------------------------
(* Small instances of the playback queue for TLC. *)
EXTENDS PlaybackQueueInvariant, TLC

\* Utterances are interchangeable, and so are API threads.
MCSymmetry == Permutations(Utt) \cup Permutations(Threads)

\* Bound of the progress run: requests overlap when every text is one chunk; texts
\* of several chunks come without short ones, one after the other on one thread.
First == CHOOSE t \in Threads : TRUE
LongTextsAlone ==
    (\E u \in Utt : chunks[u] > 1) =>
        /\ \A u \in Utt : state[u] # "new" => chunks[u] > 1
        /\ \A t \in Threads \ {First} : pc[t] = "idle"

ProgressSpec == Init /\ [][Next /\ LongTextsAlone']_vars /\ Fairness
=============================================================================
