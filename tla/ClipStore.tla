------------------------------- MODULE ClipStore -------------------------------
(***************************************************************************)
(* What SpeechService may assume of its cache of clips: a function that    *)
(* forgets.  get() and put() of a key are atomic, whichever threads call   *)
(* them; a lookup may miss what is there, and a put() may fail and change  *)
(* nothing; any clip may be lost at any time; and what a lookup does       *)
(* return is the whole clip that was put last under its key, in this or in *)
(* an earlier run of the gateway.  SynthesisCacheProofs shows that the     *)
(* cache keeps this contract; CachedSynthesis relies on it.                *)
(***************************************************************************)

CONSTANTS
    Keys,           \* the keys of clips
    Clips,          \* the clips that providers make, all of them whole
    NoClip          \* nothing was served

VARIABLES
    clips,          \* a function from some keys to clips
    served          \* the clip that the last hit returned

Init == clips = [k \in {} |-> NoClip] /\ served = NoClip

\* get() returns a clip.
Serve(k) ==
    /\ k \in DOMAIN clips
    /\ served' = clips[k]
    /\ UNCHANGED clips

\* put() replaces what is there.
Store(k, c) ==
    /\ clips' = [x \in DOMAIN clips \cup {k} |-> IF x = k THEN c ELSE clips[x]]
    /\ UNCHANGED served

\* The clip of k, if there is one, is evicted or its file is gone.
Lose(k) ==
    /\ clips' = [x \in DOMAIN clips \ {k} |-> clips[x]]
    /\ UNCHANGED served

\* The gateway starts again with what is on the disk.
Restart == served' = NoClip /\ UNCHANGED clips

Next ==
    \/ \E k \in Keys : Serve(k) \/ Lose(k) \/ \E c \in Clips : Store(k, c)
    \/ Restart

Spec == Init /\ [][Next]_<<clips, served>>
=============================================================================
