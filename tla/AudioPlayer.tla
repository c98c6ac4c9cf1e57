----------------------------- MODULE AudioPlayer -----------------------------
(***************************************************************************)
(* What the playback queue may assume of an audio output backend: the      *)
(* contract of interfaces.AudioPlayer.  play() occupies the single session *)
(* until the clip ends, stop() was called from another thread, or playback *)
(* proves impossible.  CommandPlayer.tla shows that the subprocess player  *)
(* keeps this contract.                                                    *)
(***************************************************************************)

VARIABLE session    \* "idle": no play() is under way; "playing": a clip is
                    \* playing; "stopped": stop() has reached that clip

\* play() takes the session.
Play == session = "idle" /\ session' = "playing"

\* stop() interrupts the clip now playing, if any; otherwise it does nothing.
Stop == session' = IF session = "playing" THEN "stopped" ELSE session

\* play() returns True: the clip ended and no stop() reached it before.
Completed == session = "playing" /\ session' = "idle"

\* play() returns False: stop() reached the clip.
Interrupted == session = "stopped" /\ session' = "idle"

\* play() raises: the output command is missing, exits badly, the temporary
\* file cannot be written...  This can happen to a stopped clip as well.
Raised == session # "idle" /\ session' = "idle"

Init == session = "idle"

Next == Play \/ Stop \/ Completed \/ Interrupted \/ Raised

Spec == Init /\ [][Next]_session
=============================================================================
