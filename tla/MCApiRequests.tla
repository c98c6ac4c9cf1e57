----------------------------- MODULE MCApiRequests -----------------------------
(* A small instance of the request handling for TLC.                          *)
EXTENDS ApiRequests

Speak(wait, interrupt) == [op |-> "speak", wait |-> wait, interrupt |-> interrupt]

MCHttpKinds == {Speak(FALSE, TRUE), Speak(TRUE, FALSE), Speak(TRUE, TRUE)} \cup Asking({"stop", "read", "look"})

MCSocketKinds == {Speak(TRUE, FALSE)} \cup Asking({"stop", "look"})
=============================================================================
