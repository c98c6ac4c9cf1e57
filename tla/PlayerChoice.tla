------------------------------ MODULE PlayerChoice ------------------------------
(***************************************************************************)
(* players/: which player the configuration selects, which command it runs *)
(* for a clip, and what its availability() says.  A machine has a platform *)
(* and the playback commands that are installed; playback.command is unset *)
(* or a command that is on the PATH or is not.                             *)
(***************************************************************************)
EXTENDS Naturals, SequencesExt

Formats == {"wav", "mp3"}
Commands == {"pw-play", "aplay", "afplay", "ffplay"}

Machines ==
    [platform : {"linux", "darwin", "win32"}, installed : SUBSET Commands,
     backend : {"auto", "command", "null"}, command : {"unset", "missing", "present"}]

\* _platform_candidates: what is tried on a platform, best first (one of each kind).
Candidates(platform) ==
    CASE platform = "darwin" -> <<"afplay", "pw-play", "aplay", "ffplay">>
      [] platform = "win32" -> <<"ffplay">>
      [] OTHER -> <<"pw-play", "aplay", "ffplay">>

Plays(command, format) ==
    \/ command = "ffplay" \/ format = "wav"
    \/ command = "afplay" /\ format = "mp3"

\* detect_candidates.
Detected(m) == SelectSeq(Candidates(m.platform), LAMBDA c : c \in m.installed)

\* create_player.
Player(m) ==
    IF m.backend = "null" THEN "null"
    ELSE IF m.backend = "command" /\ m.command = "unset" THEN "ConfigError"
    ELSE IF m.command # "unset" THEN "configured"
    ELSE IF Detected(m) = <<>> /\ m.platform = "win32" THEN "winsound"
    ELSE "detected"

\* _argv_for: the first command that is installed and decodes the format.
Argv(m, format) ==
    LET able == SelectSeq(Detected(m), LAMBDA c : Plays(c, format))
    IN  IF able = <<>> THEN "PlaybackError" ELSE Head(able)

\* Where the clip goes, or the PlaybackError of play().
Plan(m, format) ==
    CASE Player(m) = "null" -> "discarded"
      [] Player(m) = "configured" ->
            IF m.command = "present" THEN "command" ELSE "PlaybackError"
      [] Player(m) = "winsound" -> IF format = "wav" THEN "winsound" ELSE "PlaybackError"
      [] OTHER -> Argv(m, format)

PlayerAvailable(m) ==
    CASE Player(m) = "configured" -> m.command = "present"
      [] Player(m) = "detected" -> Detected(m) # <<>>
      [] OTHER -> TRUE

-----------------------------------------------------------------------------

\* What status reports as playback_available and what play() does with a clip are
\* decided apart.  They agree: a player that is available plays the clips of the
\* local engines (wav), one that is not plays none, no command is given a clip it
\* cannot decode, and a clip of a cloud engine (mp3) only fails for want of a
\* command that decodes it.
PlayerAgrees(m) ==
    Player(m) # "ConfigError" =>
        /\ PlayerAvailable(m) <=> Plan(m, "wav") # "PlaybackError"
        /\ ~PlayerAvailable(m) => Plan(m, "mp3") = "PlaybackError"
        /\ \A f \in Formats : Plan(m, f) \in Commands => Plays(Plan(m, f), f)
        /\ Plan(m, "mp3") = "PlaybackError" /\ Player(m) = "detected" =>
              \A c \in m.installed \cap ToSet(Candidates(m.platform)) : ~Plays(c, "mp3")
=============================================================================
