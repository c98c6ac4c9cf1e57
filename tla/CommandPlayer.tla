---------------------------- MODULE CommandPlayer ----------------------------
(***************************************************************************)
(* players/command.py: playback by an external command.  The worker thread *)
(* calls play() for one clip after the other; any other thread may call    *)
(* stop() (or close(), which is the same) at any moment.  Each play() has  *)
(* its own _PlaySession, through which a stop reaches exactly that clip.   *)
(*                                                                         *)
(* The subprocess is external: a command, and perhaps a child that it      *)
(* started (the command may be a shell wrapper), which inherits its error  *)
(* pipe and its process group.  Each may end at any time, the command well *)
(* or badly, may ignore SIGTERM, and may never end unless it is killed.    *)
(*                                                                         *)
(* A definition marked "Mutant" is not part of the model: it is a bug that *)
(* the definition after it could have had, and that a property catches.    *)
(***************************************************************************)
EXTENDS Naturals

CONSTANTS
    Stoppers,       \* the threads that call stop()
    MaxClips        \* bound: how many clips are played

ASSUME ClipsAssumption == MaxClips \in Nat \ {0}

VARIABLES
    ppc,            \* where the worker is inside play()
    verdict,        \* what play() will return: "true", "false" or "raised"
    clipNo,         \* the number of the session now, or last, in play()
    registered,     \* CommandPlayer._session: a session number, 0 for None
    stopped,        \* _PlaySession.stopped, per session
    process,        \* _PlaySession._process, per session: "none", "running",
                    \* or its exit: "ok" (status 0) or "bad"
    child,          \* a child of the command still holds the pipe, per session
    reaped,         \* the exit of the command was collected (returncode is set)
    files,          \* the temporary files that exist, by session
    unwritten,      \* history: the sessions whose file was created and could
                    \* not be written
    tempPath,       \* the local temp_path is set
    spc,            \* where each stopper is inside stop()
    target          \* the session each stopper read, 0 for none

fileVars == <<files, unwritten, tempPath>>
group == <<process, child, reaped>>     \* the process group, and what is known of it
playVars == <<ppc, verdict, clipNo, registered, fileVars>>
stopVars == <<spc, target>>
vars == <<playVars, stopped, group, stopVars>>

Sessions == 1..MaxClips
Exited(s) == process[s] \in {"ok", "bad"}

Init ==
    /\ ppc = "idle" /\ verdict = "none" /\ clipNo = 0 /\ registered = 0
    /\ stopped = [s \in Sessions |-> FALSE]
    /\ process = [s \in Sessions |-> "none"]
    /\ child = [s \in Sessions |-> FALSE]
    /\ reaped = [s \in Sessions |-> FALSE]
    /\ files = {} /\ unwritten = {} /\ tempPath = FALSE
    /\ spc = [t \in Stoppers |-> "idle"]
    /\ target = [t \in Stoppers |-> 0]

-----------------------------------------------------------------------------
(* play(), on the worker thread *)

\* Mutant: one session object serves every clip.
SameSession == IF clipNo = 0 THEN 1 ELSE clipNo

FreshSession == clipNo + 1

\* A fresh session becomes the one that stop() will see.  (When no command can
\* play the format, play() raises before it and nothing changes.)
Register ==
    /\ ppc = "idle" /\ clipNo < MaxClips
    /\ clipNo' = FreshSession
    /\ registered' = FreshSession
    /\ ppc' = "prepare" /\ verdict' = "none"
    /\ UNCHANGED <<stopped, group, fileVars, stopVars>>

\* The command reads standard input: no file is needed.
PrepareStdin ==
    /\ ppc = "prepare"
    /\ ppc' = "launch"
    /\ UNCHANGED <<verdict, clipNo, registered, stopped, group, fileVars, stopVars>>

\* The clip is written to a temporary file that outlives its handle.
PrepareFile ==
    /\ ppc = "prepare"
    /\ files' = files \cup {clipNo}
    /\ tempPath' = TRUE
    /\ ppc' = "launch"
    /\ UNCHANGED <<verdict, clipNo, registered, unwritten, stopped, group, stopVars>>

\* The file cannot be created, or is created and cannot be written in full: as
\* temp_path is assigned only after the write, that file is never removed.
PrepareFails ==
    /\ ppc = "prepare"
    /\ \E left \in SUBSET {clipNo} :
          files' = files \cup left /\ unwritten' = unwritten \cup left
    /\ ppc' = "cleanup" /\ verdict' = "raised"
    /\ UNCHANGED <<clipNo, registered, tempPath, stopped, group, stopVars>>

\* _PlaySession.launch holds the session's lock: either it sees stopped, or a
\* later stop() sees the process.
LaunchStopped ==
    /\ ppc = "launch" /\ stopped[clipNo]
    /\ ppc' = "cleanup" /\ verdict' = "false"
    /\ UNCHANGED <<clipNo, registered, fileVars, stopped, group, stopVars>>

\* (A child that is started later makes no difference: as long as the command
\* runs it holds the pipe itself.)
Launch ==
    /\ ppc = "launch" /\ ~stopped[clipNo]
    /\ process' = [process EXCEPT ![clipNo] = "running"]
    /\ \E wrapper \in BOOLEAN : child' = [child EXCEPT ![clipNo] = wrapper]
    /\ ppc' = "communicate"
    /\ UNCHANGED <<verdict, clipNo, registered, fileVars, stopped, reaped, stopVars>>

LaunchRaises ==
    /\ ppc = "launch" /\ ~stopped[clipNo]
    /\ ppc' = "cleanup" /\ verdict' = "raised"
    /\ UNCHANGED <<clipNo, registered, fileVars, stopped, group, stopVars>>

\* communicate() reads the error pipe to its end, which comes when nobody of the
\* group holds it any more, and then waits for the command.
Over == Exited(clipNo) /\ ~child[clipNo]

\* Mutant: only the exit status counts, and a stopped player may exit with 0.
ExitStatus == IF process[clipNo] = "bad" THEN "raised" ELSE "true"

\* play() then tells the outcome: False when stopped, an error for a bad exit
\* status, True otherwise.
Outcome == IF stopped[clipNo] THEN "false"
           ELSE IF process[clipNo] = "bad" THEN "raised" ELSE "true"

Communicated ==
    /\ ppc = "communicate" /\ Over
    /\ reaped' = [reaped EXCEPT ![clipNo] = TRUE]
    /\ ppc' = "cleanup" /\ verdict' = Outcome
    /\ UNCHANGED <<clipNo, registered, fileVars, stopped, process, child, stopVars>>

\* Mutant: the file is kept when the clip was stopped.
UnlinkUnlessStopped ==
    files' = IF tempPath /\ ~stopped[clipNo] THEN files \ {clipNo} ELSE files

Unlink == files' = IF tempPath THEN files \ {clipNo} ELSE files

\* The two finally clauses: the file is removed, the session unregistered.
Cleanup ==
    /\ ppc = "cleanup"
    /\ Unlink
    /\ tempPath' = FALSE
    /\ ppc' = "unregister"
    /\ UNCHANGED <<verdict, clipNo, registered, unwritten, stopped, group, stopVars>>

Unregister ==
    /\ ppc = "unregister"
    /\ registered' = IF registered = clipNo THEN 0 ELSE registered
    /\ ppc' = "idle"
    /\ UNCHANGED <<verdict, clipNo, fileVars, stopped, group, stopVars>>

-----------------------------------------------------------------------------
(* stop(), on any thread *)

StopRead(t) ==
    /\ spc[t] = "idle" /\ registered # 0
    /\ target' = [target EXCEPT ![t] = registered]
    /\ spc' = [spc EXCEPT ![t] = "flag"]
    /\ UNCHANGED <<playVars, stopped, group>>

\* What poll() and wait() learn of a command that has exited.
Reap(s) == reaped' = [reaped EXCEPT ![s] = reaped[s] \/ Exited(s)]

Return(t) ==
    /\ spc' = [spc EXCEPT ![t] = "idle"]
    /\ target' = [target EXCEPT ![t] = 0]

\* Under the session's lock stopped is set and the process read.  A command that
\* still runs gets SIGTERM, its whole group with it, and the stopper waits for
\* the command; one that has exited is left alone, and its child as well.
StopFlag(t) ==
    /\ spc[t] = "flag"
    /\ stopped' = [stopped EXCEPT ![target[t]] = TRUE]
    /\ Reap(target[t])
    /\ \/ /\ process[target[t]] = "running"
          /\ spc' = [spc EXCEPT ![t] = "grace"]
          /\ UNCHANGED target
       \/ process[target[t]] # "running" /\ Return(t)
    /\ UNCHANGED <<playVars, process, child>>

\* The command exited in time: no second signal, whatever became of its child.
StopDone(t) ==
    /\ spc[t] = "grace" /\ Exited(target[t])
    /\ Reap(target[t])
    /\ Return(t)
    /\ UNCHANGED <<playVars, stopped, process, child>>

\* The grace period passed and wait() raises.
StopTimeout(t) ==
    /\ spc[t] = "grace" /\ ~Exited(target[t])
    /\ spc' = [spc EXCEPT ![t] = "kill"]
    /\ UNCHANGED <<playVars, stopped, group, target>>

\* Mutant: after the grace period the process is left to itself.
GiveUp(s) == UNCHANGED <<process, child>>

\* SIGKILL cannot be ignored; it reaches the whole group.  The group is looked up
\* through the command: once somebody collected its exit, nobody is killed.
Kill(s) ==
    IF reaped[s] THEN UNCHANGED <<process, child>>
    ELSE /\ process' = [process EXCEPT ![s] = IF Exited(s) THEN process[s] ELSE "bad"]
         /\ child' = [child EXCEPT ![s] = FALSE]

StopKill(t) ==
    /\ spc[t] = "kill"
    /\ Kill(target[t])
    /\ Return(t)
    /\ UNCHANGED <<playVars, stopped, reaped>>

-----------------------------------------------------------------------------
(* The subprocess *)

ProcessEnds(s) ==
    /\ process[s] = "running"
    /\ \E exit \in {"ok", "bad"} : process' = [process EXCEPT ![s] = exit]
    /\ UNCHANGED <<playVars, stopped, child, reaped, stopVars>>

ChildEnds(s) ==
    /\ child[s]
    /\ child' = [child EXCEPT ![s] = FALSE]
    /\ UNCHANGED <<playVars, stopped, process, reaped, stopVars>>

-----------------------------------------------------------------------------

Playing ==
    \/ PrepareStdin \/ PrepareFile \/ PrepareFails
    \/ LaunchStopped \/ Launch \/ LaunchRaises
    \/ Communicated \/ Cleanup \/ Unregister

Stopping(t) == StopFlag(t) \/ StopDone(t) \/ StopTimeout(t) \/ StopKill(t)

Next ==
    \/ Register \/ Playing
    \/ \E t \in Stoppers : StopRead(t) \/ Stopping(t)
    \/ \E s \in Sessions : ProcessEnds(s) \/ ChildEnds(s)

Spec == Init /\ [][Next]_vars

\* The worker and the stoppers are scheduled and the grace period ends; nothing
\* obliges the subprocess to end by itself, nor anybody to call stop().
Fairness == WF_vars(Playing) /\ \A t \in Stoppers : WF_vars(Stopping(t))

FairSpec == Spec /\ Fairness

-----------------------------------------------------------------------------
(* Properties *)

\* Every variable keeps its type, and no session but that of the current clip is
\* ever registered.
TypeOK ==
    /\ ppc \in {"idle", "prepare", "launch", "communicate", "cleanup", "unregister"}
    /\ verdict \in {"none", "true", "false", "raised"}
    /\ clipNo \in 0..MaxClips /\ registered \in {0, clipNo}
    /\ stopped \in [Sessions -> BOOLEAN]
    /\ process \in [Sessions -> {"none", "running", "ok", "bad"}]
    /\ child \in [Sessions -> BOOLEAN] /\ reaped \in [Sessions -> BOOLEAN]
    /\ files \subseteq Sessions /\ unwritten \subseteq Sessions /\ tempPath \in BOOLEAN
    /\ spc \in [Stoppers -> {"idle", "flag", "grace", "kill"}]
    /\ target \in [Stoppers -> 0..MaxClips]

\* The session as a caller of the AudioPlayer interface sees it: from the
\* registration until play() has decided what it returns.
absSession ==
    IF ppc \in {"prepare", "launch", "communicate"}
    THEN IF stopped[clipNo] THEN "stopped" ELSE "playing"
    ELSE "idle"

Contract == INSTANCE AudioPlayer WITH session <- absSession

\* The contract of interfaces.AudioPlayer: one clip at a time, every clip starts
\* unstopped, and a stop reaches the clip that plays when it takes effect.
KeepsContract == Contract!Spec

\* "Returns True if the clip played fully, False if it was interrupted by stop":
\* whatever the exit status of a terminated command, play() answers True only
\* for a clip that no stop had reached, and False only for one that a stop had.
TellsTheTruth ==
    [][/\ verdict' = "true" /\ verdict # "true" => Contract!Completed
       /\ verdict' = "false" /\ verdict # "false" => Contract!Interrupted]_vars

\* When play() has returned the sound has: neither the command of an earlier clip
\* nor its child still runs, so that two clips never sound together.
SilentBetweenClips ==
    \A s \in Sessions : process[s] = "running" \/ child[s] =>
        ppc = "communicate" /\ s = clipNo

\* On any way out (normal end, bad exit status, failed launch, stop before or
\* after the launch, kill) play() removes the temporary file, unless it failed
\* to write it.
FileRemoved == ppc \in {"unregister", "idle"} => files \subseteq unwritten

\* A stop that comes between clips finds no session that it would flag in vain.
SessionUnregistered == ppc = "idle" => registered = 0

\* Between clips nothing is left of the last one: no process of its group, no
\* file that was written, no session.
LeavesNothing ==
    TypeOK /\ SilentBetweenClips /\ FileRemoved /\ SessionUnregistered

\* The child of the clip now playing has outlived its command.
ChildOutlives == Exited(clipNo) /\ child[clipNo]

\* A stopped clip ends although its command ignores SIGTERM and would never end
\* by itself, and although the stop may come before the launch.  The one thing
\* that can keep play() in communicate() is a child that outlives its command:
\* stop() waits for the command only, and sends no second signal to a group
\* whose command has exited.
StopEndsPlay ==
    (absSession = "stopped") ~> (absSession # "stopped" \/ ChildOutlives)
=============================================================================
