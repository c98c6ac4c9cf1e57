------------------------- MODULE CommandPlayerProofs -------------------------
(***************************************************************************)
(* For any number of stopping threads and of clips: between clips nothing  *)
(* is left of the last one, CommandPlayer implements AudioPlayer, and what *)
(* play() returns is true.                                                 *)
(***************************************************************************)
EXTENDS CommandPlayer, TLAPS

\* The place of the worker determines which session is registered and how far the
\* process and the temporary file of its clip are; later sessions are untouched.
PlayOK ==
    /\ ppc = "idle" => registered = 0
    /\ ppc # "idle" => clipNo \in Sessions /\ registered = clipNo
    /\ ppc \in {"prepare", "launch"} => process[clipNo] = "none"
    /\ ppc = "communicate" => process[clipNo] # "none"
    /\ ppc = "prepare" => clipNo \notin files
    /\ tempPath => ppc \in {"launch", "communicate", "cleanup"}
    /\ \A s \in Sessions : s > clipNo =>
          process[s] = "none" /\ ~stopped[s] /\ s \notin files

\* A file that was written belongs to the current clip, and play() knows the path
\* it must remove.
FilesOK ==
    \A s \in files : s \in unwritten \/ (s = clipNo /\ tempPath)

\* Only a command that has exited is reaped.
ReapedOK == \A s \in Sessions : reaped[s] => Exited(s)

\* A stopper holds a session that has been registered, and waits only for a
\* command that was launched.
StopOK ==
    \A t \in Stoppers : spc[t] # "idle" =>
        /\ target[t] \in 1..clipNo
        /\ spc[t] \in {"grace", "kill"} => process[target[t]] # "none"

\* The inductive invariant.
Inv == TypeOK /\ SilentBetweenClips /\ PlayOK /\ FilesOK /\ ReapedOK /\ StopOK

-----------------------------------------------------------------------------

\* Nothing plays yet.
LEMMA InitInv == Init => Inv
<1> SUFFICES ASSUME Init PROVE Inv
  OBVIOUS
<1> USE ClipsAssumption DEF Init, Sessions
<1>1. TypeOK
  <2>1. /\ stopped \in [Sessions -> BOOLEAN]
        /\ process \in [Sessions -> {"none", "running", "ok", "bad"}]
        /\ child \in [Sessions -> BOOLEAN]
        /\ reaped \in [Sessions -> BOOLEAN]
    OBVIOUS
  <2>2. /\ spc \in [Stoppers -> {"idle", "flag", "grace", "kill"}]
        /\ target \in [Stoppers -> 0..MaxClips]
    BY SMT
  <2>3. /\ clipNo \in 0..MaxClips /\ registered \in {0, clipNo}
        /\ files \subseteq Sessions /\ unwritten \subseteq Sessions
    BY SMT
  <2>. QED BY <2>1, <2>2, <2>3 DEF TypeOK
<1>2. SilentBetweenClips /\ PlayOK /\ FilesOK /\ ReapedOK /\ StopOK
  BY SMT DEF SilentBetweenClips, PlayOK, FilesOK, ReapedOK, StopOK
<1>. QED BY <1>1, <1>2 DEF Inv

\* The steps of play().
LEMMA PlayKeeps ==
  ASSUME Inv, Register \/ Playing
  PROVE  Inv'
<1> USE ClipsAssumption DEF Inv, TypeOK, SilentBetweenClips, PlayOK, FilesOK, ReapedOK,
        StopOK, Sessions, Exited, fileVars, group, stopVars
<1>1. CASE Register
  BY <1>1, SMT DEF Register, FreshSession
<1>2. CASE PrepareStdin
  BY <1>2, SMT DEF PrepareStdin
<1>3. CASE PrepareFile
  BY <1>3, SMT DEF PrepareFile
<1>4. CASE PrepareFails
  <2>1. PICK left \in SUBSET {clipNo} :
           files' = files \cup left /\ unwritten' = unwritten \cup left
    BY <1>4 DEF PrepareFails
  <2>2. /\ ppc = "prepare" /\ ppc' = "cleanup" /\ verdict' = "raised"
        /\ UNCHANGED <<clipNo, registered, tempPath, stopped, process, child, reaped, spc, target>>
    BY <1>4 DEF PrepareFails
  <2>. QED BY <2>1, <2>2, SMT
<1>5. CASE LaunchStopped
  BY <1>5, SMT DEF LaunchStopped
<1>6. CASE Launch
  BY <1>6, SMT DEF Launch
<1>7. CASE LaunchRaises
  BY <1>7, SMT DEF LaunchRaises
<1>8. CASE Communicated
  BY <1>8, SMT DEF Communicated, Over, Outcome
<1>9. CASE Cleanup
  <2>1. /\ files' \subseteq files
        /\ clipNo \in files' => ~tempPath
    BY <1>9, SMT DEF Cleanup, Unlink
  <2>2. /\ ppc = "cleanup" /\ ppc' = "unregister" /\ tempPath' = FALSE
        /\ UNCHANGED <<verdict, clipNo, registered, unwritten, stopped, process, child,
                       reaped, spc, target>>
    BY <1>9 DEF Cleanup
  <2>3. TypeOK'
    <3>1. files' \subseteq Sessions /\ tempPath' \in BOOLEAN
      BY <2>1, <2>2
    <3>. QED BY <2>2, <3>1, Zenon
  <2>6. SilentBetweenClips' /\ ReapedOK' /\ StopOK'
    BY <2>2, Zenon
  <2>4. PlayOK'
    <3>1. \A s \in Sessions : s > clipNo => ~stopped'[s]
      BY <2>2
    <3>. QED BY <2>1, <2>2, <3>1, SMT
  <2>5. FilesOK'
    BY <2>1, <2>2, SMT
  <2>. QED BY <2>3, <2>4, <2>5, <2>6
<1>10. CASE Unregister
  BY <1>10, SMT DEF Unregister
<1>. QED
  BY <1>1, <1>2, <1>3, <1>4, <1>5, <1>6, <1>7, <1>8, <1>9, <1>10 DEF Playing

\* The steps of stop() and of the subprocess.
LEMMA StopKeeps ==
  ASSUME Inv,
         \/ \E t \in Stoppers : StopRead(t) \/ Stopping(t)
         \/ \E s \in Sessions : ProcessEnds(s) \/ ChildEnds(s)
  PROVE  Inv'
<1> USE ClipsAssumption DEF Inv, TypeOK, SilentBetweenClips, PlayOK, FilesOK, ReapedOK,
        StopOK, Sessions, Exited, playVars, fileVars, group, stopVars
<1>1. ASSUME NEW t \in Stoppers, StopRead(t)
      PROVE  Inv'
  BY <1>1, SMT DEF StopRead
<1>2. ASSUME NEW t \in Stoppers, StopFlag(t)
      PROVE  Inv'
  <2>1. /\ stopped' = [stopped EXCEPT ![target[t]] = TRUE]
        /\ target[t] \in 1..clipNo
        /\ UNCHANGED <<ppc, verdict, clipNo, registered, process, child, files, unwritten, tempPath>>
    BY <1>2, SMT DEF StopFlag
  <2>2. /\ spc' \in [Stoppers -> {"idle", "flag", "grace", "kill"}]
        /\ target' \in [Stoppers -> 0..MaxClips]
    <3>1. CASE process[target[t]] = "running"
      BY <1>2, <3>1, Zenon DEF StopFlag
    <3>2. CASE process[target[t]] # "running"
      <4>1. 0 \in 0..MaxClips
        BY SMT
      <4>. QED BY <1>2, <3>2, <4>1, Zenon DEF StopFlag, Return
    <3>. QED BY <3>1, <3>2
  <2>3. StopOK'
    BY <1>2, <2>1, SMT DEF StopFlag, Return
  <2>7. reaped' \in [Sessions -> BOOLEAN] /\ ReapedOK'
    <3>1. target[t] \in Sessions
      BY <2>1, SMT
    <3>2. reaped' = [reaped EXCEPT ![target[t]] = reaped[target[t]] \/ Exited(target[t])]
      BY <1>2 DEF StopFlag, Reap
    <3>3. reaped' \in [Sessions -> BOOLEAN]
      BY <3>1, <3>2
    <3>4. ASSUME NEW s \in Sessions, reaped'[s] PROVE Exited(s)
      BY <3>1, <3>2, <3>4
    <3>. QED BY <2>1, <3>3, <3>4
  <2>4. TypeOK'
    <3>1. stopped' \in [Sessions -> BOOLEAN]
      BY <2>1
    <3>. QED BY <2>1, <2>2, <2>7, <3>1, Zenon
  <2>5. PlayOK'
    <3>1. \A s \in Sessions : s > clipNo => stopped'[s] = stopped[s]
      <4>1. \A s \in Sessions : s > clipNo => s # target[t]
        BY <2>1, SMT
      <4>. QED BY <2>1, <4>1, Zenon
    <3>2. \A s \in Sessions : s > clipNo => ~stopped'[s]
      BY <3>1, Zenon
    <3>. QED BY <2>1, <3>2, Zenon
  <2>6. SilentBetweenClips' /\ FilesOK'
    BY <2>1
  <2>. QED BY <2>3, <2>4, <2>5, <2>6, <2>7
<1>3. ASSUME NEW t \in Stoppers, StopDone(t)
      PROVE  Inv'
  BY <1>3, SMT DEF StopDone, Reap, Return
<1>4. ASSUME NEW t \in Stoppers, StopTimeout(t)
      PROVE  Inv'
  BY <1>4, SMT DEF StopTimeout
<1>5. ASSUME NEW t \in Stoppers, StopKill(t)
      PROVE  Inv'
  <2>1. /\ target[t] \in Sessions /\ process[target[t]] # "none"
        /\ UNCHANGED <<ppc, verdict, clipNo, registered, stopped, files, unwritten, tempPath, reaped>>
        /\ spc' = [spc EXCEPT ![t] = "idle"] /\ target' = [target EXCEPT ![t] = 0]
    BY <1>5, SMT DEF StopKill, Return
  <2>2. CASE reaped[target[t]]
    <3>1. UNCHANGED <<process, child>>
      BY <1>5, <2>2 DEF StopKill, Kill
    <3>. QED BY <2>1, <3>1, SMT
  <2>3. CASE ~reaped[target[t]]
    <3>1. /\ process' = [process EXCEPT ![target[t]] =
                             IF Exited(target[t]) THEN process[target[t]] ELSE "bad"]
          /\ child' = [child EXCEPT ![target[t]] = FALSE]
      BY <1>5, <2>3 DEF StopKill, Kill
    <3>2. /\ process' \in [Sessions -> {"none", "running", "ok", "bad"}]
          /\ child' \in [Sessions -> BOOLEAN]
          /\ process'[target[t]] # "none"
          /\ \A s \in Sessions : s # target[t] => process'[s] = process[s]
          /\ \A s \in Sessions : child'[s] => child[s]
          /\ \A s \in Sessions : process'[s] = "running" => process[s] = "running"
          /\ \A s \in Sessions : Exited(s) => process'[s] = process[s]
      BY <2>1, <3>1, SMT
    <3>. QED BY <2>1, <3>2, SMT
  <2>. QED BY <2>2, <2>3
<1>6. ASSUME NEW s \in Sessions, ProcessEnds(s)
      PROVE  Inv'
  BY <1>6, SMT DEF ProcessEnds
<1>7. ASSUME NEW s \in Sessions, ChildEnds(s)
      PROVE  Inv'
  BY <1>7, SMT DEF ChildEnds
<1>. QED
  BY <1>1, <1>2, <1>3, <1>4, <1>5, <1>6, <1>7 DEF Stopping

\* Every step is one of play(), of stop() or of the subprocess.
LEMMA NextKeeps == Inv /\ [Next]_vars => Inv'
<1> SUFFICES ASSUME Inv, [Next]_vars PROVE Inv'
  OBVIOUS
<1>1. CASE UNCHANGED vars
  BY <1>1 DEF vars, playVars, fileVars, group, stopVars, Inv, TypeOK, SilentBetweenClips,
              PlayOK, FilesOK, ReapedOK, StopOK, Exited
<1>2. CASE Next
  BY <1>2, PlayKeeps, StopKeeps DEF Next
<1>. QED BY <1>1, <1>2

\* The inductive invariant holds of every instance.
THEOREM Invariance == Spec => []Inv
  BY InitInv, NextKeeps, PTL DEF Spec

\* Between clips nothing is left of the last one: neither its command nor a child
\* of it runs on, no file that was written stays, no session stays registered.
THEOREM LeavesNothingHolds == Spec => []LeavesNothing
<1>1. Inv => LeavesNothing
  BY SMT DEF Inv, LeavesNothing, FileRemoved, SessionUnregistered, FilesOK, PlayOK, TypeOK
<1>. QED BY <1>1, Invariance, PTL

-----------------------------------------------------------------------------
(* The contract of AudioPlayer *)

\* What the steps of play() do to the session as a caller sees it, and what they
\* then tell.
LEMMA PlayRefines ==
  ASSUME Inv, Register \/ Playing
  PROVE  /\ Contract!Next \/ UNCHANGED absSession
         /\ verdict' = "true" /\ verdict # "true" => Contract!Completed
         /\ verdict' = "false" /\ verdict # "false" => Contract!Interrupted
<1> USE ClipsAssumption DEF Inv, TypeOK, PlayOK, Sessions, absSession, Contract!Next,
        Contract!Play, Contract!Completed, Contract!Interrupted, Contract!Raised
<1>1. CASE Register
  BY <1>1, SMT DEF Register, FreshSession
<1>2. CASE PrepareStdin \/ PrepareFile \/ Launch
  BY <1>2, SMT DEF PrepareStdin, PrepareFile, Launch
<1>3. CASE PrepareFails
  BY <1>3, SMT DEF PrepareFails
<1>4. CASE LaunchStopped
  BY <1>4, SMT DEF LaunchStopped
<1>5. CASE LaunchRaises
  BY <1>5, SMT DEF LaunchRaises
<1>6. CASE Communicated
  BY <1>6, SMT DEF Communicated, Outcome
<1>7. CASE Cleanup \/ Unregister
  BY <1>7, SMT DEF Cleanup, Unregister
<1>. QED
  BY <1>1, <1>2, <1>3, <1>4, <1>5, <1>6, <1>7 DEF Playing

\* A stop interrupts the session that plays now, or none; a process that ends is
\* noticed by play() only.
LEMMA StopRefines ==
  ASSUME Inv,
         \/ \E t \in Stoppers : StopRead(t) \/ Stopping(t)
         \/ \E s \in Sessions : ProcessEnds(s) \/ ChildEnds(s)
  PROVE  /\ Contract!Next \/ UNCHANGED absSession
         /\ verdict' = verdict
<1> USE DEF Inv, TypeOK, PlayOK, StopOK, Sessions, playVars, group, absSession
<1>1. ASSUME NEW t \in Stoppers, StopFlag(t)
      PROVE  (Contract!Stop \/ UNCHANGED absSession) /\ verdict' = verdict
  BY <1>1, SMT DEF StopFlag, Contract!Stop
<1>2. ASSUME NEW t \in Stoppers,
             StopRead(t) \/ StopDone(t) \/ StopTimeout(t) \/ StopKill(t)
      PROVE  UNCHANGED <<absSession, verdict>>
  <2>1. UNCHANGED <<ppc, clipNo, stopped, verdict>>
    BY <1>2 DEF StopRead, StopDone, StopTimeout, StopKill
  <2>. QED BY <2>1
<1>3. ASSUME NEW s \in Sessions, ProcessEnds(s) \/ ChildEnds(s)
      PROVE  UNCHANGED <<absSession, verdict>>
  <2>1. UNCHANGED <<ppc, clipNo, stopped, verdict>>
    BY <1>3 DEF ProcessEnds, ChildEnds
  <2>. QED BY <2>1
<1>. QED
  BY <1>1, <1>2, <1>3 DEF Stopping, Contract!Next

\* A step of the player is a step of the contract, or is not seen by the caller.
LEMMA NextRefines ==
  ASSUME Inv, [Next]_vars
  PROVE  /\ [Contract!Next]_absSession
         /\ verdict' = "true" /\ verdict # "true" => Contract!Completed
         /\ verdict' = "false" /\ verdict # "false" => Contract!Interrupted
<1>1. CASE UNCHANGED vars
  BY <1>1 DEF vars, playVars, absSession
<1>2. CASE Next
  BY <1>2, PlayRefines, StopRefines DEF Next
<1>. QED BY <1>1, <1>2

\* The subprocess player implements the contract that the playback queue relies
\* on, whatever its command does and whenever it is stopped.
THEOREM Refinement == Spec => KeepsContract
<1>1. Init => Contract!Init
  BY DEF Init, Contract!Init, absSession
<1>2. Inv /\ [Next]_vars => [Contract!Next]_absSession
  BY NextRefines
<1>. QED BY <1>1, <1>2, Invariance, PTL DEF Spec, KeepsContract, Contract!Spec

\* play() answers True only for a clip that no stop has reached, and False only
\* for one that a stop has.
THEOREM TruthTold == Spec => TellsTheTruth
<1>1. Inv /\ [Next]_vars =>
          [/\ verdict' = "true" /\ verdict # "true" => Contract!Completed
           /\ verdict' = "false" /\ verdict # "false" => Contract!Interrupted]_vars
  BY NextRefines
<1>. QED BY <1>1, Invariance, PTL DEF Spec, TellsTheTruth
=============================================================================
