------------------------- MODULE VoiceDownloadProofs -------------------------
(***************************************************************************)
(* For any number of processes and any length of the files: a directory is *)
(* always one that the next run can complete, what is installed is whole,  *)
(* and it stays where it is while it is replaced.                          *)
(***************************************************************************)
EXTENDS VoiceDownload, SequenceTheorems, TLAPS

Streaming(p) == pc[p] \in {"receive", "verify"}

\* What a process has open has a name unless it is "gone"; under the name of the
\* file itself only when another run renamed it.
OpenOK ==
    \A p \in Procs :
        /\ handle[p] = "part" => part[file[p]] # Absent
        /\ handle[p] = "dest" => dest[file[p]] # Absent /\ shared[file[p]]

\* A process leaves no file behind it that is not installed.
CompleteOK ==
    \A p \in Procs, f \in Files : pc[p] = "done" \/ f < file[p] => dest[f] # Absent

\* Two processes are at a file that is not shared only before they have its .part.
AloneOK ==
    \A p, q \in Procs : Streaming(p) /\ Streaming(q) /\ file[p] = file[q] =>
        p = q \/ shared[file[p]]

\* The .part of a process that has it alone is what it received, unless another
\* one removed it.
BytesOK ==
    \A p \in Procs : Streaming(p) /\ ~shared[file[p]] =>
        /\ part[file[p]] # Absent => part[file[p]] = got[p]
        /\ handle[p] = "gone" => part[file[p]] = Absent

\* What a process has received it forgets with the response.
ResponseOK ==
    \A p \in Procs : ~Streaming(p) => got[p] = <<>>

\* The inductive invariant.
Inv ==
    /\ TypeOK /\ OpenOK /\ CompleteOK /\ AloneOK /\ BytesOK /\ ResponseOK
    /\ PartsExplained /\ InstalledIsWhole

-----------------------------------------------------------------------------
(* Blocks *)

\* The greater of two numbers.
LEMMA MaxOfTwo == ASSUME NEW m \in Nat, NEW n \in Nat
                  PROVE  Max({m, n}) = IF m >= n THEN m ELSE n
<1> DEFINE top == IF m >= n THEN m ELSE n
<1>1. top \in {m, n} /\ \A y \in {m, n} : top >= y
  BY SMT
<1>2. \A x \in {m, n} : (\A y \in {m, n} : x >= y) => x = top
  BY SMT
<1>. QED BY <1>1, <1>2 DEF Max

\* A voice is two files.
LEMMA LastFile == Max(Files) = 2
<1>1. Files = {1, 2}
  BY SMT DEF Files
<1>. QED BY <1>1, MaxOfTwo, SMT

\* A file that is absent is not an empty one.
LEMMA AbsentIsNoFile == Absent \notin Seq(Blocks)
  BY SMT DEF Absent, Blocks

\* A write at a position leaves a file.
LEMMA WrittenType ==
  ASSUME NEW blocks \in Seq(Blocks), NEW n \in Nat \ {0}, NEW b \in {"good", "bad"}
  PROVE  Written(blocks, n, b) \in Seq(Blocks)
<1> DEFINE m == Max({n, Len(blocks)})
<1>1. m \in Nat
  BY MaxOfTwo, SMT
<1>2. \A k \in 1..m :
          (IF k = n THEN b ELSE IF k <= Len(blocks) THEN blocks[k] ELSE "hole") \in Blocks
  BY <1>1, SMT DEF Blocks
<1>3. Written(blocks, n, b) \in [1..m -> Blocks]
  BY <1>2, Zenon DEF Written
<1>. QED BY <1>1, <1>3, SeqDef, Zenon

\* A write at the end appends.
LEMMA WrittenAppends ==
  ASSUME NEW blocks \in Seq({"good", "bad"}), NEW b \in {"good", "bad"}
  PROVE  Written(blocks, Len(blocks) + 1, b) = Append(blocks, b)
<1>1. Max({Len(blocks) + 1, Len(blocks)}) = Len(blocks) + 1
  BY MaxOfTwo, SMT
<1> DEFINE n == Len(blocks) + 1
           written == Written(blocks, n, b)
<1>2. n \in Nat /\ blocks \in [1..Len(blocks) -> {"good", "bad"}]
  BY LenProperties, SMT
<1>3. written = [k \in 1..n |-> IF k = n THEN b ELSE IF k <= Len(blocks) THEN blocks[k] ELSE "hole"]
  BY <1>1, Zenon DEF Written
<1>4. \A k \in 1..n : written[k] = IF k = n THEN b ELSE blocks[k]
  BY <1>2, <1>3, SMT
<1>5. written \in [1..n -> {"good", "bad"}]
  <2>1. \A k \in 1..n : written[k] \in {"good", "bad"}
    BY <1>2, <1>4, SMT
  <2>. QED BY <1>3, <2>1, Zenon
<1>6. written \in Seq({"good", "bad"})
  BY <1>2, <1>5, SeqDef, Zenon
<1>7. Len(written) = n
  BY <1>2, <1>5, <1>6, LenProperties, SMT
<1>8. /\ Append(blocks, b) \in Seq({"good", "bad"}) /\ Len(Append(blocks, b)) = n
      /\ \A k \in 1..n : Append(blocks, b)[k] = IF k = n THEN b ELSE blocks[k]
  BY AppendProperties, SMT
<1>. QED BY <1>4, <1>6, <1>7, <1>8, SeqEqual, Zenon

-----------------------------------------------------------------------------
(* The invariant *)

\* An empty directory.
LEMMA InitInv == Init => Inv
<1> SUFFICES ASSUME Init PROVE Inv
  OBVIOUS
<1> USE LengthAssumption DEF Init, Files
<1>1. TypeOK
  <2>1. <<>> \in Seq({"good", "bad"})
    BY EmptySeq, Zenon
  <2>2. 1 \in Files /\ 0 \in Announced
    BY SMT DEF Announced
  <2>3. known \in [Files -> SUBSET {"size", "md5"}]
    BY ListingsAssumption
  <2>. QED BY <2>1, <2>2, <2>3, Zenon DEF TypeOK
<1>2. OpenOK /\ CompleteOK /\ AloneOK /\ BytesOK /\ ResponseOK
  BY SMT DEF OpenOK, CompleteOK, AloneOK, BytesOK, ResponseOK, Streaming
<1>3. PartsExplained /\ InstalledIsWhole
  BY DEF PartsExplained, InstalledIsWhole
<1>. QED BY <1>1, <1>2, <1>3 DEF Inv

\* Steps that touch no file of the directory and do not begin or go on with a body:
\* what a process then knows is of no more files than before.
LEMMA AsideKeeps ==
  ASSUME Inv, NEW p \in Procs,
         UNCHANGED <<known, disk, shared>>,
         \A q \in Procs \ {p} : /\ pc'[q] = pc[q] /\ file'[q] = file[q] /\ handle'[q] = handle[q]
                                /\ got'[q] = got[q] /\ header'[q] = header[q],
         TypeOK', handle'[p] = "none", pc'[p] \in {"idle", "file", "done"}, got'[p] = <<>>,
         \A f \in Files : pc'[p] = "done" \/ f < file'[p] => dest[f] # Absent,
         \A f \in Files : leftover[f] \/ (Streaming(p) /\ file[p] = f /\ part[f] # Absent) => leftover'[f]
  PROVE  Inv'
<1> USE DEF Inv, disk
<1>1. OpenOK'
  BY SMT DEF OpenOK
<1>2. CompleteOK'
  BY SMT DEF CompleteOK
<1>3. AloneOK'
  BY SMT DEF AloneOK, Streaming
<1>4. BytesOK'
  BY SMT DEF BytesOK, Streaming
<1>5. ResponseOK'
  BY SMT DEF ResponseOK, Streaming
<1>6. PartsExplained'
  BY SMT DEF PartsExplained, Streaming
<1>7. InstalledIsWhole'
  BY DEF InstalledIsWhole
<1>. QED BY <1>1, <1>2, <1>3, <1>4, <1>5, <1>6, <1>7

\* What the end of a run leaves of a process.
LEMMA EndsFacts ==
  ASSUME TypeOK, NEW p \in Procs, Ends(p)
  PROVE  /\ pc'[p] = "idle" /\ file'[p] = 1 /\ got'[p] = <<>>
         /\ \A q \in Procs \ {p} : /\ pc'[q] = pc[q] /\ file'[q] = file[q]
                                   /\ got'[q] = got[q] /\ header'[q] = header[q]
         /\ pc' \in [Procs -> {"idle", "file", "receive", "verify", "done"}]
         /\ force' \in [Procs -> BOOLEAN] /\ file' \in [Procs -> Files]
         /\ got' \in [Procs -> Seq({"good", "bad"})]
         /\ header' \in [Procs -> Announced]
<1>1. <<>> \in Seq({"good", "bad"}) /\ 1 \in Files /\ 0 \in Announced
  BY EmptySeq, SMT DEF Files, Announced
<1>. QED BY <1>1, Zenon DEF TypeOK, Ends

\* The end of a run that changes no file.
LEMMA EndAsideKeeps ==
  ASSUME Inv, NEW p \in Procs, Ends(p), Close(p), UNCHANGED <<known, disk, shared>>,
         leftover' \in [Files -> BOOLEAN],
         \A f \in Files : leftover[f] \/ (Streaming(p) /\ file[p] = f /\ part[f] # Absent) => leftover'[f]
  PROVE  Inv'
<1>1. TypeOK /\ UNCHANGED <<dest, part, promised>>
  BY DEF Inv, disk
<1>2. /\ handle'[p] = "none" /\ handle' \in [Procs -> {"part", "dest", "gone", "none"}]
      /\ \A q \in Procs \ {p} : handle'[q] = handle[q]
  BY <1>1, Zenon DEF Close, TypeOK
<1>3. TypeOK'
  <2>1. pc'[p] = "idle" /\ \A q \in Procs \ {p} : pc'[q] = pc[q]
    BY <1>1, EndsFacts, Zenon
  <2>2. \A q \in Procs : handle[q] # "none" <=> pc[q] = "receive"
    BY <1>1, Zenon DEF TypeOK
  <2>3. \A q \in Procs : handle'[q] # "none" <=> pc'[q] = "receive"
    BY <1>2, <2>1, <2>2, Zenon
  <2>. QED BY <1>1, <1>2, <2>3, EndsFacts, Zenon DEF TypeOK
<1>4. \A f \in Files : ~(f < 1)
  BY SMT DEF Files
<1>. QED BY <1>1, <1>2, <1>3, <1>4, EndsFacts, AsideKeeps, Zenon

\* What going on with the next file, or being done, does to a process.
LEMMA AdvanceFacts ==
  ASSUME TypeOK, NEW p \in Procs, Advance(p)
  PROVE  /\ pc'[p] \in {"file", "done"}
         /\ \A f \in Files : pc'[p] = "done" \/ f < file'[p] => f <= file[p]
         /\ \A q \in Procs \ {p} : pc'[q] = pc[q] /\ file'[q] = file[q]
         /\ pc' \in [Procs -> {"idle", "file", "receive", "verify", "done"}]
         /\ file' \in [Procs -> Files]
<1>1. CASE file[p] = 2
  <2>1. pc' = [pc EXCEPT ![p] = "done"] /\ file' = file
    BY <1>1, LastFile, Zenon DEF Advance
  <2>2. \A f \in Files : f <= 2
    BY SMT DEF Files
  <2>. QED BY <1>1, <2>1, <2>2, Zenon DEF TypeOK
<1>2. CASE file[p] # 2
  <2>1. pc' = [pc EXCEPT ![p] = "file"] /\ file' = [file EXCEPT ![p] = file[p] + 1]
    BY <1>2, LastFile, Zenon DEF Advance
  <2>2. file[p] + 1 \in Files /\ \A f \in Files : f < file[p] + 1 => f <= file[p]
    BY <1>2, SMT DEF TypeOK, Files
  <2>. QED BY <2>1, <2>2, Zenon DEF TypeOK
<1>. QED BY <1>1, <1>2

\* A run begins with the first file.
LEMMA StartKeeps ==
  ASSUME Inv, NEW p \in Procs, NEW f \in BOOLEAN, Start(p, f)
  PROVE  Inv'
<1> USE DEF Start
<1>1. TypeOK /\ handle[p] = "none" /\ got[p] = <<>>
  BY Zenon DEF Inv, TypeOK, ResponseOK, Streaming
<1>2. TypeOK'
  BY <1>1, Zenon DEF TypeOK, disk
<1>3. pc'[p] = "file" /\ \A q \in Procs \ {p} : pc'[q] = pc[q]
  BY <1>1, Zenon DEF TypeOK
<1>4. \A g \in Files : g < file[p] => dest[g] # Absent
  BY Zenon DEF Inv, CompleteOK
<1>5. ~Streaming(p)
  BY Zenon DEF Streaming
<1>. QED BY <1>1, <1>2, <1>3, <1>4, <1>5, AsideKeeps, Zenon DEF disk

\* A file that is installed is skipped.
LEMMA SkipKeeps ==
  ASSUME Inv, NEW p \in Procs, Skip(p)
  PROVE  Inv'
<1> USE DEF Skip
<1>1. TypeOK /\ handle[p] = "none" /\ got[p] = <<>> /\ file[p] \in Files
  BY Zenon DEF Inv, TypeOK, ResponseOK, Streaming
<1>2. TypeOK'
  BY <1>1, AdvanceFacts, Zenon DEF TypeOK, disk
<1>3. \A g \in Files : g <= file[p] => dest[g] # Absent
  <2>1. \A g \in Files : g < file[p] => dest[g] # Absent
    BY Zenon DEF Inv, CompleteOK
  <2>2. dest[file[p]] # Absent
    BY DEF Present
  <2>3. \A g \in Files : g <= file[p] => g < file[p] \/ g = file[p]
    BY <1>1, SMT DEF Files
  <2>. QED BY <2>1, <2>2, <2>3
<1>4. ~Streaming(p)
  BY Zenon DEF Streaming
<1>. QED BY <1>1, <1>2, <1>3, <1>4, AdvanceFacts, AsideKeeps, Zenon DEF disk

\* A run ends with success.
LEMMA DoneKeeps ==
  ASSUME Inv, NEW p \in Procs, Done(p)
  PROVE  Inv'
<1>1. ~Streaming(p) /\ leftover' = leftover /\ leftover \in [Files -> BOOLEAN]
  BY Zenon DEF Done, Streaming, Inv, TypeOK
<1>. QED BY <1>1, EndAsideKeeps, Zenon DEF Done

\* The rename fails: a .part stays behind.
LEMMA InstallFailsKeeps ==
  ASSUME Inv, NEW p \in Procs, InstallFails(p)
  PROVE  Inv'
<1>1. leftover' = [leftover EXCEPT ![file[p]] = TRUE] /\ leftover \in [Files -> BOOLEAN]
  BY Zenon DEF InstallFails, Inv, TypeOK
<1>2. leftover' \in [Files -> BOOLEAN] /\ \A f \in Files : leftover[f] \/ file[p] = f => leftover'[f]
  BY <1>1, Zenon
<1>. QED BY <1>2, EndAsideKeeps, Zenon DEF InstallFails

\* A process is killed: what it was writing stays behind.
LEMMA KillKeeps ==
  ASSUME Inv, NEW p \in Procs, Kill(p)
  PROVE  Inv'
<1>1. /\ leftover' = [leftover EXCEPT ![file[p]] = leftover[file[p]] \/ pc[p] \in {"receive", "verify"}]
      /\ leftover \in [Files -> BOOLEAN] /\ file[p] \in Files
  BY Zenon DEF Kill, Inv, TypeOK
<1>2. /\ leftover' \in [Files -> BOOLEAN]
      /\ \A f \in Files : leftover[f] \/ (Streaming(p) /\ file[p] = f) => leftover'[f]
  BY <1>1, Zenon DEF Streaming
<1>. QED BY <1>2, EndAsideKeeps, Zenon DEF Kill

-----------------------------------------------------------------------------
(* Steps that change files *)

\* The .part is removed and the run ends.
LEMMA UnlinkKeeps ==
  ASSUME Inv, NEW p \in Procs, UnlinkPart(p), Ends(p), UNCHANGED <<known, dest, promised, leftover, shared>>
  PROVE  Inv'
<1>1. TypeOK /\ OpenOK /\ CompleteOK /\ AloneOK /\ BytesOK /\ ResponseOK /\ PartsExplained /\ InstalledIsWhole
  BY DEF Inv
<1>2. part' = [part EXCEPT ![file[p]] = Absent] /\ part' \in [Files -> Seq(Blocks) \cup {Absent}]
  BY <1>1, Zenon DEF UnlinkPart, TypeOK
<1>3. /\ handle'[p] = "none" /\ handle' \in [Procs -> {"part", "dest", "gone", "none"}]
      /\ \A q \in Procs \ {p} :
            /\ handle'[q] = "gone" => handle[q] = "gone" \/ file[q] = file[p]
            /\ handle'[q] = "part" => handle[q] = "part" /\ file[q] # file[p]
            /\ handle'[q] = "dest" => handle[q] = "dest"
            /\ handle'[q] = "none" <=> handle[q] = "none"
  BY <1>1, SMT DEF UnlinkPart, TypeOK
<1>4. /\ file[p] \in Files /\ part'[file[p]] = Absent
      /\ \A f \in Files \ {file[p]} : part'[f] = part[f]
  BY <1>1, <1>2, Zenon DEF TypeOK
<1>5. /\ pc'[p] = "idle" /\ file'[p] = 1 /\ got'[p] = <<>>
      /\ \A q \in Procs \ {p} : /\ pc'[q] = pc[q] /\ file'[q] = file[q]
                                /\ got'[q] = got[q] /\ header'[q] = header[q]
  BY <1>1, EndsFacts, Zenon
<1>6. TypeOK'
  <2>1. \A q \in Procs : handle'[q] # "none" <=> pc'[q] = "receive"
    BY <1>1, <1>3, <1>5, Zenon DEF TypeOK
  <2>. QED BY <1>1, <1>2, <1>3, <2>1, EndsFacts, Zenon DEF TypeOK
<1>7. (\A q \in Procs : file[q] \in Files) /\ dest' = dest /\ shared' = shared
  BY <1>1, Zenon DEF TypeOK
<1>8. OpenOK'
  <2>1. ASSUME NEW q \in Procs \ {p}
        PROVE  /\ handle'[q] = "part" => part'[file'[q]] # Absent
               /\ handle'[q] = "dest" => dest'[file'[q]] # Absent /\ shared'[file'[q]]
    <3>1. /\ file'[q] = file[q] /\ file[q] \in Files
          /\ handle'[q] = "part" => handle[q] = "part" /\ file[q] # file[p]
          /\ handle'[q] = "dest" => handle[q] = "dest"
          /\ file[q] # file[p] => part'[file[q]] = part[file[q]]
      BY <1>3, <1>4, <1>5, <1>7, Zenon
    <3>2. /\ handle[q] = "part" => part[file[q]] # Absent
          /\ handle[q] = "dest" => dest[file[q]] # Absent /\ shared[file[q]]
      BY <1>1, Zenon DEF OpenOK
    <3>. QED BY <1>7, <3>1, <3>2, SMT
  <2>. QED BY <1>3, <2>1, SMT DEF OpenOK
<1>9. CompleteOK'
  <2>1. \A f \in Files : ~(f < 1)
    BY SMT DEF Files
  <2>. QED BY <1>1, <1>5, <2>1, SMT DEF CompleteOK
<1>10. AloneOK'
  BY <1>1, <1>5, Zenon DEF AloneOK, Streaming
<1>11. BytesOK'
  <2>1. ASSUME NEW q \in Procs \ {p}, pc'[q] \in {"receive", "verify"}, ~shared'[file'[q]]
        PROVE  /\ part'[file'[q]] # Absent => part'[file'[q]] = got'[q]
               /\ handle'[q] = "gone" => part'[file'[q]] = Absent
    <3>1. CASE file[q] = file[p]
      BY <1>4, <1>5, <2>1, <3>1, Zenon
    <3>2. CASE file[q] # file[p]
      <4>1. /\ file'[q] = file[q] /\ file[q] \in Files /\ got'[q] = got[q] /\ pc'[q] = pc[q]
            /\ handle'[q] = "gone" => handle[q] = "gone"
            /\ part'[file[q]] = part[file[q]]
        BY <1>3, <1>4, <1>5, <1>7, <3>2, Zenon
      <4>2. /\ part[file[q]] # Absent => part[file[q]] = got[q]
            /\ handle[q] = "gone" => part[file[q]] = Absent
        BY <1>1, <1>7, <2>1, <4>1, SMT DEF BytesOK, Streaming
      <4>. QED BY <4>1, <4>2, SMT
    <3>. QED BY <3>1, <3>2
  <2>. QED BY <1>5, <2>1, SMT DEF BytesOK, Streaming
<1>12. ResponseOK'
  BY <1>1, <1>5, SMT DEF ResponseOK, Streaming
<1>13. PartsExplained'
  BY <1>1, <1>4, <1>5, SMT DEF PartsExplained
<1>14. InstalledIsWhole'
  BY <1>1 DEF InstalledIsWhole
<1>. QED BY <1>6, <1>8, <1>9, <1>10, <1>11, <1>12, <1>13, <1>14 DEF Inv

\* The .part is created or truncated, by a process that may not be the only one.
LEMMA ConnectKeeps ==
  ASSUME Inv, NEW p \in Procs, Connect(p)
  PROVE  Inv'
<1> DEFINE at == file[p]
<1>1. TypeOK /\ OpenOK /\ CompleteOK /\ AloneOK /\ BytesOK /\ ResponseOK /\ PartsExplained /\ InstalledIsWhole
  BY DEF Inv
<1>2. /\ at \in Files /\ got[p] = <<>> /\ pc[p] = "file" /\ handle[p] = "none"
      /\ UNCHANGED <<known, dest, force, file, got>>
  BY <1>1, Zenon DEF TypeOK, ResponseOK, Streaming, Connect, Fetching
<1>3. /\ part'[at] = <<>> /\ \A f \in Files \ {at} : part'[f] = part[f]
      /\ part' \in [Files -> Seq(Blocks) \cup {Absent}]
  <2>1. <<>> \in Seq(Blocks)
    BY EmptySeq
  <2>. QED BY <1>1, <1>2, <2>1, Zenon DEF Connect, TypeOK
<1>4. /\ handle'[p] = "part" /\ \A q \in Procs \ {p} : handle'[q] = handle[q]
      /\ handle' \in [Procs -> {"part", "dest", "gone", "none"}]
      /\ pc'[p] = "receive" /\ \A q \in Procs \ {p} : pc'[q] = pc[q]
      /\ pc' \in [Procs -> {"idle", "file", "receive", "verify", "done"}]
  BY <1>1, Zenon DEF Connect, TypeOK
<1>5. /\ \A f \in Files \ {at} : leftover'[f] = leftover[f] /\ shared'[f] = shared[f]
      /\ shared'[at] = (shared[at] \/ Others(p) # {})
      /\ leftover' \in [Files -> BOOLEAN] /\ shared' \in [Files -> BOOLEAN]
  BY <1>1, <1>2, Zenon DEF Connect, TypeOK
<1>6. /\ \A q \in Procs \ {p} : header'[q] = header[q]
      /\ header' \in [Procs -> Announced]
      /\ \A f \in Files : promised'[f] = promised[f] \/ (f = at /\ shared'[f] /\ promised'[f] = 0)
      /\ promised' \in [Files -> Announced]
  <2>1. PICK n \in Announced : header' = [header EXCEPT ![p] = n]
    BY DEF Connect
  <2>2. 0 \in Announced
    BY DEF Announced
  <2>3. \/ shared'[at] /\ promised' = [promised EXCEPT ![at] = 0]
        \/ promised' = [promised EXCEPT ![at] = promised[at]]
    BY DEF Connect
  <2>. QED BY <1>1, <1>2, <2>1, <2>2, <2>3, Zenon DEF TypeOK
<1>7. TypeOK'
  <2>1. \A q \in Procs : handle'[q] # "none" <=> pc'[q] = "receive"
    BY <1>1, <1>4, Zenon DEF TypeOK
  <2>. QED BY <1>1, <1>2, <1>3, <1>4, <1>5, <1>6, <2>1, Zenon DEF TypeOK
<1>8. \A q \in Procs : file[q] \in Files
  BY <1>1, Zenon DEF TypeOK
<1>9. \A q \in Procs \ {p} : Streaming(q) /\ file[q] = at => shared'[at]
  BY <1>5, Zenon DEF Others, Streaming
<1>10. \A f \in Files : shared[f] => shared'[f]
  BY <1>2, <1>5, Zenon
<1>11. <<>> # Absent
  BY SMT DEF Absent
<1>12. OpenOK'
  BY <1>1, <1>2, <1>3, <1>4, <1>8, <1>10, <1>11, Zenon DEF OpenOK
<1>13. CompleteOK'
  BY <1>1, <1>2, <1>4, SMT DEF CompleteOK
<1>14. AloneOK'
  <2>1. ASSUME NEW q \in Procs, NEW r \in Procs, q # r, file'[q] = file'[r],
               pc'[q] \in {"receive", "verify"}, pc'[r] \in {"receive", "verify"}
        PROVE  shared'[file'[q]]
    <3>1. CASE q = p \/ r = p
      BY <1>2, <1>4, <1>9, <2>1, <3>1, Zenon DEF Streaming
    <3>2. CASE q # p /\ r # p
      BY <1>1, <1>2, <1>4, <1>8, <1>10, <2>1, <3>2, Zenon DEF AloneOK, Streaming
    <3>. QED BY <3>1, <3>2
  <2>. QED BY <2>1, Zenon DEF AloneOK, Streaming
<1>15. BytesOK'
  BY <1>1, <1>2, <1>3, <1>4, <1>8, <1>9, <1>10, Zenon DEF BytesOK, Streaming
<1>16. ResponseOK'
  BY <1>1, <1>2, <1>4, Zenon DEF ResponseOK, Streaming
<1>17. PartsExplained'
  BY <1>1, <1>2, <1>3, <1>4, <1>5, Zenon DEF PartsExplained
<1>18. InstalledIsWhole'
  BY <1>1, <1>2, <1>6, <1>10, Zenon DEF InstalledIsWhole
<1>. QED BY <1>7, <1>12, <1>13, <1>14, <1>15, <1>16, <1>17, <1>18 DEF Inv

\* The body ends and is checked.
LEMMA BodyEndsKeeps ==
  ASSUME Inv, NEW p \in Procs, BodyEnds(p)
  PROVE  Inv'
<1>1. TypeOK /\ OpenOK /\ CompleteOK /\ AloneOK /\ BytesOK /\ ResponseOK /\ PartsExplained /\ InstalledIsWhole
  BY DEF Inv
<1>2. /\ handle'[p] = "none" /\ \A q \in Procs \ {p} : handle'[q] = handle[q]
      /\ handle' \in [Procs -> {"part", "dest", "gone", "none"}]
      /\ pc[p] = "receive" /\ pc'[p] = "verify" /\ \A q \in Procs \ {p} : pc'[q] = pc[q]
      /\ pc' \in [Procs -> {"idle", "file", "receive", "verify", "done"}]
  BY <1>1, Zenon DEF BodyEnds, Close, TypeOK
<1>3. UNCHANGED <<known, dest, part, promised, force, file, got, header, leftover, shared>>
  BY DEF BodyEnds, disk
<1>4. TypeOK'
  <2>1. \A q \in Procs : handle'[q] # "none" <=> pc'[q] = "receive"
    BY <1>1, <1>2, Zenon DEF TypeOK
  <2>. QED BY <1>1, <1>2, <1>3, <2>1, Zenon DEF TypeOK
<1>5. \A q \in Procs : Streaming(q)' <=> Streaming(q)
  BY <1>2, Zenon DEF Streaming
<1>6. OpenOK' /\ ResponseOK'
  BY <1>1, <1>2, <1>3, <1>5, Zenon DEF OpenOK, ResponseOK
<1>7. CompleteOK'
  BY <1>1, <1>2, <1>3, Zenon DEF CompleteOK
<1>8. AloneOK' /\ BytesOK'
  BY <1>1, <1>2, <1>3, <1>5, Zenon DEF AloneOK, BytesOK
<1>9. PartsExplained'
  BY <1>1, <1>3, <1>5, SMT DEF PartsExplained, Streaming
<1>10. InstalledIsWhole'
  BY <1>1, <1>3, Zenon DEF InstalledIsWhole
<1>. QED BY <1>4, <1>6, <1>7, <1>8, <1>9, <1>10 DEF Inv

\* A block is written to whatever the file now is that the process has open.
LEMMA ReceiveKeeps ==
  ASSUME Inv, NEW p \in Procs, NEW b \in {"good", "bad"}, Receive(p, b)
  PROVE  Inv'
<1> DEFINE at == file[p]
           after(blocks) == Written(blocks, Len(got[p]) + 1, b)
<1>1. TypeOK /\ OpenOK /\ CompleteOK /\ AloneOK /\ BytesOK /\ ResponseOK /\ PartsExplained /\ InstalledIsWhole
  BY DEF Inv
<1>2. /\ at \in Files /\ pc[p] = "receive" /\ got[p] \in Seq({"good", "bad"})
      /\ UNCHANGED <<known, promised, pc, force, file, handle, header, leftover, shared>>
  BY <1>1, Zenon DEF TypeOK, Receive
<1>3. /\ got'[p] = Append(got[p], b) /\ \A q \in Procs \ {p} : got'[q] = got[q]
      /\ got' \in [Procs -> Seq({"good", "bad"})]
  <2>1. Append(got[p], b) \in Seq({"good", "bad"})
    BY <1>2, AppendProperties
  <2>. QED BY <1>1, <2>1, Zenon DEF TypeOK, Receive
<1>4. /\ \A blocks \in Seq(Blocks) : after(blocks) \in Seq(Blocks) /\ after(blocks) # Absent
      /\ after(got[p]) = Append(got[p], b)
  <2>1. Len(got[p]) + 1 \in Nat \ {0}
    BY <1>2, LenProperties, SMT
  <2>. QED BY <1>2, <2>1, WrittenType, WrittenAppends, AbsentIsNoFile, Zenon
<1>5. /\ handle[p] = "part" => part[at] # Absent /\ part[at] \in Seq(Blocks)
      /\ handle[p] = "dest" => dest[at] # Absent /\ dest[at] \in Seq(Blocks) /\ shared[at]
  BY <1>1, <1>2, Zenon DEF OpenOK, TypeOK
<1>6. /\ \A f \in Files \ {at} : part'[f] = part[f]
      /\ handle[p] = "part" => part'[at] = after(part[at])
      /\ handle[p] # "part" => part'[at] = part[at]
      /\ part' \in [Files -> Seq(Blocks) \cup {Absent}]
  <2>1. CASE handle[p] = "part"
    BY <1>1, <1>2, <1>4, <1>5, <2>1, Zenon DEF Receive, TypeOK
  <2>2. CASE handle[p] # "part"
    BY <1>1, <2>2, Zenon DEF Receive, TypeOK
  <2>. QED BY <2>1, <2>2
<1>7. /\ \A f \in Files \ {at} : dest'[f] = dest[f]
      /\ dest'[at] = dest[at] \/ (shared[at] /\ dest'[at] # Absent /\ dest[at] # Absent)
      /\ dest' \in [Files -> Seq(Blocks) \cup {Absent}]
  <2>1. CASE handle[p] = "dest"
    BY <1>1, <1>2, <1>4, <1>5, <2>1, Zenon DEF Receive, TypeOK
  <2>2. CASE handle[p] # "dest"
    BY <1>1, <2>2, Zenon DEF Receive, TypeOK
  <2>. QED BY <2>1, <2>2
<1>8. TypeOK'
  BY <1>1, <1>2, <1>3, <1>6, <1>7, Zenon DEF TypeOK
<1>9. \A f \in Files : (part'[f] = Absent <=> part[f] = Absent) /\ (dest'[f] = Absent <=> dest[f] = Absent)
  BY <1>4, <1>5, <1>6, <1>7, Zenon
<1>10. \A q \in Procs : file[q] \in Files
  BY <1>1, Zenon DEF TypeOK
<1>11. OpenOK' /\ CompleteOK'
  BY <1>1, <1>2, <1>9, <1>10, Zenon DEF OpenOK, CompleteOK
<1>12. AloneOK'
  BY <1>1, <1>2, Zenon DEF AloneOK, Streaming
<1>13. BytesOK'
  <2>1. ASSUME NEW q \in Procs, pc[q] \in {"receive", "verify"}, ~shared[file[q]], part[file[q]] # Absent
        PROVE  part'[file[q]] = got'[q]
    <3>1. part[file[q]] = got[q] /\ handle[q] # "gone"
      BY <1>1, <2>1, Zenon DEF BytesOK, Streaming
    <3>2. CASE q = p
      <4>1. handle[p] = "part"
        BY <1>1, <1>2, <1>5, <2>1, <3>1, <3>2, SMT DEF TypeOK
      <4>. QED BY <1>3, <1>4, <1>6, <3>1, <3>2, <4>1, Zenon
    <3>3. CASE q # p
      <4>1. file[q] # at
        BY <1>1, <1>2, <2>1, <3>3, SMT DEF AloneOK, Streaming
      <4>. QED BY <1>3, <1>6, <1>10, <3>1, <3>3, <4>1, Zenon
    <3>. QED BY <3>2, <3>3
  <2>. QED BY <1>1, <1>2, <1>9, <1>10, <2>1, Zenon DEF BytesOK, Streaming
<1>14. ResponseOK'
  BY <1>1, <1>2, <1>3, SMT DEF ResponseOK, Streaming
<1>15. PartsExplained'
  BY <1>1, <1>2, <1>9, Zenon DEF PartsExplained
<1>16. InstalledIsWhole'
  BY <1>1, <1>2, <1>7, Zenon DEF InstalledIsWhole
<1>. QED BY <1>8, <1>11, <1>12, <1>13, <1>14, <1>15, <1>16 DEF Inv

\* What a process installs that has its .part alone passed the checks.
LEMMA CheckedIsWhole ==
  ASSUME TypeOK, NEW p \in Procs, ~Problem(p)
  PROVE  /\ "md5" \in known[file[p]] => got[p] = [k \in 1..Length |-> "good"]
         /\ "size" \in known[file[p]] => Len(got[p]) = Length
         /\ header[p] # 0 => Len(got[p]) = header[p]
<1>1. "md5" \in known[file[p]] => got[p] = [k \in 1..Length |-> "good"]
  BY DEF Problem, DigestProblem
<1>2. header[p] # 0 => Len(got[p]) = header[p]
  BY Zenon DEF Problem, SizeProblem
<1>3. "size" \in known[file[p]] => Len(got[p]) = Length
  <2>1. Length # 0
    BY LengthAssumption, SMT
  <2>. QED BY <1>2, <2>1, Zenon DEF Problem, SizeProblem
<1>. QED BY <1>1, <1>2, <1>3

\* The .part becomes the file, also for the others that have it open.
LEMMA InstallKeeps ==
  ASSUME Inv, NEW p \in Procs, Install(p)
  PROVE  Inv'
<1> DEFINE at == file[p]
<1>1. TypeOK /\ OpenOK /\ CompleteOK /\ AloneOK /\ BytesOK /\ ResponseOK /\ PartsExplained /\ InstalledIsWhole
  BY DEF Inv
<1>2. /\ at \in Files /\ pc[p] = "verify" /\ ~Problem(p) /\ part[at] # Absent /\ handle[p] = "none"
      /\ UNCHANGED <<known, force, leftover, shared>>
  BY <1>1, SMT DEF TypeOK, Install
<1>3. /\ part'[at] = Absent /\ dest'[at] = part[at]
      /\ \A f \in Files \ {at} : part'[f] = part[f] /\ dest'[f] = dest[f]
      /\ part' \in [Files -> Seq(Blocks) \cup {Absent}]
      /\ dest' \in [Files -> Seq(Blocks) \cup {Absent}]
  BY <1>1, <1>2, Zenon DEF Install, TypeOK
<1>20. /\ ~shared[at] => promised'[at] = header[p]
       /\ \A f \in Files \ {at} : promised'[f] = promised[f]
       /\ promised' \in [Files -> Announced]
  <2>1. (IF shared[at] THEN 0 ELSE header[p]) \in Announced
    <3>1. 0 \in Announced
      BY DEF Announced
    <3>. QED BY <1>1, <3>1, Zenon DEF TypeOK
  <2>2. promised' = [promised EXCEPT ![at] = IF shared[at] THEN 0 ELSE header[p]]
    BY DEF Install
  <2>. QED BY <1>1, <1>2, <2>1, <2>2, Zenon DEF TypeOK
<1>4. /\ handle' = [q \in Procs |->
             IF file[q] # file[p] THEN handle[q]
             ELSE CASE handle[q] = "part" -> "dest"
                    [] handle[q] = "dest" -> "gone"
                    [] OTHER -> handle[q]]
  BY DEF Install
<1>5. ASSUME NEW q \in Procs
      PROVE  /\ handle[q] \in {"part", "dest", "gone", "none"}
             /\ file[q] # at => handle'[q] = handle[q]
             /\ file[q] = at /\ handle[q] = "part" => handle'[q] = "dest"
             /\ file[q] = at /\ handle[q] = "dest" => handle'[q] = "gone"
             /\ file[q] = at /\ handle[q] \in {"gone", "none"} => handle'[q] = handle[q]
  <2>1. handle[q] \in {"part", "dest", "gone", "none"}
    BY <1>1, Zenon DEF TypeOK
  <2>2. handle'[q] = IF file[q] # file[p] THEN handle[q]
                     ELSE CASE handle[q] = "part" -> "dest"
                            [] handle[q] = "dest" -> "gone"
                            [] OTHER -> handle[q]
    BY <1>4, Zenon
  <2>. QED BY <2>1, <2>2, SMT
<1>6. /\ handle' \in [Procs -> {"part", "dest", "gone", "none"}]
      /\ \A q \in Procs : handle'[q] = "none" <=> handle[q] = "none"
  <2>1. \A q \in Procs : handle'[q] \in {"part", "dest", "gone", "none"} /\ (handle'[q] = "none" <=> handle[q] = "none")
    BY <1>5, SMT
  <2>. QED BY <1>4, <2>1, Zenon
<1>7. /\ got'[p] = <<>> /\ \A q \in Procs \ {p} : got'[q] = got[q] /\ header'[q] = header[q]
      /\ got' \in [Procs -> Seq({"good", "bad"})]
      /\ header' \in [Procs -> Announced]
  <2>1. <<>> \in Seq({"good", "bad"}) /\ 0 \in Announced
    BY EmptySeq, SMT DEF Announced
  <2>. QED BY <1>1, <2>1, Zenon DEF Install, TypeOK
<1>8. /\ pc'[p] \in {"file", "done"}
      /\ \A f \in Files : pc'[p] = "done" \/ f < file'[p] => f <= at
      /\ \A q \in Procs \ {p} : pc'[q] = pc[q] /\ file'[q] = file[q]
      /\ pc' \in [Procs -> {"idle", "file", "receive", "verify", "done"}]
      /\ file' \in [Procs -> Files]
  BY <1>1, AdvanceFacts, Zenon DEF Install
<1>9. TypeOK'
  <2>1. \A q \in Procs : handle'[q] # "none" <=> pc'[q] = "receive"
    BY <1>1, <1>2, <1>6, <1>8, SMT DEF TypeOK
  <2>. QED BY <1>1, <1>2, <1>3, <1>6, <1>7, <1>8, <1>20, <2>1, Zenon DEF TypeOK
<1>10. (\A q \in Procs : file[q] \in Files) /\ known' = known /\ shared' = shared
  BY <1>1, <1>2, Zenon DEF TypeOK
<1>11. \A f \in Files : dest[f] # Absent \/ f = at => dest'[f] # Absent
  BY <1>2, <1>3, Zenon
\* Another process that receives into the same .part shares it with this one.
<1>12. \A q \in Procs \ {p} : Streaming(q) /\ file[q] = at => shared[at]
  BY <1>1, <1>2, SMT DEF AloneOK, Streaming
<1>13. OpenOK'
  <2>1. ASSUME NEW q \in Procs \ {p}
        PROVE  /\ handle'[q] = "part" => part'[file'[q]] # Absent
               /\ handle'[q] = "dest" => dest'[file'[q]] # Absent /\ shared'[file'[q]]
    <3>1. CASE file[q] # at
      <4>1. /\ file'[q] = file[q] /\ file[q] \in Files /\ handle'[q] = handle[q]
            /\ part'[file[q]] = part[file[q]] /\ dest'[file[q]] = dest[file[q]]
        BY <1>3, <1>5, <1>8, <1>10, <3>1, Zenon
      <4>2. /\ handle[q] = "part" => part[file[q]] # Absent
            /\ handle[q] = "dest" => dest[file[q]] # Absent /\ shared[file[q]]
        BY <1>1, Zenon DEF OpenOK
      <4>. QED BY <1>10, <4>1, <4>2, SMT
    <3>2. CASE file[q] = at
      <4>1. handle'[q] # "part"
        BY <1>5, <3>2, SMT
      <4>2. handle'[q] = "dest" => shared[at]
        BY <1>1, <1>5, <1>6, <1>12, <3>2, SMT DEF TypeOK, Streaming
      <4>. QED BY <1>2, <1>8, <1>10, <1>11, <3>2, <4>1, <4>2, Zenon
    <3>. QED BY <3>1, <3>2
  <2>2. handle'[p] = "none"
    BY <1>2, <1>6
  <2>. QED BY <2>1, <2>2, SMT DEF OpenOK
<1>14. CompleteOK'
  <2>1. \A f \in Files : f <= at => f < at \/ f = at
    BY <1>2, SMT DEF Files
  <2>2. \A f \in Files : f <= at => dest'[f] # Absent
    BY <1>1, <1>11, <2>1, Zenon DEF CompleteOK
  <2>3. ASSUME NEW q \in Procs, NEW f \in Files, pc'[q] = "done" \/ f < file'[q]
        PROVE  dest'[f] # Absent
    <3>1. CASE q = p
      BY <1>8, <2>2, <2>3, <3>1, Zenon
    <3>2. CASE q # p
      BY <1>1, <1>8, <1>11, <2>3, <3>2, Zenon DEF CompleteOK
    <3>. QED BY <3>1, <3>2
  <2>. QED BY <2>3, Zenon DEF CompleteOK
<1>15. AloneOK'
  BY <1>1, <1>8, <1>10, SMT DEF AloneOK, Streaming
<1>16. BytesOK'
  <2>1. ASSUME NEW q \in Procs \ {p}, pc'[q] \in {"receive", "verify"}, ~shared'[file'[q]]
        PROVE  /\ file[q] # at
               /\ part'[file'[q]] # Absent => part'[file'[q]] = got'[q]
               /\ handle'[q] = "gone" => part'[file'[q]] = Absent
    <3>1. file[q] # at
      BY <1>8, <1>10, <1>12, <2>1, Zenon DEF Streaming
    <3>2. /\ file'[q] = file[q] /\ file[q] \in Files /\ handle'[q] = handle[q]
          /\ got'[q] = got[q] /\ part'[file[q]] = part[file[q]]
      BY <1>3, <1>5, <1>7, <1>8, <1>10, <3>1, Zenon
    <3>3. /\ part[file[q]] # Absent => part[file[q]] = got[q]
          /\ handle[q] = "gone" => part[file[q]] = Absent
      BY <1>1, <1>8, <1>10, <2>1, <3>2, SMT DEF BytesOK, Streaming
    <3>. QED BY <3>1, <3>2, <3>3, SMT
  <2>. QED BY <1>8, <2>1, SMT DEF BytesOK, Streaming
<1>17. ResponseOK'
  <2>1. ASSUME NEW q \in Procs \ {p}
        PROVE  pc'[q] \notin {"receive", "verify"} => got'[q] = <<>>
    BY <1>1, <1>7, <1>8, <1>10, Zenon DEF ResponseOK, Streaming
  <2>. QED BY <1>7, <1>8, <2>1, SMT DEF ResponseOK, Streaming
<1>18. PartsExplained'
  BY <1>1, <1>2, <1>3, <1>8, SMT DEF PartsExplained
<1>19. InstalledIsWhole'
  <2>1. ~shared[at] => part[at] = got[p]
    BY <1>1, <1>2, Zenon DEF BytesOK, Streaming
  <2>2. /\ "md5" \in known[at] => got[p] = [k \in 1..Length |-> "good"]
        /\ "size" \in known[at] => Len(got[p]) = Length
        /\ header[p] # 0 => Len(got[p]) = header[p]
    BY <1>1, <1>2, CheckedIsWhole
  <2>3. ASSUME NEW f \in Files, dest'[f] # Absent, ~shared'[f]
        PROVE  /\ "md5" \in known'[f] => dest'[f] = [k \in 1..Length |-> "good"]
               /\ "size" \in known'[f] => Len(dest'[f]) = Length
               /\ promised'[f] # 0 => Len(dest'[f]) = promised'[f]
    <3>1. CASE f = at
      BY <1>2, <1>3, <1>10, <1>20, <2>1, <2>2, <2>3, <3>1, Zenon
    <3>2. CASE f # at
      BY <1>1, <1>3, <1>10, <1>20, <2>3, <3>2, Zenon DEF InstalledIsWhole
    <3>. QED BY <3>1, <3>2
  <2>. QED BY <2>3, Zenon DEF InstalledIsWhole
<1>. QED BY <1>9, <1>13, <1>14, <1>15, <1>16, <1>17, <1>18, <1>19 DEF Inv

-----------------------------------------------------------------------------

\* Every step is one of these, of some process.
LEMMA NextKeeps == Inv /\ [Next]_vars => Inv'
<1> SUFFICES ASSUME Inv, [Next]_vars PROVE Inv'
  OBVIOUS
<1>1. CASE UNCHANGED vars
  BY <1>1 DEF vars, disk, Inv, TypeOK, OpenOK, CompleteOK, AloneOK, BytesOK, ResponseOK,
              PartsExplained, InstalledIsWhole, Streaming
<1>2. ASSUME NEW p \in Procs, Download(p)
      PROVE  Inv'
  <2>1. CASE \E f \in BOOLEAN : Start(p, f)
    BY <2>1, StartKeeps
  <2>2. CASE Skip(p)
    BY <2>2, SkipKeeps
  <2>3. CASE Done(p)
    BY <2>3, DoneKeeps
  <2>4. CASE Connect(p)
    BY <2>4, ConnectKeeps
  <2>5. CASE BodyEnds(p)
    BY <2>5, BodyEndsKeeps
  <2>6. CASE StreamFails(p)
    BY <2>6, UnlinkKeeps DEF StreamFails
  <2>7. CASE \E b \in {"good", "bad"} : Receive(p, b)
    BY <2>7, ReceiveKeeps
  <2>8. CASE Reject(p)
    BY <2>8, UnlinkKeeps DEF Reject
  <2>9. CASE Install(p)
    BY <2>9, InstallKeeps
  <2>10. CASE InstallFails(p)
    BY <2>10, InstallFailsKeeps
  <2>11. CASE Kill(p)
    BY <2>11, KillKeeps
  <2>. QED
    BY <1>2, <2>1, <2>2, <2>3, <2>4, <2>5, <2>6, <2>7, <2>8, <2>9, <2>10, <2>11 DEF Download
<1>. QED BY <1>1, <1>2 DEF Next

\* The inductive invariant holds of every instance.
THEOREM Invariance == Spec => []Inv
  BY InitInv, NextKeeps, PTL DEF Spec

\* "An interrupted or corrupt download never leaves a usable-looking file", whatever
\* fails and is killed, for any number of processes.
THEOREM InstalledIsWholeHolds == Spec => []InstalledIsWhole
<1>1. Inv => InstalledIsWhole
  BY DEF Inv
<1>. QED BY <1>1, Invariance, PTL

\* The directory is always one that the next run can complete.
THEOREM RecoverableHolds == Spec => []Recoverable
<1>1. Inv => Recoverable
  BY SMT DEF Inv, Recoverable, CompleteOK, SuccessIsComplete
<1>. QED BY <1>1, Invariance, PTL

\* What is installed is replaced in one step or not at all.
THEOREM InstalledStaysHolds == Spec => InstalledStays
<1>1. ASSUME Inv, Next, NEW f \in Files, dest[f] # Absent
      PROVE  /\ dest'[f] # Absent
             /\ dest'[f] = dest[f] \/ shared[f] \/ (part'[f] = Absent /\ dest'[f] = part[f])
  <2>1. TypeOK /\ OpenOK
    BY <1>1 DEF Inv
  <2>2. PICK p \in Procs : Download(p)
    BY <1>1 DEF Next
  <2>3. ASSUME NEW b \in {"good", "bad"}, Receive(p, b), handle[p] = "dest", file[p] = f
        PROVE  shared[f] /\ dest'[f] # Absent
    <3>1. shared[f] /\ dest[f] \in Seq(Blocks) /\ got[p] \in Seq({"good", "bad"})
      BY <1>1, <2>1, <2>3, Zenon DEF OpenOK, TypeOK
    <3>2. Len(got[p]) + 1 \in Nat \ {0}
      BY <3>1, LenProperties, SMT
    <3>3. dest'[f] = Written(dest[f], Len(got[p]) + 1, b)
      BY <2>1, <2>3, Zenon DEF Receive, TypeOK
    <3>. QED BY <3>1, <3>2, <3>3, WrittenType, AbsentIsNoFile, Zenon
  <2>4. ASSUME NEW b \in {"good", "bad"}, Receive(p, b), handle[p] # "dest" \/ file[p] # f
        PROVE  dest'[f] = dest[f]
    BY <2>1, <2>4, Zenon DEF Receive, TypeOK
  <2>5. CASE Install(p)
    BY <1>1, <2>1, <2>5, Zenon DEF Install, TypeOK
  <2>6. CASE ~Install(p) /\ ~\E b \in {"good", "bad"} : Receive(p, b)
    <3>1. dest' = dest
      BY <2>2, <2>6 DEF Download, Start, Skip, Done, Connect, BodyEnds, StreamFails, Reject, InstallFails, Kill, disk
    <3>. QED BY <1>1, <3>1
  <2>. QED BY <1>1, <2>3, <2>4, <2>5, <2>6
<1>2. Inv /\ [Next]_vars => 
        [\A f \in Files : dest[f] # Absent =>
            /\ dest'[f] # Absent
            /\ dest'[f] = dest[f] \/ shared[f] \/ (part'[f] = Absent /\ dest'[f] = part[f])]_vars
  BY <1>1
<1>. QED BY <1>2, Invariance, PTL DEF Spec, InstalledStays
=============================================================================
