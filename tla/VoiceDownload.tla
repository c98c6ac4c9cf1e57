----------------------------- MODULE VoiceDownload -----------------------------
(***************************************************************************)
(* voices.py: `tts-daemon download` fetches the two files of a voice (the  *)
(* model and the configuration of a piper voice, or the model and the      *)
(* voices of kokoro) into the directory that the gateway reads.  Each file *)
(* is streamed to <name>.part, checked and renamed into place.             *)
(*                                                                         *)
(* A file is a sequence of Length blocks, each "good" or "bad" (corrupt,   *)
(* of another version, or past the end of the file); "hole" is a gap in a  *)
(* sparse file.  A rename takes a file away from under a process that has  *)
(* it open: handle tells under which name, if any, the file it writes to   *)
(* is now.  A body may end early, be corrupt or be too long, every call on *)
(* the network or the disk may fail, a process may be killed at any moment *)
(* and run again, and two may download the same voice at once.             *)
(*                                                                         *)
(* Left out: the catalog (fetched before, it changes no file), progress,   *)
(* and the messages of the errors.                                         *)
(*                                                                         *)
(* A definition marked "Mutant" is not part of the model: it is a bug that *)
(* the definition after it could have had, and that a property catches.    *)
(***************************************************************************)
EXTENDS Naturals, SequencesExt

CONSTANTS
    Procs,          \* processes that download the same voice
    Length,         \* the blocks of a file
    Listings        \* what the catalog may list of the two files, see known

ASSUME LengthAssumption == Length \in Nat \ {0}
ASSUME ListingsAssumption == Listings \subseteq [1..2 -> SUBSET {"size", "md5"}]

Files == 1..2                   \* specs, in the order of download()
Absent == <<"absent">>          \* a name without a file

VARIABLES
    known,          \* per file: which of size and md5 the catalog lists (both for
                    \* most piper voices, neither for kokoro, which has no catalog)
    dest, part,     \* per file: the blocks of <name> and <name>.part, or Absent
    pc,             \* where each process is
    force,          \* its --force
    file,           \* the file it is at
    handle,         \* what it has open: "part", "dest" (a .part since renamed),
                    \* "gone" (a file without a name) or "none"
    got,            \* the blocks it has received of this file
    header,         \* the Content-Length it was told, or 0
    \* history variables, for the properties only
    promised,       \* per file: the Content-Length of the response that was installed
                    \* (kept only while no two runs have been at it)
    leftover,       \* per file: a run was killed, or its rename failed, and left .part
    shared          \* per file: two runs were at it at the same time

disk == <<dest, part, promised>>
vars == <<known, disk, pc, force, file, handle, got, header, leftover, shared>>

Init ==
    /\ known \in Listings
    /\ dest = [f \in Files |-> Absent] /\ part = [f \in Files |-> Absent]
    /\ promised = [f \in Files |-> 0]
    /\ pc = [p \in Procs |-> "idle"]
    /\ force = [p \in Procs |-> FALSE]
    /\ file = [p \in Procs |-> 1]
    /\ handle = [p \in Procs |-> "none"]
    /\ got = [p \in Procs |-> <<>>]
    /\ header = [p \in Procs |-> 0]
    /\ leftover = [f \in Files |-> FALSE]
    /\ shared = [f \in Files |-> FALSE]

\* A process ends its run.
Ends(p) ==
    /\ pc' = [pc EXCEPT ![p] = "idle"]
    /\ got' = [got EXCEPT ![p] = <<>>]
    /\ header' = [header EXCEPT ![p] = 0]
    /\ file' = [file EXCEPT ![p] = 1]
    /\ force' = [force EXCEPT ![p] = FALSE]

Close(p) == handle' = [handle EXCEPT ![p] = "none"]

\* part.unlink(missing_ok=True), which takes whatever file has that name.
UnlinkPart(p) ==
    /\ part' = [part EXCEPT ![file[p]] = Absent]
    /\ handle' = [q \in Procs |->
          IF q = p THEN "none"
          ELSE IF file[q] = file[p] /\ handle[q] = "part" THEN "gone" ELSE handle[q]]

-----------------------------------------------------------------------------
(* download() *)

Start(p, f) ==
    /\ pc[p] = "idle"
    /\ pc' = [pc EXCEPT ![p] = "file"]
    /\ force' = [force EXCEPT ![p] = f]
    /\ UNCHANGED <<known, disk, file, handle, got, header, leftover, shared>>

\* Mutant: a .part file counts as the file.
PresentInPart(f) == dest[f] # Absent \/ part[f] # Absent

Present(f) == dest[f] # Absent

\* Go on with the next file, or be done.
Advance(p) ==
    IF file[p] = Max(Files)
    THEN pc' = [pc EXCEPT ![p] = "done"] /\ UNCHANGED file
    ELSE pc' = [pc EXCEPT ![p] = "file"] /\ file' = [file EXCEPT ![p] = @ + 1]

Skip(p) ==
    /\ pc[p] = "file" /\ Present(file[p]) /\ ~force[p]
    /\ Advance(p)
    /\ UNCHANGED <<known, disk, force, handle, got, header, leftover, shared>>

Done(p) ==
    /\ pc[p] = "done"
    /\ Ends(p) /\ Close(p)
    /\ UNCHANGED <<known, disk, leftover, shared>>

-----------------------------------------------------------------------------
(* _stream_to_file() *)

Fetching(p) == pc[p] = "file" /\ (~Present(file[p]) \/ force[p])

\* The other runs that have the .part of this file.
Others(p) == {q \in Procs \ {p} : file[q] = file[p] /\ pc[q] \in {"receive", "verify"}}

\* The Content-Length of a response: none, that of the file, or another.
Announced == {0, Length, Length + 1}

\* Mutant: --force removes the old file before it fetches the new one.
ConnectRemovesOld(p) ==
    /\ Fetching(p)
    /\ part' = [part EXCEPT ![file[p]] = <<>>]
    /\ dest' = [dest EXCEPT ![file[p]] = Absent]
    /\ handle' = [handle EXCEPT ![p] = "part"]
    /\ leftover' = [leftover EXCEPT ![file[p]] = FALSE]
    /\ shared' = [shared EXCEPT ![file[p]] = @ \/ Others(p) # {}]
    /\ promised' = [promised EXCEPT ![file[p]] = IF shared'[file[p]] THEN 0 ELSE @]
    /\ \E n \in Announced : header' = [header EXCEPT ![p] = n]
    /\ pc' = [pc EXCEPT ![p] = "receive"]
    /\ UNCHANGED <<known, force, file, got>>

\* The response has begun, and open(part, "wb") creates or truncates the .part.
Connect(p) ==
    /\ Fetching(p)
    /\ part' = [part EXCEPT ![file[p]] = <<>>]
    /\ handle' = [handle EXCEPT ![p] = "part"]
    /\ leftover' = [leftover EXCEPT ![file[p]] = FALSE]
    /\ shared' = [shared EXCEPT ![file[p]] = @ \/ Others(p) # {}]
    /\ promised' = [promised EXCEPT ![file[p]] = IF shared'[file[p]] THEN 0 ELSE @]
    /\ \E n \in Announced : header' = [header EXCEPT ![p] = n]
    /\ pc' = [pc EXCEPT ![p] = "receive"]
    /\ UNCHANGED <<known, dest, force, file, got>>

\* blocks with b at position n, as write() at an offset leaves them.
Written(blocks, n, b) ==
    [k \in 1..Max({n, Len(blocks)}) |->
        IF k = n THEN b ELSE IF k <= Len(blocks) THEN blocks[k] ELSE "hole"]

\* http.client delivers no more than was announced; what a response without a
\* length has too much is bounded by one block.
Receive(p, b) ==
    /\ pc[p] = "receive"
    /\ Len(got[p]) < IF header[p] = 0 THEN Length + 1 ELSE header[p]
    /\ Len(got[p]) >= Length => b = "bad"
    /\ got' = [got EXCEPT ![p] = Append(@, b)]
    /\ LET with(blocks) == Written(blocks, Len(got[p]) + 1, b)
       IN  /\ part' = IF handle[p] = "part" THEN [part EXCEPT ![file[p]] = with(@)] ELSE part
           /\ dest' = IF handle[p] = "dest" THEN [dest EXCEPT ![file[p]] = with(@)] ELSE dest
    /\ UNCHANGED <<known, promised, pc, force, file, handle, header, leftover, shared>>

\* read() returns b"": the body is complete, or the connection was cut.
BodyEnds(p) ==
    /\ pc[p] = "receive"
    /\ pc' = [pc EXCEPT ![p] = "verify"]
    /\ Close(p)
    /\ UNCHANGED <<known, disk, force, file, got, header, leftover, shared>>

\* The server cannot be reached or stops answering, or a write fails.
StreamFails(p) ==
    /\ Fetching(p) \/ pc[p] = "receive"
    /\ UnlinkPart(p)
    /\ Ends(p)
    /\ UNCHANGED <<known, dest, promised, leftover, shared>>

\* _verify_size: expected_size is the length in the catalog, if it lists one.
SizeProblem(p) ==
    LET written == Len(got[p])
        expected == IF "size" \in known[file[p]] THEN Length ELSE 0
    IN  \/ header[p] # 0 /\ written # header[p]
        \/ expected # 0 /\ header[p] # 0 /\ header[p] # expected
        \/ expected # 0 /\ header[p] = 0 /\ written # expected

\* _verify_md5, if the catalog lists a digest.
DigestProblem(p) ==
    "md5" \in known[file[p]] /\ got[p] # [k \in 1..Length |-> "good"]

\* Mutant: the digest is thought to be enough.
DigestOnly(p) == DigestProblem(p)

Problem(p) == SizeProblem(p) \/ DigestProblem(p)

Reject(p) ==
    /\ pc[p] = "verify" /\ Problem(p)
    /\ UnlinkPart(p)
    /\ Ends(p)
    /\ UNCHANGED <<known, dest, promised, leftover, shared>>

\* part.replace(dest).
Install(p) ==
    /\ pc[p] = "verify" /\ ~Problem(p)
    /\ part[file[p]] # Absent
    /\ dest' = [dest EXCEPT ![file[p]] = part[file[p]]]
    /\ part' = [part EXCEPT ![file[p]] = Absent]
    /\ promised' = [promised EXCEPT ![file[p]] = IF shared[file[p]] THEN 0 ELSE header[p]]
    /\ handle' = [q \in Procs |->
          IF file[q] # file[p] THEN handle[q]
          ELSE CASE handle[q] = "part" -> "dest"
                 [] handle[q] = "dest" -> "gone"
                 [] OTHER -> handle[q]]
    /\ Advance(p)
    /\ got' = [got EXCEPT ![p] = <<>>]
    /\ header' = [header EXCEPT ![p] = 0]
    /\ UNCHANGED <<known, force, leftover, shared>>

\* The rename fails: the disk refuses, or another process took the .part.
InstallFails(p) ==
    /\ pc[p] = "verify" /\ ~Problem(p)
    /\ leftover' = [leftover EXCEPT ![file[p]] = TRUE]
    /\ Ends(p) /\ Close(p)
    /\ UNCHANGED <<known, disk, shared>>

\* Ctrl-C or a crash, at any moment.
Kill(p) ==
    /\ pc[p] # "idle"
    /\ Ends(p) /\ Close(p)
    /\ leftover' = [leftover EXCEPT ![file[p]] = @ \/ pc[p] \in {"receive", "verify"}]
    /\ UNCHANGED <<known, disk, shared>>

-----------------------------------------------------------------------------

Download(p) ==
    \/ \E f \in BOOLEAN : Start(p, f)
    \/ Skip(p) \/ Done(p)
    \/ Connect(p) \/ BodyEnds(p) \/ StreamFails(p)
    \/ \E b \in {"good", "bad"} : Receive(p, b)
    \/ Reject(p) \/ Install(p) \/ InstallFails(p)
    \/ Kill(p)

Next == \E p \in Procs : Download(p)

Spec == Init /\ [][Next]_vars

-----------------------------------------------------------------------------
(* Properties *)

Blocks == {"good", "bad", "hole"}

\* Every variable keeps its type, and a process holds a file open exactly while
\* it receives its body.
TypeOK ==
    /\ known \in [Files -> SUBSET {"size", "md5"}]
    /\ dest \in [Files -> Seq(Blocks) \cup {Absent}]
    /\ part \in [Files -> Seq(Blocks) \cup {Absent}]
    /\ pc \in [Procs -> {"idle", "file", "receive", "verify", "done"}]
    /\ force \in [Procs -> BOOLEAN] /\ file \in [Procs -> Files]
    /\ handle \in [Procs -> {"part", "dest", "gone", "none"}]
    /\ \A p \in Procs : handle[p] # "none" <=> pc[p] = "receive"
    /\ got \in [Procs -> Seq({"good", "bad"})]
    /\ header \in [Procs -> Announced] /\ promised \in [Files -> Announced]
    /\ leftover \in [Files -> BOOLEAN] /\ shared \in [Files -> BOOLEAN]

\* "An interrupted or corrupt download never leaves a usable-looking file": an
\* installed file has the content and the length that the catalog lists, as far
\* as it lists them, and the length that its response announced, if it did,
\* whatever was cut, corrupted or killed in this run or an earlier one.  Two cases
\* are excepted.  Nothing can be told of a file for which the catalog has neither
\* and the response no length: a body that was cut is taken for it.  And two runs
\* that are at the same file share its .part, while each checks the bytes that it
\* received itself.
InstalledIsWhole ==
    \A f \in Files : dest[f] # Absent /\ ~shared[f] =>
        /\ "md5" \in known[f] => dest[f] = [k \in 1..Length |-> "good"]
        /\ "size" \in known[f] => Len(dest[f]) = Length
        /\ promised[f] # 0 => Len(dest[f]) = promised[f]

\* The gateway may be using the voice: a download that replaces a file, or that
\* fails to, never takes the old one away before the new one is in its place,
\* and never writes to it (unless two runs share its .part).
InstalledStays ==
    [][\A f \in Files : dest[f] # Absent =>
          /\ dest'[f] # Absent
          /\ dest'[f] = dest[f] \/ shared[f] \/ (part'[f] = Absent /\ dest'[f] = part[f])]_vars

\* A run that ends well leaves both files, whichever of them earlier runs had
\* left in whichever state.
SuccessIsComplete ==
    \A p \in Procs : pc[p] = "done" => \A f \in Files : dest[f] # Absent

\* A .part file is being written, or is what a run that was killed (or whose
\* rename failed) left for the next one to truncate: what is rejected is removed.
PartsExplained ==
    \A f \in Files : part[f] # Absent =>
        \/ leftover[f]
        \/ \E p \in Procs : file[p] = f /\ pc[p] \in {"receive", "verify"}

\* The directory is always one that the next run, of any process, can complete.
Recoverable == TypeOK /\ SuccessIsComplete /\ PartsExplained

MCSymmetry == Permutations(Procs)
\* Between the two files, each of the four things a catalog may list.
MCListings == {<<{"size", "md5"}, {}>>, <<{"md5"}, {"size"}>>}
=============================================================================
