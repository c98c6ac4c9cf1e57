---------------------------- MODULE SynthesisCache ----------------------------
(***************************************************************************)
(* core/cache.py and SpeechService._synthesize_cached: the on-disk cache   *)
(* of synthesized clips, used by the playback worker, its look-ahead and   *)
(* the API threads.  get() and put() hold one lock from end to end; the    *)
(* synthesis between them holds none.  Each action is one operation on the *)
(* file system, so that it can fail (OSError) and the process can be       *)
(* killed before or after it; a restart loads the index from disk.         *)
(*                                                                         *)
(* A clip is its size and whether it is whole; its format is left out.     *)
(*                                                                         *)
(* A definition marked "Mutant" is not part of the model: it is a bug that *)
(* the definition after it could have had, and that a property catches.    *)
(***************************************************************************)
EXTENDS Naturals, FiniteSetsExt, SequencesExt, Functions

CONSTANTS
    Keys,           \* cache keys: hashes of what determines the audio
    Threads,        \* the threads that synthesize
    None,           \* no thread, no key, no clip
    Sizes,          \* the sizes a clip may have
    MaxBytes,       \* cache.max_mb: SynthesisCache(max_bytes=...)
    MaxTicks,       \* bound: requests start while the clock is below
    MaxFaults       \* bound: crashes, I/O errors and losses of files

ASSUME NoneAssumption == None \notin Threads \cup Keys
ASSUME SizesAssumption == Sizes \subseteq Nat \ {0}
ASSUME BytesAssumption == MaxBytes \in Nat \ {0}
ASSUME BoundsAssumption == MaxTicks \in Nat /\ MaxFaults \in Nat

VARIABLES
    \* in memory
    index,          \* _index: a function from some keys to [size, atime]
    clock,          \* _clock
    lock,           \* _lock: the thread that holds it
    pc,             \* where each thread is
    key,            \* the key of its request
    clip,           \* the size of the clip it synthesized
    \* on disk
    blobs,          \* a function from some keys to [size, whole]
    saved,          \* what index.json would load: [entries, recency]
    \* history variables, for the properties only
    recency,        \* the indexed keys, least recently used first
    served,         \* the clip that the last hit returned
    faults          \* how many faults have happened

memory == <<index, clock, lock, recency>>
disk == <<blobs, saved>>
vars == <<memory, pc, key, clip, disk, served, faults>>

Entry == [size : Nat, atime : Nat]
Blob == [size : Nat, whole : BOOLEAN]

Empty == [k \in {} |-> 0]
\* index.json is absent, or cannot be parsed: an empty index is loaded.
Blank == [entries |-> Empty, recency |-> <<>>]

Put(f, k, v) == [x \in DOMAIN f \cup {k} |-> IF x = k THEN v ELSE f[x]]
Drop(f, k) == [x \in DOMAIN f \ {k} |-> f[x]]
Without(seq, k) == RemoveFirst(seq, k)

\* The bytes of a function from keys to records with a size.
Bytes(f) == MapThenSumSet(LAMBDA k : f[k].size, DOMAIN f)

Init ==
    /\ index = Empty /\ clock = 0 /\ lock = None
    /\ pc = [t \in Threads |-> "idle"]
    /\ key = [t \in Threads |-> None]
    /\ clip = [t \in Threads |-> 0]
    /\ blobs = Empty /\ saved = Blank
    /\ recency = <<>> /\ served = None /\ faults = 0

\* An operation on the file system fails.
Fault == faults < MaxFaults /\ faults' = faults + 1

Goto(t, label) == pc' = [pc EXCEPT ![t] = label]

\* _synthesize_cached returns, or raises.
Return(t) ==
    /\ Goto(t, "idle")
    /\ key' = [key EXCEPT ![t] = None]
    /\ clip' = [clip EXCEPT ![t] = 0]

-----------------------------------------------------------------------------
(* _synthesize_cached *)

\* A request whose key is k: the fingerprint and the key are computed.
Request(t, k) ==
    /\ pc[t] = "idle" /\ clock < MaxTicks
    /\ key' = [key EXCEPT ![t] = k]
    /\ Goto(t, "get")
    /\ UNCHANGED <<memory, clip, disk, served, faults>>

\* The provider synthesizes outside the lock: several threads may synthesize
\* the same text.
Synthesize(t) ==
    /\ pc[t] = "synthesize"
    /\ \E size \in Sizes : clip' = [clip EXCEPT ![t] = size]
    /\ Goto(t, "put")
    /\ UNCHANGED <<memory, key, disk, served, faults>>

SynthesizeFails(t) ==
    /\ pc[t] = "synthesize"
    /\ Return(t)
    /\ UNCHANGED <<memory, disk, served, faults>>

-----------------------------------------------------------------------------
(* get() *)

\* _forget of an indexed key: its blob is unlinked, or stays when that fails.
Forget(k) ==
    /\ index' = Drop(index, k)
    /\ recency' = Without(recency, k)
    /\ blobs' \in {Drop(blobs, k), blobs}

\* Mutant: reading a clip does not count as using it.
TouchNot(k) == UNCHANGED <<index, clock>>

\* _tick: the entry of k becomes the most recently used.
Touch(k) ==
    /\ clock' = clock + 1
    /\ index' = [index EXCEPT ![k].atime = clock + 1]

GetMiss(t) ==
    /\ pc[t] = "get" /\ lock = None
    /\ key[t] \notin DOMAIN index
    /\ Goto(t, "synthesize")
    /\ UNCHANGED <<memory, key, clip, disk, served, faults>>

GetHit(t) ==
    /\ pc[t] = "get" /\ lock = None
    /\ key[t] \in DOMAIN index /\ key[t] \in DOMAIN blobs
    /\ Touch(key[t])
    /\ recency' = Append(Without(recency, key[t]), key[t])
    /\ served' = blobs[key[t]]
    /\ lock' = t
    /\ Goto(t, "save")
    /\ UNCHANGED <<key, clip, disk, faults>>

\* The blob is missing, or cannot be read: the entry is forgotten.
GetUnreadable(t) ==
    /\ pc[t] = "get" /\ lock = None
    /\ key[t] \in DOMAIN index
    /\ IF key[t] \in DOMAIN blobs THEN Fault ELSE UNCHANGED faults
    /\ Forget(key[t])
    /\ Goto(t, "synthesize")
    /\ UNCHANGED <<clock, lock, key, clip, saved, served>>

-----------------------------------------------------------------------------
(* put() *)

\* Mutant: the blob is written in place.
WriteInPlace(t) ==
    /\ pc[t] = "put" /\ lock = None
    /\ lock' = t
    /\ blobs' = Put(blobs, key[t], [size |-> clip[t], whole |-> FALSE])
    /\ Goto(t, "replace")
    /\ UNCHANGED <<index, clock, recency, key, clip, saved, served, faults>>

\* The clip is written to a temporary file beside its blob.
PutWrite(t) ==
    /\ pc[t] = "put" /\ lock = None
    /\ lock' = t
    /\ Goto(t, "replace")
    /\ UNCHANGED <<index, clock, recency, key, clip, disk, served, faults>>

\* The write or the rename fails: put() returns, the caller has its clip.
PutFails(t) ==
    /\ pc[t] = "replace"
    /\ Fault
    /\ lock' = None
    /\ Return(t)
    /\ UNCHANGED <<index, clock, recency, disk, served>>

\* The temporary file, whole, replaces the blob atomically.
PutReplace(t) ==
    /\ pc[t] = "replace"
    /\ blobs' = Put(blobs, key[t], [size |-> clip[t], whole |-> TRUE])
    /\ Goto(t, "index")
    /\ UNCHANGED <<memory, key, clip, saved, served, faults>>

\* Mutant: storing a text again only counts as using its entry.
PutIndexKeepsEntry(t) ==
    /\ pc[t] = "index"
    /\ clock' = clock + 1
    /\ index' = IF key[t] \in DOMAIN index
                THEN [index EXCEPT ![key[t]].atime = clock + 1]
                ELSE Put(index, key[t], [size |-> clip[t], atime |-> clock + 1])
    /\ recency' = Append(Without(recency, key[t]), key[t])
    /\ Goto(t, "evict")
    /\ UNCHANGED <<lock, key, clip, disk, served, faults>>

PutIndex(t) ==
    /\ pc[t] = "index"
    /\ clock' = clock + 1
    /\ index' = Put(index, key[t], [size |-> clip[t], atime |-> clock + 1])
    /\ recency' = Append(Without(recency, key[t]), key[t])
    /\ Goto(t, "evict")
    /\ UNCHANGED <<lock, key, clip, disk, served, faults>>

OverBudget == Bytes(index) > MaxBytes

\* The least recently used entry: the smallest atime.
Oldest == CHOOSE k \in DOMAIN index :
    \A j \in DOMAIN index : index[k].atime <= index[j].atime

Evict(t) ==
    /\ pc[t] = "evict" /\ OverBudget
    /\ Forget(Oldest)
    /\ IF Oldest \in DOMAIN blobs' THEN Fault ELSE UNCHANGED faults
    /\ UNCHANGED <<clock, lock, pc, key, clip, saved, served>>

EvictDone(t) ==
    /\ pc[t] = "evict" /\ ~OverBudget
    /\ Goto(t, "save")
    /\ UNCHANGED <<memory, key, clip, disk, served, faults>>

\* _save_index, the last step of a hit and of a put: index.json is replaced
\* atomically, or stays as it was when that fails.
Save(t) ==
    /\ pc[t] = "save"
    /\ \/ saved' = [entries |-> index, recency |-> recency] /\ UNCHANGED faults
       \/ UNCHANGED saved /\ Fault
    /\ lock' = None
    /\ Return(t)
    /\ UNCHANGED <<index, clock, recency, blobs, served>>

-----------------------------------------------------------------------------
(* Crashes and restarts, and what others do to the directory *)

\* _clock after a restart: that of the most recently used entry loaded.
LoadClock(entries) == Max({0} \cup {entries[k].atime : k \in DOMAIN entries})

\* The process is killed at any moment and started again: _load_index reads
\* index.json, and ignores one that it cannot parse.
Restart ==
    /\ Fault
    /\ index' = saved.entries
    /\ recency' = saved.recency
    /\ clock' = LoadClock(saved.entries)
    /\ lock' = None
    /\ pc' = [t \in Threads |-> "idle"]
    /\ key' = [t \in Threads |-> None]
    /\ clip' = [t \in Threads |-> 0]
    /\ served' = None
    /\ UNCHANGED disk

\* Someone cleans ~/.cache, or the file system loses a file.
LoseBlob(k) ==
    /\ Fault
    /\ k \in DOMAIN blobs
    /\ blobs' = Drop(blobs, k)
    /\ UNCHANGED <<memory, pc, key, clip, saved, served>>

LoseIndex ==
    /\ Fault
    /\ saved' = Blank
    /\ UNCHANGED <<memory, pc, key, clip, blobs, served>>

-----------------------------------------------------------------------------

Step(t) ==
    \/ Synthesize(t) \/ SynthesizeFails(t)
    \/ GetMiss(t) \/ GetHit(t) \/ GetUnreadable(t)
    \/ PutWrite(t) \/ PutFails(t) \/ PutReplace(t) \/ PutIndex(t)
    \/ Evict(t) \/ EvictDone(t) \/ Save(t)

Environment == Restart \/ LoseIndex \/ \E k \in Keys : LoseBlob(k)

Next ==
    \/ \E t \in Threads, k \in Keys : Request(t, k)
    \/ \E t \in Threads : Step(t)
    \/ Environment

Spec == Init /\ [][Next]_vars
=============================================================================
