----------------------- MODULE SynthesisCacheProperties -----------------------
(***************************************************************************)
(* What the clip cache must and must not do.                               *)
(***************************************************************************)
EXTENDS SynthesisCache, TLC

\* Every variable keeps the type of the field or file it models.
TypeOK ==
    /\ DOMAIN index \subseteq Keys
    /\ \A k \in DOMAIN index : index[k] \in Entry /\ index[k].atime <= clock
    /\ clock \in Nat
    /\ lock \in Threads \cup {None}
    /\ pc \in [Threads -> {"idle", "get", "synthesize", "put", "replace",
                           "index", "evict", "save"}]
    /\ \A t \in Threads : pc[t] \in {"replace", "index", "evict", "save"} => lock = t
    /\ key \in [Threads -> Keys \cup {None}]
    /\ clip \in [Threads -> Sizes \cup {0}]
    /\ DOMAIN blobs \subseteq Keys
    /\ \A k \in DOMAIN blobs : blobs[k] \in Blob
    /\ DOMAIN saved.entries \subseteq Keys
    /\ Range(recency) = DOMAIN index

\* What a lookup returns is a clip that was written in full: neither a write
\* that failed half-way nor a process killed in one leaves a partial clip that
\* a later lookup, perhaps after a restart with an older index, would play.
HitIsWhole == served = None \/ served.whole

\* Between two operations the indexed clips fit the budget, whatever failed,
\* was lost or was restarted before.
WithinBudget == lock = None => Bytes(index) <= MaxBytes

\* As long as no file operation failed and the process was not killed, the disk
\* holds exactly the clips of the index and their sizes are the indexed ones:
\* then the budget is one for the disk.
DiskMatchesIndex ==
    faults = 0 /\ lock = None =>
        /\ DOMAIN blobs = DOMAIN index
        /\ \A k \in DOMAIN index : blobs[k].size = index[k].size

\* The index, the budget and the disk agree whenever no operation is under way.
Consistent == TypeOK /\ WithinBudget /\ DiskMatchesIndex

\* Eviction takes the least recently used clip first: also when two threads
\* interleave, when the same text is stored twice, and after a restart, when
\* what the new process uses must count as more recent than what it loaded.
EvictsLeastRecentlyUsed ==
    [][\A t \in Threads :
          pc[t] = "evict" /\ pc'[t] = "evict" /\ index' # index =>
              DOMAIN index' = DOMAIN index \ {Head(recency)}]_vars

\* The cache keeps its contract: on the disk a put() happens at once, when its
\* blob is replaced, and every other step of a get(), of a put(), of an eviction
\* or of a restart changes no clip or loses one, whatever fails in between and
\* however the steps of several threads interleave.
Contract == INSTANCE ClipStore
    WITH clips <- blobs, Clips <- [size : Sizes, whole : {TRUE}], NoClip <- None

KeepsContract == Contract!Spec

MCSymmetry == Permutations(Keys) \cup Permutations(Threads)
=============================================================================
