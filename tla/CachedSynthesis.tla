--------------------------- MODULE CachedSynthesis ---------------------------
(***************************************************************************)
(* SpeechService._synthesize_cached together with the provider it calls,   *)
(* while the voice model is swapped on disk: when does a cached clip       *)
(* outlive the model it was made with?  The key of a clip holds the        *)
(* fingerprint of its provider: for piper and kokoro the mtime of the      *)
(* model file, or the bare name of the provider while the file cannot be   *)
(* found; for the others a constant.  Versions of the model stand for its  *)
(* mtimes: it is assumed that a file that was not there before comes with  *)
(* a later mtime than every file before it (an old one that is copied back *)
(* over a newer one with its old mtime is left out).  The text, voice and  *)
(* options are the same throughout.                                        *)
(*                                                                         *)
(* The cache is the contract that SynthesisCache is proved to keep: a      *)
(* function from fingerprints to clips that forgets (ClipStore).           *)
(*                                                                         *)
(* A definition marked "Mutant" is not part of the model: it is a bug that *)
(* the definition after it could have had, and that a property catches.    *)
(***************************************************************************)
EXTENDS Naturals

CONSTANTS
    Threads,        \* the threads that synthesize
    Provider,       \* "piper" runs a process per clip, "kokoro" keeps an engine
    MaxSwaps        \* bound: how often the model is swapped

ASSUME ProviderAssumption == Provider \in {"piper", "kokoro"}
ASSUME SwapsAssumption == MaxSwaps \in Nat

VARIABLES
    model,          \* the version of the model file
    present,        \* the file is where the provider looks for it
    engine,         \* KokoroProvider._engine: the version loaded, 0 for None
    cache,          \* from fingerprints to the version that made the clip
    pc,             \* where each thread is
    fingerprint,    \* the fingerprint in the key it computed
    audio,          \* the version that made the clip it synthesized
    served,         \* history: the version that made the last cached clip served
    since           \* history: the version on disk when its request began

files == <<model, present>>
requests == <<pc, fingerprint, audio, since>>
vars == <<files, engine, cache, served, requests>>
Versions == 1..(MaxSwaps + 1)
Name == 0           \* the fingerprint that all versions share: "piper", "kokoro"

Cache == INSTANCE ClipStore
    WITH clips <- cache, Keys <- Versions \cup {Name}, Clips <- Versions, NoClip <- 0

Init ==
    /\ model = 1 /\ present \in BOOLEAN /\ engine = 0
    /\ Cache!Init
    /\ pc = [t \in Threads |-> "idle"]
    /\ fingerprint = [t \in Threads |-> 0]
    /\ audio = [t \in Threads |-> 0]
    /\ since = [t \in Threads |-> 0]

Request(t) ==
    /\ pc[t] = "idle"
    /\ since' = [since EXCEPT ![t] = model]
    /\ pc' = [pc EXCEPT ![t] = "fingerprint"]
    /\ UNCHANGED <<files, engine, cache, served, fingerprint, audio>>

Return(t) ==
    /\ pc' = [pc EXCEPT ![t] = "idle"]
    /\ fingerprint' = [fingerprint EXCEPT ![t] = 0]
    /\ audio' = [audio EXCEPT ![t] = 0]
    /\ since' = [since EXCEPT ![t] = 0]

\* synthesis_fingerprint: st_mtime_ns of the model file, and the name of the
\* provider when the file cannot be resolved or its status not be read.
Mtime == IF present THEN model ELSE Name

Fingerprint(t) ==
    /\ pc[t] = "fingerprint"
    /\ fingerprint' = [fingerprint EXCEPT ![t] = Mtime]
    /\ pc' = [pc EXCEPT ![t] = "get"]
    /\ UNCHANGED <<files, engine, cache, served, audio, since>>

Hit(t) ==
    /\ pc[t] = "get"
    /\ Cache!Serve(fingerprint[t])
    /\ Return(t)
    /\ UNCHANGED <<files, engine>>

\* A clip that is on disk may be missed: an entry that the index lost, whose file
\* stays and is found again with an older index, after a restart.
Miss(t) ==
    /\ pc[t] = "get"
    /\ pc' = [pc EXCEPT ![t] = "synthesize"]
    /\ UNCHANGED <<files, engine, cache, served, fingerprint, audio, since>>

\* piper reads the model file; kokoro reads it once and keeps the engine.
Synthesize(t) ==
    /\ pc[t] = "synthesize"
    /\ present \/ (Provider = "kokoro" /\ engine # 0)
    /\ engine' = IF Provider = "kokoro" /\ engine = 0 THEN model ELSE engine
    /\ audio' = [audio EXCEPT ![t] = IF Provider = "kokoro" THEN engine' ELSE model]
    /\ pc' = [pc EXCEPT ![t] = "put"]
    /\ UNCHANGED <<files, cache, served, fingerprint, since>>

\* The model is missing, or the synthesis fails: nothing is stored.
SynthesizeFails(t) ==
    /\ pc[t] = "synthesize"
    /\ Return(t)
    /\ UNCHANGED <<files, engine, cache, served>>

\* Mutant: the fingerprint is taken again when the clip is stored.
StoreAnew(t) ==
    /\ pc[t] = "put"
    /\ Cache!Store(Mtime, audio[t])
    /\ Return(t)
    /\ UNCHANGED <<files, engine>>

\* put() under the key computed before the synthesis; it swallows its failures,
\* and what was there stays.
Store(t) ==
    /\ pc[t] = "put"
    /\ Cache!Store(fingerprint[t], audio[t]) \/ UNCHANGED <<cache, served>>
    /\ Return(t)
    /\ UNCHANGED <<files, engine>>

\* The clip is evicted or lost.
Forget(v) ==
    /\ v \in DOMAIN cache
    /\ Cache!Lose(v)
    /\ UNCHANGED <<files, engine, requests>>

\* A new model file, in the place of the old one (atomically, as the downloader
\* does it) or where there is none.
Swap ==
    /\ model <= MaxSwaps
    /\ model' = model + 1 /\ present' = TRUE
    /\ UNCHANGED <<engine, cache, served, requests>>

\* The file is taken away, or cannot be read; it comes back as it was.
Hide ==
    /\ present' = ~present
    /\ UNCHANGED <<model, engine, cache, served, requests>>

Restart ==
    /\ engine' = 0
    /\ pc' = [t \in Threads |-> "idle"]
    /\ fingerprint' = [t \in Threads |-> 0]
    /\ audio' = [t \in Threads |-> 0]
    /\ since' = [t \in Threads |-> 0]
    /\ Cache!Restart
    /\ UNCHANGED files

Next ==
    \/ \E t \in Threads :
          \/ Request(t) \/ Fingerprint(t) \/ Hit(t) \/ Miss(t)
          \/ Synthesize(t) \/ SynthesizeFails(t) \/ Store(t)
    \/ \E v \in Versions \cup {Name} : Forget(v)
    \/ Swap \/ Hide \/ Restart

Spec == Init /\ [][Next]_vars

-----------------------------------------------------------------------------
(* Properties *)

\* The versions that fingerprints and clips may hold.
TypeOK ==
    /\ model \in Nat /\ present \in BOOLEAN /\ engine \in Nat
    /\ DOMAIN cache \subseteq Nat /\ cache \in [DOMAIN cache -> Nat]
    /\ pc \in [Threads -> {"idle", "fingerprint", "get", "synthesize", "put"}]
    /\ fingerprint \in [Threads -> Nat]
    /\ audio \in [Threads -> Nat]
    /\ since \in [Threads -> Nat]

\* "Swapping the model in place (same path, new bytes) must invalidate any clips
\* synthesized from the old one" (providers/kokoro.py:141, docs/configuration.md
\* 117): a request that begins after a swap is not served a cached clip of the
\* older model, however the swap races with the fingerprint, the synthesis and
\* the store of other requests, and across restarts.  The one exception is a
\* request that found no model file: the clip of any version may lie under the
\* name of the provider.
HitIsCurrent ==
    [][\A t \in Threads :
          Hit(t) /\ fingerprint[t] # Name => cache[fingerprint[t]] >= since[t]]_vars

\* Why it holds for piper: a clip is never older than the mtime it is stored
\* under, nor that mtime than the beginning of its request.
NeverOlder ==
    /\ \A v \in DOMAIN cache \ {Name} : cache[v] >= v
    /\ \A t \in Threads :
          /\ since[t] <= model /\ fingerprint[t] <= model
          /\ pc[t] \in {"get", "synthesize", "put"} =>
                fingerprint[t] = Name \/ fingerprint[t] >= since[t]
          /\ pc[t] = "put" => audio[t] >= fingerprint[t] /\ audio[t] >= since[t]
=============================================================================
