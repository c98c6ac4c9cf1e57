-------------------------- MODULE ProviderRegistry --------------------------
(***************************************************************************)
(* The provider registry as the threads of the gateway use it: requests    *)
(* resolve a provider, report on all of them or list their voices, while   *)
(* providers appear and disappear on the machine, an embedder registers    *)
(* one at runtime and SpeechService.close shuts everything down.  Nothing  *)
(* here holds a lock: ProviderRegistry.get and KokoroProvider._load check, *)
(* create and read again in separate steps.                                *)
(*                                                                         *)
(* A thread stands for a request from start to end; the synthesis that the *)
(* playback worker runs later for it is its last part, which is why close  *)
(* does not wait for it (queue.close gives up after five seconds and never *)
(* waits for a look-ahead synthesis).                                      *)
(*                                                                         *)
(* A definition marked "Mutant" is not part of the model: it is a bug that *)
(* the definition after it could have had, and that a property catches.    *)
(***************************************************************************)
EXTENDS Naturals, SequencesExt

CONSTANTS
    Threads,        \* the requests
    Catalog,        \* all provider names, sorted as names() sorts them
    Installed,      \* the names create_default_registry finds; others may fail to load
    Engines,        \* providers that load an engine lazily: kokoro
    Crashing,       \* providers whose voices() raises
    Priority,       \* speech.provider_priority
    Default,        \* speech.default_provider: a name, or "auto"
    None,
    MaxChanges      \* bound: how often a provider comes, goes or is replaced

VARIABLES
    classes,        \* ProviderRegistry._classes: the names registered
    order,          \* the keys of ProviderRegistry._instances, in insertion order
    stored,         \* its values, numbered as they are constructed; 0 if there is none
    made,           \* how many instances have been constructed
    unclosed,       \* the instances whose close() was not called
    loaded,         \* the instances that hold an engine
    up,             \* whether what a provider needs is on the machine
    close,          \* where SpeechService.close is
    pos, size,      \* its iteration over the instances
    \* per request: where it is, what it asks of which provider, the names it still
    \* has to try, the instance it uses, the providers it lists, and its outcome
    pc, op, pick, todo, inst, shown, out,
    \* history variables, for the properties only
    changes,        \* how often a provider came, went or was replaced
    replaced,       \* the names registered at runtime
    excused,        \* the instances replaced, or loaded again after their close()
    began, ended,   \* how many instances there were when close began and when it raised
    down            \* per request: the providers that were unusable at some moment of it

registryVars == <<classes, order, stored, made, unclosed, loaded>>
closeVars == <<close, pos, size>>
requestVars == <<pc, op, pick, todo, inst, shown, out>>
pastVars == <<changes, replaced, excused, began, ended, down>>
vars == <<registryVars, up, closeVars, requestVars, pastVars>>

Names == Range(Catalog)
Keys == Range(order)

Outcomes == {"answered", "clip", "SynthesisError", "ProviderUnavailable", "UnknownProvider",
             "KeyError", "provider crashed"}

ASSUME NamesAssumption ==
    Catalog \in Seq(Names) /\ Installed \subseteq Names /\ Priority \in Seq(Names)

ASSUME NoneAssumption == None \notin Outcomes

\* The names of S in their order.
Sorted(S) ==
    LET kept[i \in 0..Len(Catalog)] ==
          IF i = 0 THEN <<>>
          ELSE IF Catalog[i] \in S THEN Append(kept[i - 1], Catalog[i]) ELSE kept[i - 1]
    IN  kept[Len(Catalog)]

Name(t) == Head(todo[t])

Init ==
    /\ \E plugins \in SUBSET (Names \ Installed) : classes = Installed \cup plugins
    /\ order = <<>> /\ stored = [n \in Names |-> 0]
    /\ made = 0 /\ unclosed = {} /\ loaded = {}
    /\ up \in [Names -> BOOLEAN]
    /\ close = "open" /\ pos = 0 /\ size = 0
    /\ pc = [t \in Threads |-> "idle"] /\ inst = [t \in Threads |-> 0]
    /\ op = [t \in Threads |-> None] /\ pick = [t \in Threads |-> None]
    /\ todo = [t \in Threads |-> <<>>] /\ shown = [t \in Threads |-> {}]
    /\ out = [t \in Threads |-> None]
    /\ changes = 0 /\ replaced = {} /\ excused = {}
    /\ began = 0 /\ ended = 0 /\ down = [t \in Threads |-> {}]

RequestOnly == UNCHANGED <<registryVars, up, closeVars, op, pastVars>>

\* The request goes on with the same provider, with the next of its names, or is over.
Goes(t, p) ==
    /\ pc' = [pc EXCEPT ![t] = p]
    /\ UNCHANGED <<pick, todo, inst, shown, out>>

Tries(t, names) ==
    /\ pc' = [pc EXCEPT ![t] = "check"]
    /\ todo' = [todo EXCEPT ![t] = names] /\ inst' = [inst EXCEPT ![t] = 0]
    /\ UNCHANGED out

Ends(t, what) ==
    /\ pc' = [pc EXCEPT ![t] = "done"]
    /\ out' = [out EXCEPT ![t] = what] /\ inst' = [inst EXCEPT ![t] = 0]
    /\ UNCHANGED <<pick, todo, shown>>

-----------------------------------------------------------------------------
(***************************************************************************)
(* Requests: resolve_provider, voices and providers_info of the service.   *)
(***************************************************************************)

Unusable == {n \in Names : n \notin classes \/ ~up[n]}
\* The requests whose history of unusable providers is kept.
Watched(what, which) == <<what, which>> \in {<<"speak", "auto">>, <<"voices", "all">>}

MutantCandidates == Sorted(classes)

\* The providers an auto request tries, in this order.
Candidates == Priority

Begin(t) ==
    /\ pc[t] = "idle"
    /\ \E what \in {"speak", "status", "report", "voices"}, which \in Names \cup {"auto", "all"} :
         /\ which = "all" <=> (what = "voices" /\ which \notin Names)
         /\ what \in {"status", "report"} => which = Default
         /\ op' = [op EXCEPT ![t] = what] /\ pick' = [pick EXCEPT ![t] = which]
         /\ down' = [down EXCEPT ![t] = IF Watched(what, which) THEN Unusable ELSE {}]
         /\ Tries(t, CASE which = "auto" -> Candidates
                       [] which = "all" -> Sorted(classes)
                       [] OTHER -> <<which>>)
    /\ UNCHANGED <<registryVars, up, closeVars, shown,
                   changes, replaced, excused, began, ended>>

NextName(t) == Tries(t, Tail(todo[t])) /\ UNCHANGED <<pick, shown>>

ReportAll(t) ==
    Tries(t, Sorted(classes)) /\ pick' = [pick EXCEPT ![t] = "all"] /\ UNCHANGED shown

MutantRaises(t, what) ==
    CASE op[t] = "status" -> Ends(t, "answered")
      [] op[t] = "report" /\ pick[t] # "all" -> ReportAll(t)
      [] OTHER -> Ends(t, what)

\* What the request does when its provider raised what: resolve_provider and
\* voices(provider) pass it on, status and the listing of all voices do not.
Raises(t, what) ==
    CASE op[t] = "status" -> Ends(t, "answered")
      [] op[t] = "report" /\ pick[t] # "all" -> ReportAll(t)
      [] op[t] = "voices" /\ pick[t] = "all" -> NextName(t)
      [] OTHER -> Ends(t, what)

Resolves(t) == pick[t] # "all" /\ op[t] # "voices"

Exhausted(t) ==
    /\ pc[t] = "check" /\ todo[t] = <<>>
    /\ IF Resolves(t) THEN Raises(t, "ProviderUnavailable") ELSE Ends(t, "answered")
    /\ RequestOnly

-----------------------------------------------------------------------------
(***************************************************************************)
(* ProviderRegistry.get: three looks at two dictionaries without a lock.   *)
(***************************************************************************)

GetCheck(t) ==
    /\ pc[t] = "check" /\ todo[t] # <<>>
    /\ \/ /\ Name(t) \notin classes
          /\ IF pick[t] = "auto" THEN NextName(t) ELSE Raises(t, "UnknownProvider")
       \/ /\ Name(t) \in classes \ Keys
          /\ Goes(t, "store")
       \/ /\ Name(t) \in classes \cap Keys
          /\ Goes(t, "read")
    /\ RequestOnly

\* The instance that a name loses is never closed.
Drops(n) == excused' = excused \cup IF n \in Keys THEN {stored[n]} ELSE {}

GetStore(t) ==
    /\ pc[t] = "store"
    /\ made' = made + 1 /\ unclosed' = unclosed \cup {made + 1}
    /\ stored' = [stored EXCEPT ![Name(t)] = made + 1]
    /\ order' = IF Name(t) \in Keys THEN order ELSE Append(order, Name(t))
    /\ Drops(Name(t))
    /\ Goes(t, "read")
    /\ UNCHANGED <<classes, loaded, up, closeVars, op, changes, replaced, began, ended, down>>

GetRead(t) ==
    /\ pc[t] = "read"
    /\ IF Name(t) \notin Keys THEN Raises(t, "KeyError")
       ELSE /\ pc' = [pc EXCEPT ![t] = IF op[t] = "voices" THEN "call" ELSE "availability"]
            /\ inst' = [inst EXCEPT ![t] = stored[Name(t)]]
            /\ UNCHANGED <<pick, todo, shown, out>>
    /\ RequestOnly

Availability(t) ==
    /\ pc[t] = "availability"
    /\ CASE pick[t] = "all" -> NextName(t)                             \* providers_info
         [] ~up[Name(t)] /\ pick[t] = "auto" -> NextName(t)
         [] ~up[Name(t)] /\ pick[t] \notin {"auto", "all"} -> Raises(t, "ProviderUnavailable")
         [] up[Name(t)] /\ pick[t] # "all" /\ op[t] = "speak" -> Goes(t, "call")
         [] up[Name(t)] /\ pick[t] # "all" /\ op[t] = "status" -> Ends(t, "answered")
         [] OTHER -> ReportAll(t)
    /\ RequestOnly

-----------------------------------------------------------------------------
(***************************************************************************)
(* synthesize and voices, with KokoroProvider._load as the one that keeps  *)
(* state: the engine is checked, built and read again without a lock.      *)
(***************************************************************************)

Failed(t) == IF op[t] = "voices" THEN NextName(t) ELSE Ends(t, "SynthesisError")

Succeeded(t) ==
    IF op[t] = "voices"
    THEN /\ shown' = [shown EXCEPT ![t] = @ \cup {Name(t)}]
         /\ Tries(t, Tail(todo[t])) /\ UNCHANGED pick
    ELSE Ends(t, "clip")

Crashes(t) == Name(t) \in Crashing /\ op[t] = "voices"

Call(t) ==
    /\ pc[t] = "call"
    /\ \/ /\ Name(t) \in Engines
          /\ Goes(t, IF inst[t] \in loaded THEN "loaded" ELSE "load")
       \/ /\ Crashes(t)
          /\ Raises(t, "provider crashed")
       \/ /\ Name(t) \notin Engines /\ ~Crashes(t)
          /\ IF up[Name(t)] THEN Succeeded(t) ELSE Failed(t)
    /\ RequestOnly

EngineLoad(t) ==
    /\ pc[t] = "load"
    /\ IF up[Name(t)]
       THEN /\ loaded' = loaded \cup {inst[t]}
            /\ excused' = excused \cup ({inst[t]} \ unclosed)
            /\ Goes(t, "loaded")
       ELSE /\ Failed(t)
            /\ UNCHANGED <<loaded, excused>>
    /\ UNCHANGED <<classes, order, stored, made, unclosed, up, closeVars, op,
                   changes, replaced, began, ended, down>>

\* The engine is read again: create and get_voices of None raise, which
\* synthesize turns into a SynthesisError and voices into an empty list.
EngineRead(t) ==
    /\ pc[t] = "loaded"
    /\ IF inst[t] \in loaded THEN Succeeded(t) ELSE Failed(t)
    /\ RequestOnly

-----------------------------------------------------------------------------
(***************************************************************************)
(* The machine, the embedder, and SpeechService.close.                     *)
(***************************************************************************)

\* A package, model file or key appears or disappears.
Change(n) ==
    /\ changes < MaxChanges
    /\ changes' = changes + 1
    /\ up' = [up EXCEPT ![n] = ~up[n]]
    /\ down' = [t \in Threads |->
                   down[t] \cup IF Watched(op[t], pick[t]) THEN {n} ELSE {}]
    /\ UNCHANGED <<registryVars, closeVars, requestVars, replaced, excused, began, ended>>

\* register(replace=True) forgets the instance: it is never closed.
PopInstance(n) ==
    /\ order' = RemoveFirst(order, n) /\ stored' = [stored EXCEPT ![n] = 0]
    /\ Drops(n)

\* An embedder registers a class while the service is in use.
Register(n) ==
    /\ close = "open"
    /\ changes < MaxChanges
    /\ changes' = changes + 1
    /\ replaced' = replaced \cup {n}
    /\ classes' = classes \cup {n}
    /\ PopInstance(n)
    /\ UNCHANGED <<made, unclosed, loaded, up, closeVars, requestVars, began, ended, down>>

MutantCloseBegin ==
    /\ close = "open"
    /\ close' = "clearing" /\ order' = <<>> /\ stored' = [n \in Names |-> 0]
    /\ began' = made
    /\ UNCHANGED <<classes, made, unclosed, loaded, up, pos, size, requestVars,
                   changes, replaced, excused, ended, down>>

\* queue.close has returned: the worker ended or five seconds went by.
CloseBegin ==
    /\ close = "open"
    /\ close' = "iterating" /\ pos' = 1 /\ size' = Len(order)
    /\ began' = made
    /\ UNCHANGED <<registryVars, up, requestVars, changes, replaced, excused, ended, down>>

MutantCloseOne(i) == unclosed' = unclosed \ {i} /\ UNCHANGED loaded

\* instance.close(); only KokoroProvider overrides it.
CloseOne(i) == unclosed' = unclosed \ {i} /\ loaded' = loaded \ {i}

\* A dictionary that grew under the iteration ends it with a RuntimeError.
CloseNext ==
    /\ close = "iterating"
    /\ \/ /\ Len(order) # size
          /\ close' = "raised" /\ pos' = 0 /\ size' = 0
          /\ ended' = made
          /\ UNCHANGED <<unclosed, loaded>>
       \/ /\ Len(order) = size /\ pos <= size
          /\ CloseOne(stored[order[pos]])
          /\ pos' = pos + 1
          /\ UNCHANGED <<close, size, ended>>
       \/ /\ Len(order) = size /\ pos > size
          /\ close' = "clearing"
          /\ UNCHANGED <<unclosed, loaded, pos, size, ended>>
    /\ UNCHANGED <<classes, order, stored, made, up, requestVars,
                   changes, replaced, excused, began, down>>

\* _instances.clear(), and then player.close(), which the state leaves out.
CloseClear ==
    /\ close = "clearing"
    /\ order' = <<>> /\ stored' = [n \in Names |-> 0]
    /\ close' = "done" /\ pos' = 0 /\ size' = 0
    /\ UNCHANGED <<classes, made, unclosed, loaded, up, requestVars, pastVars>>

Close == CloseBegin \/ CloseNext \/ CloseClear

Step(t) ==
    \/ Exhausted(t) \/ GetCheck(t) \/ GetStore(t) \/ GetRead(t) \/ Availability(t)
    \/ Call(t) \/ EngineLoad(t) \/ EngineRead(t)

Next ==
    \/ \E t \in Threads : Begin(t) \/ Step(t)
    \/ \E n \in Names : Change(n) \/ Register(n)
    \/ Close

Spec == Init /\ [][Next]_vars

-----------------------------------------------------------------------------
Done(t) == pc[t] = "done"

\* An auto request that reached a provider passed over a better one only if
\* that one was unusable at some moment of the request (_resolve_auto).
AutoKeepsPriority ==
    \A t \in Threads :
        Done(t) /\ op[t] = "speak" /\ pick[t] = "auto" /\ out[t] \in {"clip", "SynthesisError"} =>
            \E i \in DOMAIN Priority :
                /\ Priority[i] = Name(t)
                /\ \A j \in 1..(i - 1) : Priority[j] \in down[t]

\* The listing of all voices shows every provider that was usable all along:
\* neither one that crashes nor a request that races hides another (voices).
ListingComplete ==
    \A t \in Threads :
        Done(t) /\ op[t] = "voices" /\ pick[t] = "all" /\ close = "open" =>
            Names \ (down[t] \cup Crashing \cup replaced) \subseteq shown[t]

\* A close that returned has closed every instance that was in the registry
\* when it began: what is left open lost a race with another request, was
\* replaced, came later, or was loaded again by a synthesis close did not wait
\* for.  It raises, and leaves the player open, only when a request added an
\* instance during the iteration (registry.close, service.close).
ShutdownReleases ==
    /\ close = "done" => (1..began) \cap (unclosed \cup loaded) \subseteq excused
    /\ close = "raised" => ended > began

\* A request fails with anything but a gateway error or a provider's own
\* crash only if the registry was emptied, or its provider registered anew,
\* under it (the second read of get).
OnlyRacesRaise ==
    \A t \in Threads :
        out[t] = "KeyError" => close = "done" \/ Name(t) \in replaced
=============================================================================
