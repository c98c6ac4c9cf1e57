# TTS-Daemon in TLA+

A verification development for the TTS-Daemon gateway (`src/tts_daemon`): TLA+
modules translated from its code, TLC runs over small instances, and theorems
that TLAPS proves for every instance. Paths below are relative to
`src/tts_daemon` unless they start with `docs/`.

## 1. The system

A FastAPI process accepts texts (REST, WebSocket, an OpenAI-compatible
endpoint), queues them, synthesizes each with a provider (piper, kokoro, edge,
elevenlabs, openai, tone), caches the clips on disk, and plays them one after the
other through an external command.

| Component | State | Operations | What makes it correct |
|---|---|---|---|
| `core/queue.py` PlaybackQueue | deque, current utterance, history, closed flag (one condition); worker thread; single-slot look-ahead executor | submit, clear, find, snapshot, close; the worker loop | no utterance lost or spoken after its end; first in first out; truthful history and events; a stop covers all that was live; everything ends |
| `core/models.py` Utterance | state, cancel flag, done event (own lock) | transition, request_cancel, wait | terminal states latch |
| `core/service.py` SpeechService | registry, queue, cache, player | speak, stop, synthesize, status, voices, close | interrupt clears before it submits; cached synthesis never serves a stale clip |
| `core/cache.py` SynthesisCache | index and clock in memory; blobs and `index.json` on disk | get, put, evict, load, save | whole clips, size budget, LRU, also after crashes and file errors |
| `players/command.py` CommandPlayer | session, its subprocess and stopped flag, temporary file | play, stop, close | the `AudioPlayer` contract: a stop reaches exactly the clip that plays |
| `core/events.py`, `api/event_bridge.py`, `api/websocket.py`, SSE in `api/http.py` | handlers; one bounded buffer per consumer | publish, subscribe, offer, consume | playback never blocks, drop-oldest, subscriptions released |
| `providers/registry.py`, resolution in `core/service.py` | classes, instances | register, get, names, close; resolve, list, report | the priority is kept; listings are complete; a shutdown closes what is there |
| `providers/*` | kokoro keeps an engine, the others nothing | synthesize, synthesis_fingerprint, availability, voices | fingerprints change with the audio; what is reported available can speak; faults become gateway errors |
| `voices.py` | files and `.part` sidecars | download, verify, rename | an interrupted download never looks usable |
| `core/chunking.py`, `config.py` | none (pure) | split, merge | no character lost, limits kept, sentences whole; precedence of the layers |
| `api/http.py`, `api/app.py` | the limited threads, requests in flight | the handlers, error answers, shutdown | answers are true; only requests that wait may starve others; a shutdown ends |
| `api/auth.py`, `api/openai_compat.py` | none | verify, map models and voices | both doors agree |
| `cli.py`, `client.py`, the Claude Code hook | none (files they write) | the commands | exit status and output tell what happened; downloads land where they are looked for |
| browser script, installer, release scripts, playground | none | calls of the API | not modelled (section 6) |

**Interaction.** API threads call the service, which calls the queue under its
condition; the worker calls the provider (through the cache) and the player
outside every lock; `clear()` calls `player.stop()` from the API thread. The
queue publishes events synchronously on whichever thread causes them. Handlers
that may block run on anyio's limited threads, and a `wait=true` request keeps one
until its text has ended. No lock guards the registry: requests, the worker and
`close()` meet in it as they come.

**Hard behaviours.** `clear()` against the worker's `popleft()`; a flag set
between the worker's test and the clip it starts; `player.stop()` reaching the
clip before, or after, the intended one; events published outside the lock; a
look-ahead that cannot be cancelled; `close()` giving up after five seconds; a
crash between a blob and its index; a model swapped between fingerprint and
synthesis; a provider created while the registry closes; two downloads that share
one `.part`; all threads behind `wait=true` when a stop arrives. The list, line by line, is `hazards` in `PROJECT.json`.

## 2. Modules

| Module | Models | Uses |
|---|---|---|
| `AudioPlayer` | the contract of `interfaces.AudioPlayer`: a session that is idle, playing or stopped | |
| `SpeechQueue` | what the queue promises: waiting list, one lane, one irrevocable outcome per text | |
| `PlaybackQueue` | `core/queue.py`, `core/models.py`, `speak`/`stop`/`close` of the service and the waiting request of `api/http.py` | `AudioPlayer` |
| `PlaybackQueueProperties` | its properties, and the refinement of `SpeechQueue` | `PlaybackQueue`, `SpeechQueue` |
| `PlaybackQueueInvariant` | the inductive invariant of the queue, part by part | properties |
| `StopObserver` | the queue with one history variable: what a stop must cover | invariant |
| `PlaybackQueueProofs` | theorems about the queue | `StopObserver` |
| `MCPlaybackQueue` | symmetry for TLC | invariant |
| `CommandPlayer` | `players/command.py` and its subprocess; refines `AudioPlayer` | `AudioPlayer` |
| `CommandPlayerProofs` | inductive invariant and theorems | `CommandPlayer` |
| `ClipStore` | contract of the cache: a function from keys to clips that forgets | |
| `SynthesisCache` | `core/cache.py` with two or more threads in `_synthesize_cached`, crashes and file errors | |
| `SynthesisCacheProperties` | its properties; implements `ClipStore` | `SynthesisCache`, `ClipStore` |
| `SynthesisCacheProofs` | sums over finite sets, inductive invariant and theorems | properties |
| `CachedSynthesis` | fingerprint, lookup, synthesis and store while the model file is swapped | `ClipStore` |
| `EventStream` | `core/events.py`, `api/event_bridge.py`, the endpoint of `api/websocket.py` and `GET /v1/events` | |
| `EventStreamProofs` | inductive invariant and theorems | `EventStream` |
| `ProviderRegistry` (`MCProviderRegistry`) | `providers/registry.py`, resolution, listing and shutdown of `core/service.py`, the engine of `providers/kokoro.py` | |
| `ProviderRegistryProofs` | inductive invariant and theorems | `ProviderRegistry` |
| `ApiRequests` (`MCApiRequests`) | the handlers of `api/http.py` and the commands of `api/websocket.py` on their threads, error answers, the lifespan of `api/app.py` | `SpeechQueue` |
| `ApiRequestsProofs` | inductive invariant and theorems | `ApiRequests` |
| `VoiceDownload` | `download()` of both downloaders and `_stream_to_file` of `voices.py`, by two processes, with kills and faults | |
| `VoiceDownloadProofs` | inductive invariant and theorems | `VoiceDownload` |
| `Chunking` | `core/chunking.py` and `_plan_chunks`, one action per turn of their loops | |
| `ConfigLayers` (`MCConfigLayers`) | the layering of `load_config`, path by path, a variable of the environment at a time | |
| `ConfigTrees` | the same as the walk and the recursion of the code; `MCConfigLayers` compares the two | |
| `ServiceProofs` | inductive invariants and theorems of cached synthesis, chunking and the configuration, theorems of the hook | `CachedSynthesis`, `Chunking`, `ConfigLayers`, `HookScript` |
| `PiperModels` | the choice of a model, `availability`, `voices` and fingerprint of `providers/piper.py` | |
| `VoiceCatalog` | the parsing and filtering of the catalog of voices, and the names of what is downloaded | `PiperModels` |
| `ProviderFaults` | `synthesize` and `voices` of five providers and `_http.py` against the faults behind them | |
| `PlayerChoice` | `players/__init__.py` and the detection, argv and availability of the players | |
| `Doors` | `api/auth.py`, `api/openai_compat.py` | |
| `CommandLine` | `cli.py`, `client.py`, the choice of the configuration file | |
| `HookScript` | `integrations/claude-code/claude_code_speak.py` | |
| `BoundedInputs` | runs `Chunking` and `ConfigLayers`, and the functions of `PiperModels` and the six modules after it on one input at a time, and names their properties | those |

A definition whose name begins with `Mutant`, or that a comment introduces as
one, is not part of a model: it is a plausible bug of the definition that follows
it, kept to show that a property notices it (`mutants` in `PROJECT.json`).

The composition is by contract: `PlaybackQueue` drives an `AudioPlayer` (INSTANCE
with the shared `session`), and `CommandPlayer` is checked to implement the same
module, so that the two need not be explored together; `CachedSynthesis` uses a `ClipStore`,
which `SynthesisCache` is proved to implement; `ApiRequests` puts the
request handlers in front of `SpeechQueue`, which `PlaybackQueue` is proved to
implement.

### How state and actions correspond to the code

*PlaybackQueue.* `items`, `current`, `history`, `closed` are the fields guarded by
`_condition`; `state` and `cancelRequested` those of each utterance. The worker's
`wpc` names a place between two shared accesses: `start` (first flag test),
`synth` (inside the provider), `synthesized` (second test), `lookahead`, `submit`,
`gate` (tests of the chunk loop), `play` (about to call `play()`), `playing`,
`played`, `collect` (blocked on the future), `finish`, `retire` (the `finally` of
`_run`). Each API thread's `pc` does the same for `_enqueue`, `clear` and `close`.
Every action is one critical section, or one call made outside all locks. Two
adjacent accesses are one action only where no other thread can tell: the worker's
flag test and the transition of the utterance it alone moves, and `clear()`'s test
and flag of the captured utterance (a worker that ends it in between ignores the
flag, as does one that has passed its last test). An utterance is `new` until a
submit accepts it; a rejected request may come again. `next` is the look-ahead
future, `orphan` a look-ahead that was running when its utterance was abandoned
and that keeps the executor's only slot. `wait=true` requests block in `await`.
Left out: texts, voices, timestamps, the `queue.cleared` event and the count that
`clear()` returns.

*CommandPlayer.* `Register` to `Unregister` are `play()`, in its order; `StopRead`
takes the session, `StopFlag` is the critical section of `_PlaySession.stop` with
the first signal, `StopDone` and `StopTimeout` the two ends of the grace period, and
`StopKill` the second signal. The subprocess is a process group: the command, and a
`child` when the command is a wrapper. Each may end at any time, the command with any
status, or never. `communicate()` returns when nobody of the group holds the error
pipe (`Over`); `stop()` waits for the command alone, and finds no group to kill once
its exit was collected (`reaped`). A command that ends between `poll()` and the signal
is covered by `StopDone`.

*SynthesisCache.* One action per file operation: read, write of the temporary
file, rename, unlink, save of the index. `saved` is what `index.json` would load;
an absent or unparsable file loads as an empty index. `Restart` kills the process
at any step. A clip is its size and whether it is whole.

*CachedSynthesis.* Versions of the model file stand for its mtimes, which are assumed
to grow from one model to the next. The file may be missing or unreadable for a while
(`Hide`): the fingerprint is then the bare name of the provider, which all versions
share, and piper cannot speak, while kokoro can with an engine it has loaded. The
cache is the contract `ClipStore`: a function from fingerprints to clips that forgets,
or misses what it has.

*EventStream.* `handlers` is `EventBus._handlers`; `event` and `left` are the locals of
a `publish()` under way (the event and the handlers of its copy that are still to
be called); `ready` is the list of callbacks of the event loop, in which
`call_soon_threadsafe` appends; `buffer` the `asyncio.Queue` of each connection. What
runs on the loop between two awaits is one action. A task may be cut off at each
await, so a WebSocket may end while its sender sends, has died or waits. `offered`,
`taken`, `author`, `since` are history variables.

*VoiceDownload.* A process is at one file of the voice and in one place of
`_stream_to_file`; `handle` tells under which name, if any, the file it writes to is
to be found, since a rename by the other process takes it away. A file is a
sequence of blocks; the catalog lists a size, a digest, both or neither for each
(`known`; neither for kokoro), and a response announces a length, right or wrong, or
none (`Announced`); the digest compares the received blocks with the right ones. A kill may come at any step, and
the command is run again.

*ProviderRegistry.* A thread is a request: it takes the snapshot of `names()`, walks
through its candidates one `get()`, one `availability()` and one call at a time, and
ends with an answer or an exception. `get()` is three steps (test, create and store,
read), as is `_load` of kokoro, because nothing is locked. What is installed changes
at any time; `Register` replaces a class and pops its instance; `close()` iterates
over the live dictionary. `order` and `stored` are that dictionary, `todo` the names a
request still has to try, `inst` the instance it uses. `down` (what was unusable at
some moment of a request), `excused` (instances a registration replaced, or loaded
again after their `close()`), `began` and `ended` are history variables.

*ApiRequests.* A request waits for one of `Tokens` threads in arrival order, works,
and with `wait=true` waits for a second one, which it keeps until its text ends. A
socket handles its commands one by one on threads of another pool. Clients hang up
and come and go as they like; a shutdown takes no more requests, drops the
sockets, drains the rest and closes the service. The queue behind it is
`SpeechQueue`; a refusal is an exception class and its answer that of
`status_code_for`.

*PiperModels, VoiceCatalog, ProviderFaults, PlayerChoice, Doors, CommandLine,
HookScript.* Functions of one input: an input is a record of what the code tells
apart (a header is right, padded, wrong, foreign, empty or absent), a file system is what exists in
it, and a fault is one of the ways the other side can fail. The result is what the
function returns or raises. A behaviour of `BoundedInputs` splits one text,
loads one configuration or considers one input of one of these functions.

*Chunking.* Regular expressions are translated to the sets of positions they match;
characters stand for the classes the code tells apart (one terminator, a space, a
newline, other white space, two letters that together spell an abbreviation, a digit, a
comma). A piece
or a chunk is the slice of the text that it is, so that its place is known and "once
and in order" can be said. `KeepWhole` and `Begin` are the early returns, `NextMatch`
a match of `finditer`, `TakeTail` what follows the last; `ShortPiece` and `LongPiece`
are the turns of the second loop, `HardCut` those of `_hard_split`, with the strip of
both sides, and `HardEnd` its last piece; `SplitEnd` is the return, with the `or [text]`
of `_plan_chunks`.

*ConfigLayers, ConfigTrees.* A tree of settings is a function from the paths at which it
has something to a scalar or `Section`; `ReadVariable` is a turn of the loop of
`_env_overrides`, `Load` the merge over the file. What the walk along `path[:-1]` and
the recursion of `_deep_merge` leave is written down at each path, so that it can be
reasoned about for trees of any depth; `ConfigTrees` walks and recurses over nested
mappings as the code does, and `CodeAgrees` compares the results.

## 3. Runs

| Run | Shows |
|---|---|
| `queue_safety` | `OneOwner`, `HistoryTruthful`, `WorkerInStep` (chunks in order, at most one clip after a cancel, no look-ahead left behind), `EventOrder`, `StopCoversBacklog`: two texts of one or two chunks, two threads, a deque of one (so that it is full) and a history of two |
| `queue_progress` | `RefinesSpeechQueue`; `AcceptedEnds`, `AwaitAnswered` (each `wait=true` is answered) and `CloseEndsWorker`: two texts in a deque of two (the fewest that can be taken out of order), a history of one (so that it evicts); two threads where the texts are one chunk (so that the other thread cancels, or closes on, the text a request waits for), one where they are two |
| `command_player` | `KeepsContract` (it implements `AudioPlayer`), `LeavesNothing` (between clips no process of the group, no session, no file but one whose write failed), `StopEndsPlay` (but for a child that outlives its command), `TellsTheTruth`: two clips (so that a late stop can meet the next), two stoppers |
| `clip_cache` | `KeepsContract` (it implements `ClipStore`: a hit is the whole clip put last, through kills and faults), `Consistent` (budget, agreement of disk and index), `EvictsLeastRecentlyUsed`: three texts of two sizes, two threads, four clock ticks, two faults |
| `model_swap_piper` | `HitIsCurrent`: no clip of an older model is served, unless the request found no model file; two threads, two swaps, any number of restarts and of times that the file is missing |
| `event_stream` | `DeliversInOrder` (drop-oldest, order per thread, no dead handlers), `ConnectedMissesNothing`, `PublishingEnds`: two threads, a WebSocket and a stream, two events, a buffer of one (so that it overflows) |
| `voice_download` | `InstalledIsWhole` (as far as the catalog or the response tells what is whole, and but for files whose `.part` two runs shared), `InstalledStays`, `Recoverable` (success means both files, each `.part` has a reason and never hinders the next run): two processes, each run any number of times, over catalogs that between the two files list a size and a digest, either, and neither |
| `provider_registry` | `AutoKeepsPriority`, `ListingComplete`, `ShutdownReleases`, `OnlyRacesRaise`: two requests, two providers (one with an engine that may be missing, one whose `voices()` raises), one change of the machine, a registration, a close |
| `api_requests` | `AnswersHonest`; `SpeechLetsAllEnd` (if texts end, so do all requests and the shutdown); `StarvedOnlyByWaiters` (whatever texts do, only requests behind `wait=true` starve, never a command of a socket): two requests, a socket with a command, one thread (so that one waiter blocks it), a deque of one |
| `bounded_inputs` | *Chunking*: `TextIsSaid` (all of the text, once, in order, within the limit), `CutsAreNatural` (words that fit and follow a space are whole, and so are sentences unless a terminator begins a line) and `LoopsEnd` (no loop turns for ever: its turns are counted and bounded): all texts of up to six characters in chunks of four (the fewest with an initial inside a longer text, and a text that splits twice). *ConfigLayers*: `LayersPrecede` (and nothing lies below a scalar), `CodeAgrees` (the paths against the recursion): every file of two levels and every sequence of two variables over two keys. *The pure functions*: `OfferedIsUsable` (what piper, the players and `download` offer can be used), `FaultsAreTold` (a fault is told as the contract has it, but for exactly the exceptions that are listed, and only a valid request is spoken), `DoorsAgree` (but on exactly one visitor), `ExitTellsTruth`, `HookSpeaksLastReply`: every machine, fault, visitor, setup and command line, transcripts of three lines, catalogs of two voices |
| `doc_stop_reaches_clip` | **violated**: a stop between the last flag test and `play()` is lost, the clip is heard in full |
| `model_swap_kokoro` | **violated**: the old engine's audio is cached under the new model's mtime |

The violated runs state what the documentation or a comment says; each is a
finding in `PROJECT.json` with the sentence quoted. Further divergences seen while
modelling, which the models have and no run is about:

- `clear()` calls `player.stop()` after it has released the lock: the worker may by
  then play the next text, which is interrupted although nobody cancelled it
  (`core/queue.py:132-134`).
- A live utterance in the hands of `clear()` is found by no query
  (`core/queue.py:121-130`); one that `clear()` counts may still finish (`:135`).
- Blobs whose index entry a crash or an unreadable `index.json` has lost are never
  evicted, so the directory may outgrow `cache.max_mb` (`core/cache.py:128-138`).
- A temporary file whose write fails is not removed (`players/command.py:215-216`).
- A stop waits for the command only: a child that ignores SIGTERM and outlives its
  shell wrapper is never killed and keeps `play()` in `communicate()`
  (`players/command.py:122`, `:232`; the comment at 107-109 has the group killed).
- Without its model file piper, or kokoro, stores and finds clips under its bare name,
  whatever their version (`providers/piper.py:165-166`, `providers/kokoro.py:147-148`): a
  clip of an old model may be served while the file of the new one cannot be read.
- An abandoned look-ahead that is already running goes on while the next text is
  synthesized (`core/queue.py:337`), although the providers are promised one
  synthesis at a time (`core/interfaces.py:26-28`).
- A stop takes a thread like any request, so that it waits while `wait=true`
  requests hold all of them, although it "must never wait for a clip to finish"
  (`docs/architecture.md:106`, `api/http.py:76`, `:114`).
- Two first uses of a provider create two instances, of which the registry keeps
  and closes one; an instance created after a close is never closed. `close()`
  iterates over the dictionary that `get()` may extend: the RuntimeError leaves the
  remaining providers, and the player, open (`providers/registry.py:64`, `:93`).
- Two downloads of the same voice at once share one `.part` file: the second
  truncates what the first has verified and then renames (`voices.py:394-417`), and
  a damaged file may be installed. `InstalledIsWhole` excludes those files only.
- Exceptions that are no gateway errors escape from providers. From the cloud: a reset,
  an answer that is no HTTP and a short body (`providers/_http.py:50`), a `base_url` that
  is no URL (`:40`) and a key that no header can carry; the voice of elevenlabs, which goes
  unquoted into the URL (`providers/elevenlabs.py:100`); and, out of a `voices()` that
  "never raises", a `voices` that is no list (`:145`). From piper: a speaker that is no
  number (`providers/piper.py:95`: 422 for text, 500 for a list), a voice that is no path
  (`:202`), a full or refusing disk (`:102`) and a binary that cannot be executed (`:113`).
  `Escapes` and `ListingEscapes` name each.
- What a cloud answers with 200 is taken for audio whatever it is, and for whole when the
  response does not tell its length (`providers/elevenlabs.py:112`, `providers/openai_tts.py:114`).
- A right token after two spaces opens the socket, which strips it (`api/auth.py:91`), and
  not HTTP, when FastAPI's `HTTPBearer` does not; a token that is not ASCII is a
  `TypeError` on both (`:75`, `:105`), and configured it lets nobody in.
- Piper with a `default_voice` that does not exist reports itself available and
  cannot speak without a voice (`providers/piper.py:174`).
- One malformed entry of the catalog hides all voices (`voices.py:159`), against the
  docstring of `parse_catalog` (`:136`).
- The client and `_fetch_json` wrap only what `urlopen` raises: a timeout or a
  reset while the body is read ends a command with a traceback (`client.py:128`,
  `voices.py:272`). `serve --port 0` is ignored (`cli.py:166`).
- The hook, which "never fails", raises for JSON that is no object, text that is not
  UTF-8, a URL that is none and an answer that is no HTTP. What it says of a long reply
  exceeds the limit by the 13 characters of its notice; a reply that is all markup is
  sent as an empty text, which the gateway refuses (`claude_code_speak.py:113`, `:59`).
- What comes without `Content-Length` is installed unchecked where no catalog tells size or
  digest: kokoro always, a piper voice whose entry has neither (`voices.py:392`, `:420-442`).
  A body that was cut is then taken for the file.
- A WebSocket is accepted before it subscribes, so that an event between the two is
  lost to it (`api/websocket.py:61-64`); a stream whose generator never starts stays
  subscribed (`api/http.py:191-194`).
- The hard split looks for spaces only, not for other white space
  (`core/chunking.py:105` against `:7` and `:102`), and may cut a word that fits after a
  tab, a newline or a no-break space; the word before a terminator is found across a
  newline (`:47`). `CutsAreNatural` says of which words and texts the promise is true.
- Of two variables of which one sets a section and the other a key in it, the later
  one wins, in the order of the environment (`config.py:176-193`).

**Bounds.** `MaxChunks`, `MaxClips`, `MaxTicks`, `MaxFaults`, `MaxSwaps`, `MaxEvents`,
`MaxChanges`, `MaxText`, `MaxPath`, `MaxVariables`, `MaxLines` and `MaxWords` bound what is
unbounded in the code. Two threads suffice for every
race of two requests. In `queue_progress` texts of two chunks come on one thread, without
short ones (`LongTextsAlone`): that bounds which texts come, and which clients call, and
never holds up a request under way, so that the fairness is what it was; a second text is needed for what outlives the first, and for
order (the theorems cover any number); two chunks
give a first and a last one and one look-ahead; two faults allow a fault during
the recovery from another. Utterances, keys and threads are interchangeable, so
the safety runs use symmetry; the liveness runs do not. A block per file is enough
for the downloads: a body can be empty (cut), right, corrupt or a block too long, and a
sparse gap needs one more than the file has. Deadlock is checked but for
`command_player`, `clip_cache`, `event_stream`, `provider_registry`, `api_requests`
and `bounded_inputs`, where the bounds, a shutdown, the return
of a function or the single input end the run.

**Fairness.** `PlaybackQueue`: weak fairness of the worker as a whole, of the
executor and of each request under way. Providers and players return (HTTP
timeouts, finite clips, a `stop` that kills), the condition is notified, and the
operating system runs every thread; clients need not call. `CommandPlayer`: weak
fairness of `play()` and of each `stop()` under way, none of the subprocess, which
may run for ever unless it is killed. `EventStream`: weak fairness of a thread that
has begun to publish, none of the event loop and the clients, so that
`PublishingEnds` shows that publishing depends on neither. `ApiRequests`: weak
fairness of the threads, of the event loop and of the shutdown once the clients
have gone; none of the clients, and none of the worker, which is a hypothesis of
`SpeechLetsAllEnd` only (`queue_progress` shows it).

## 4. Proofs

`PlaybackQueueProofs` proves, for any number of utterances and threads and any
`MaxSize`, `HistorySize`, `MaxChunks` (assumptions: `None` is no utterance, the bounds
are natural numbers):

- `Invariance`: `Spec => []IInv`, in three layers, each proved from the ones before.
  *Places* (`PlaceOK`): `TypeOK`; `WorkerOK` (the worker holds an utterance exactly
  while it processes one, and its place determines the state of that utterance);
  `ThreadOK` (what a thread about to submit, or in the middle of a `clear()`, knows
  of the utterances in its hands: queued, or new and nobody else's); `OwnerOK`
  (deque, worker and each `clear()` are disjoint and hold no utterance twice);
  `NoneLost` (every live utterance is in one of them). `OneOwner` alone is not
  inductive: that `popleft` moves a *queued* utterance needs `OwnerOK`, and that a
  retired one is terminal needs `WorkerOK`.
  *What is heard*: `HeardOK` and `LoopOK` say which chunk the worker holds at each
  place of its loop, how many were heard and whether the executor has the next one;
  `WorkerInStep` needs both. `LoopOK` also shows that, after a clip
  that is not the last, the test for a look-ahead (`core/queue.py:293`) never fails:
  the loop does not play the clip of one chunk again as the next.
  *What is told*: `UnrecordedOK` (who is still to be recorded has no entry yet) and
  `LogOK` (how far the events of an utterance are in each of its states) make
  `HistoryTruthful` and `EventOrder` inductive.
- `WorkerInStepHolds`, `HistoryTruthfulHolds` and `EventOrderHolds` follow.
- `StopCovers`: `ObsSpec => StopCoversBacklog`. Besides `PlaceOK` it needs `BacklogOK`:
  while a `clear()` is under way, all it must cover has ended, is flagged, is the one
  it captured, or is in the hands of a `clear()`.
- `TypeCorrect` and `OneOwnerHolds` follow; so do the capacity limits.
- `Refinement`: `Spec => RefinesSpeechQueue`. Each action maps to one of `Accept`,
  `Begin`, `End`, `CancelWaiting` or a stutter: `popleft` begins, the worker's
  terminal transition ends, the critical section of `clear()` cancels all that
  waits at once (the transitions after it are stutters, since an utterance in the
  hands of a `clear()` already counts as cancelled).

`ServiceProofs` proves, of what happens to a text on its way to a provider and of the
settings it happens under:

- *Cached synthesis*, for any number of threads and swaps, while the model file comes
  and goes, and under the assumption that the provider reads its model for every clip: no
  cached clip is older than the mtime it is stored under (`PiperNeverOlder`) and no request
  that found a model file gets a clip of a model older than the one installed when it
  began (`PiperHitIsCurrent`). Of the clips under the bare name neither says anything: they
  may be of any version (section 3). For kokoro the same statement is
  false, as the run shows.
- *Chunking*, for texts of any length and any positive limits: `SplitInvariance`,
  `PlanSpec => []SplitInv`. What has been found so far, as chunks, as the rest of
  `_hard_split` and as pieces still to do, is in order (`InOrder`) and well cut
  (`PartsOK`: it covers all ink up to where the text was read, holds every word that
  fits and follows a space and, unless a terminator begins a line, every sentence that
  fits, and goes past the end of none), and between the last
  sentence and the last match no sentence ends (`Scanned`). The two halves of the
  promise say nothing before the return and are not inductive. The argument rests on
  lemmas about the operators: what `strip()` leaves, where a run of terminators is a
  boundary and that it is a real one exactly when a sentence ends at it
  (`RealBoundary`, `EndIsBoundary`), that the parts stay well cut when one is added
  (`PartsGrow`) and when one is cut in two (`PartsCut`). `AllTextIsSaid`,
  `AllCutsAreNatural` and `PlanTypeCorrect` follow.
- `SplittingEnds`: `PlanSpec => []LoopsEnd`. `Work`, a natural number that begins as
  the bound, is smaller after every step: each turn of `_hard_split` makes what is left
  begin later, because a cut is never at the beginning of a piece (`CutPlace`,
  `LeftGrows`). So the turns so far and what is left to do stay within the bound.
- *Configuration*, for every file, every number of variables and paths of any length
  (assumption: files and values are trees, a file is a mapping): `ConfigInvariance`,
  `ConfigSpec => []ConfigInv`. `Overriding` says what the variables read so far leave:
  what one sets and no later one touches is there, and nothing is there that none of
  them has put. It needs no induction over trees, because `AssignAt` and `MergeAt`
  say what the two operations leave at each path. `ConfigTypeCorrect` and
  `AllLayersPrecede` follow; the second needs that no scalar of the overrides is above
  a path that no variable touches (`FileInForce`).
- *The hook*, for transcripts and texts of any length and any limit, beyond the bounds
  of the run: it tells the newest reply (or nothing when that is all markup) and raises only for
  what it names (`HookTellsNewestReply`), and what it says of a long text is a beginning
  of it within the limit, cut at a word, and the notice (`HookCutsAtWords`).

`CommandPlayerProofs` proves, for any number of stopping threads and clips
(assumption: `MaxClips` is a positive natural number):

- `Invariance`: `Spec => []Inv`. `Inv` is `TypeOK`, `SilentBetweenClips` and four
  parts that make it inductive: `PlayOK` (the place of the worker determines which
  session is registered, how far its command is and whether the path of the
  temporary file is known), `FilesOK` (a file that was written is that of the current
  clip), `ReapedOK` (only a command that has exited is reaped) and `StopOK` (a stopper
  holds a session that was registered, and waits only for a command that was launched). Without them nothing says that the
  file `play()` is about to remove is the one it wrote, or that a late `stop()`
  holds no session still to come.
- `LeavesNothingHolds` (no process of the group, no session, no file but one that could
  not be written) follows, `TruthTold` (the answer of `play()` agrees with the
  stopped flag of its session), and `Refinement`: `Spec => KeepsContract`. The steps
  of `play()` map to `Play`, `Completed`, `Interrupted`, `Raised` or a stutter of
  `AudioPlayer`, a `stop()` to its `Stop`, or to a stutter when its session is over.

`VoiceDownloadProofs` proves, for any number of processes in one directory and
any positive `Length` of the files and any catalog (assumption: it lists a size, a
digest, both or neither for each file):

- `Invariance`: `Spec => []Inv`. `InstalledIsWhole` alone is not inductive: that the
  bytes a process renames are the ones it verified needs `AloneOK` (two processes
  that stream the same file have marked it as shared), `BytesOK` (an unshared
  `.part` is what its process received, unless a failing run of another one
  unlinked it), `OpenOK` (an open file has a name, or is gone) and `ResponseOK`
  (what a process has received it forgets with the response).
- `InstalledIsWholeHolds`, `RecoverableHolds` and `InstalledStaysHolds` follow. The
  exceptions, a shared `.part` and a file of which nobody tells size or digest, are
  real: the run reaches them (section 3).

`EventStreamProofs` proves, for any number of publishing threads, clients and events
and any size of the clients' queues:

- `Invariance`: `Spec => []IInv`. `HandlersOK` (the bus knows a connection once, from
  its subscription to its end), `PublishersOK` (the event a thread delivers is its
  last, and it calls no handler twice), `QueuesOK` (a queue is the end of what was
  offered, and what was taken comes before it), `OrderOK` and `OwedOK`. The two halves
  of the promise are not inductive by themselves: order must be known at every place
  an event can be on its way (still to be handed over, ready for the loop, queued,
  taken), and so must each event that a client is owed.
- `DeliversInOrderHolds` and `ConnectedMissesNothingHolds` follow.

`SynthesisCacheProofs` proves, for any number of threads and clips, any sizes and
budget, and any number of faults and restarts:

- `Invariance`: `Spec => []IInv`. `IndexOK` (the order of use is the order of `atime`,
  in memory and in what was saved), `BudgetOK` (only an eviction under way is over the
  budget), `WholeOK` (no blob is partial, hence no hit), `RequestOK` and `DiskOK`
  (without faults the disk differs from the index only by clips written and not yet
  indexed).
- `ConsistentHolds`, `HitIsWholeHolds`, and `EvictionOrder`: `Spec =>
  EvictsLeastRecentlyUsed`, an action property.
- `Refinement`: `Spec => KeepsContract`. The clips of `ClipStore` are the blobs: a
  `put()` maps to `Store` when its blob is replaced, a hit to `Serve`, an unreadable
  blob, an eviction and a lost file to `Lose` or, when the unlink fails, to a
  stutter, a restart to `Restart`, all else to a stutter. It needs
  `RequestOK` (what replaces a blob is a clip the provider made) and `IndexOK` (what is
  evicted is a key).
- The budget is a sum over a set. What the sum of a set with one more or one less
  member is would be an induction over data; it is proved from minimal
  counterexamples instead (`Minimal`: a set of subsets of a finite set has a minimal
  member), as is what the snapshot of `names()` contains in `ProviderRegistryProofs`.

`ApiRequestsProofs` proves, for any number of requests, commands, sockets and threads
and any size of the queue (assumptions: a request is no command, the number of threads
is natural):

- `Invariance`: `Spec => []IInv`. `QueueOK` (what waits or is spoken has no outcome
  yet), `LineOK` (the line holds exactly those that need a thread, once), `TokensOK`
  (no more threads are held than there are), `StageOK` (nothing is queued or silenced
  before its time) and `FlightOK` (a command is worked on only for a socket that has
  not ended, and at the close of the service nothing is worked on).
- `AnswersHonestHolds`. Its last part, that nobody is refused because the service is
  closed, needs `FlightOK`: the drain comes first, so that the `RuntimeError` of a
  closed queue is unreachable from a handler.

`ProviderRegistryProofs` proves, for any number of requests, any catalog, priority and
default, and any number of changes (assumptions: what is installed and what the
priority names is in the catalog):

- `Invariance`: `Spec => []IInv`. `DictOK` (a name is in the dictionary once, with an
  instance that was made); per request `RequestOK`, `ThereOK` (what a step has tested
  and the next one uses is still there, unless a close or a registration took it),
  `DownOK`, `AutoOK` (what an auto request still has to try is the rest of the
  priority, and what it passed over was unusable) and `ListOK` (what a listing owes is
  shown or still to be tried); and `CloseOK` (until the registry is emptied an instance
  is in it or excused, and what the iteration of `close()` has passed is released).
- `AutoKeepsPriorityHolds`, `ListingCompleteHolds`, `ShutdownReleasesHolds` and
  `OnlyRacesRaiseHolds` follow.

Each inductive invariant was model-checked, on the bounds of the run of its module,
before it was proved.

Only model-checked:

- liveness under fairness, which is out of the prover's reach (`AcceptedEnds`,
  `AwaitAnswered`, `CloseEndsWorker`, `StopEndsPlay`, `PublishingEnds`,
  `SpeechLetsAllEnd`, `StarvedOnlyByWaiters`);
- `CodeAgrees`: that the trees written down path by path are those of the recursive
  functions is an induction over data;
- the decision tables that `BoundedInputs` enumerates (`OfferedIsUsable`,
  `FaultsAreTold`, `DoorsAgree`, `ExitTellsTruth`): their inputs are
  finite but for the number of voices in a catalog, and TLC tries them all.

## 5. Plan

Done so far, in the order of importance: the queue with its contract and proofs;
the player; the cache and its keys; the event stream; the downloads of two processes;
the registry with resolution and shutdown; the request threads composed with the
queue; the splitting of texts and the layers of the configuration, all of these with
proofs of their safety; the other pure parts (choice of models and players, catalog,
faults of providers, doors, command line, hook). To come:

1. `SynthesisCache`: index entries of a wrong type, and the statistics that
   `GET /v1/status` reads.
2. A client of the event stream that reconnects and asks for the status to catch up.
3. `PiperModels` and `VoiceCatalog` with a constant set of voices, and their
   agreement as theorems.

## 6. Not modelled, and why

- Wording, formatting and logging; the shape of bodies and the bounds on their
  fields, which the schemas and the framework enforce before a handler runs.
- The comparison of tokens in constant time: a timing, not a behaviour.
- Encoding of audio, the timbre and languages of voices, and progress reports: data
  no property tells apart.
- Suggestions for misspelt names (`closest_matches`), a library call in an error
  message.
- `NullPlayer` (an `AudioPlayer` without sound) and the playback of `WinsoundPlayer`,
  which answers `True` also when stopped and so is outside the contract that
  `PlaybackQueue` assumes; which of them is chosen is in `PlayerChoice`.
- Index entries of a wrong type (section 5).
- The browser script, `install.sh`, the release scripts and the playground: clients
  of the API, or shell without state of their own.
