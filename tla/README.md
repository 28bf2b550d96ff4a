# Verification of xollama

xollama serves language, speech, image and video models over HTTP. A Go server
keeps engine processes loaded in GPU memory, hands them to requests, evicts
them to make room for others, pulls model files from registries, and runs a
few stateful services (councils, video jobs, an MLX engine) on top. These are
TLA+ modules of its concurrent core, TLC configurations that check them on
small instances, and TLAPS proofs about them. Paths are relative to the
repository.

## Inventory

| component | state | operations | what is hard | correct when |
|---|---|---|---|---|
| Scheduler (`server/sched.go`, `load_caps.go`, `media_gone.go`, `evict_last.go`) | `loaded`, `activeLoading`, four channels, per runner `refCount`, `sessionDuration`, `expireTimer`, `refMu` | `getRunner`, `processPending`, `processCompleted`, `load`, timers, `expireRunner`, `expireRunnersForRuntimeOOM` | two loops, a goroutine per request and per load, timers, bounded channels written under locks | a runner in use is not unloaded, none is leaked or forgotten, caps hold, every queued request is answered |
| Handlers (`server/routes.go`) | the context of a request | `scheduleRunnerForModel`, stop, out-of-memory retry | a client that leaves | each request has at most one answer |
| Blob download (`server/download.go`, `media_pull.go`) | manager map, part files, `references`, `done` | `downloadBlob`, `Prepare`, `run`, `downloadChunk`, `Wait`, `release` | crash and resume, stalls, cancellation against new waiters, pruning | the files have one writer, what is recorded is there, a published blob is complete, a waiter returns |
| Blob upload (`server/upload.go`), tensor transfer (`transfer/`) | as above, a worker pool | chunk uploads, retries | partial failure | all parts committed once |
| Model store (`manifest/`, `server/images.go`) | manifests and blobs on disk | pull, create, delete, prune | pruning and deleting against a pull in progress, crashes, links that cannot be read | no name leads nowhere, no prune takes what a name lists |
| Engine client (`llm/llama_server.go`) | process, health, slots | load, wait, completion, close | process exit, 429 answers | an engine in use is not closed |
| Engine admission and pools (`llm/engine_admission.go`, `engine_pool.go`) | the registry of pinned prefix pools: `byKey`, `creating`, `pending` | lookup, offer, claim, create, release; retries within a budget | captures in the background, lost answers, a fixed number of seats | a create finds a seat, no pinned pool is forgotten, no id is stale |
| MLX thread (`mlx/mlxthread`) | job channel, `stopping`, `done` | `Do`, `Call`, `Stop` | stop against submission, panics, cancelled stops | no job after cleanup, every caller returns |
| MLX prefix cache (`mlxrunner/prefix_cache.go`, `cache_trie.go`) | a trie of cached tokens, the live caches, captures | begin, page in, capture, attach, evict, page out | caches that cannot rewind, media items that cannot be cut, cancelled prefills | what is restored was computed from the request's own prefix, and is the deepest there is |
| Council (`internal/council`, `server/council*.go`) | rounds, held requests, reservations | run, resume, compact | cancellation, resume, timeouts | reservations are returned |
| Video jobs (`server/media_video.go`) | table of clips, their timers, the engine reference of each | create, watch, get, content, delete, expire | a client that leaves during the load, engines that exit, polls that fail | no engine is unloaded under a clip, every way out lets it go |
| Media catalogue (`internal/mediahub`) | a catalogue | search, pull | - | - |
| API formats, parsers, templates, discovery, conversion, command line, desktop | none shared | translation | text and file formats | not a matter of states |

The engine processes, the GPU driver, the file system and the clients are the
environment. The handlers call the scheduler with `getRunner` and wait for one
value on one of two channels; the scheduler starts and closes engines; the
engines answer late, exit, or refuse a load; timers and other handlers
(`ollama stop`, a runtime out-of-memory error) expire runners from outside the
loops. `PROJECT.json` lists every component with what is left out, and every
hazard with the property that watches it.

## Plan

1. `Scheduler`, with its inductive invariant and the theorems that follow from
   it (done).
2. `MlxThread`, shown to implement `SerialWorker`, and `BlobDownload`, up to
   the manifest that names the blob (done).
3. `RunnerLease`, what the scheduler promises its callers (a lease is granted
   on a live runner, a runner ends when its last lease does), implemented by
   `Scheduler` as long as no stale runner is granted, the step proof from
   `SchedulerInv!IInv`.
4. The scheduler's sizing algorithms (`effectiveContext`,
   `nextLowerAutoNumCtx`, `automaticGenerationBatch`,
   `availableMemoryForLoad`, `needsEviction`, `maybeDisableMmapForHostPressure`)
   as operators against reference definitions.
5. `VideoJobs`, `EnginePools` (admission and the pool registry), `PrefixCache`,
   `ModelStore` (done).
6. `CouncilRun`, with the slots and windows councils reserve; blob upload and
   tensor transfer with what `BlobDownload` taught; the composition of
   `BlobDownload` with `ModelStore`, where a cache hit races a verification.

Theorems worth proving: type correctness of every module; of the scheduler every
safety property that is checked, and what its panic comes from (done);
of the MLX thread that it implements `SerialWorker` (done); of the download
that its files have one writer and that it publishes every byte of the parts
it knows, but for those a prune took (done); of video jobs, engine pools and the model store every safety
property that is checked, and of the prefix cache every property (done); next, the
step proof of `RunnerLease`.

## Scheduler

`Scheduler.tla` models the goroutines of `server/sched.go` at the granularity
at which they can be interleaved. A step is what a goroutine does between two
points where another can intervene: one section under `loadedMu`, one section
under a runner's `refMu`, or one channel operation. `loadedMu` is never held
across a step. A `refMu` is held across steps in three situations, which are
the values of the variable `refMu`: the goroutine of a load holds it until the
engine answers (`"loading"`), `processCompleted` holds it while memory comes
back (`"unloading"`), and a sender blocked on a full `expiredCh` keeps it
(`"pending"`, `"completed"` or `"other"`, by who it is, which also stops the
loop it belongs to).

| code | state in the model |
|---|---|
| goroutine of a request in `getRunner` | `pc`, `seen` |
| `successCh`, `errCh` | `grant` (the runner sent), `answers` (values sent on both) |
| request context | `ctxDone` |
| goroutine that waits for the context and sends on `finishedReqCh` | the set `FinishedReqCh`; `released` once processed |
| `pendingReqCh`, `expiredCh`, `unloadedCh` | sequences and a count, with capacity `MaxQueue` |
| `runnerRef` | `refMu`, `refCount`, `sessionDuration`, `expireTimer`, `engine` (its process), one entry for each request that may load it |
| timer callbacks, re-send goroutines, callers of `expireRunner` | `callbacks`, `resends`, `expirers`, counted per runner |
| locals of `processPending` and `processCompleted` | the records `pend` and `comp` |

The actions follow the functions: `LookUp`, `FastCheck`, `FastUse`, `Enqueue`
are `getRunner`; `TakePending` to `Wake` are `processPending` with `load`
inlined (`Create`, `LoadSucceeds`, `LoadRequiresFull`, `LoadFails`) and the
victim searches as scans that lock one runner at a time; `LoadRunning` and
`LoadAborted` are the goroutine a load starts; `TakeFinished` to `Announce` are
`processCompleted`. The rest are the timers and the callers outside.

What is abstracted:

- A request loads at most one `runnerRef`, so runners are named after requests;
  process ids are distinct because the engine's process exists when `Load`
  returns.
- Memory arithmetic (`predictVRAM`, `needsEviction`, `updateFreeSpace`) ends in
  "fits" or "does not fit", both of which are offered wherever the code can
  take them. `needsReload` compares a request's options with a runner's:
  `CfgOf` gives requests that need different options different values. A live
  engine may miss a deadline when `Timeouts` is set.
- Durations are none, some, and the maximum a negative `keep_alive` becomes,
  whose timer never fires. The sort of victims reads `sessionDuration` without
  `refMu`; the model reads all at once.
- `finishedReqCh` is a set: its senders hold no lock and its capacity delays
  them only. `ctx.Done` of the loops and `unloadAllRunners` (shutdown), and the
  read-only `loadedModels`, are not modelled.
- `expireRunner` takes one key; a model name that matches several keys is
  several calls. Its loop, and that of `expireRunnersForRuntimeOOM`, expire
  their runners in any order.

Bounds: `MaxStops` and `MaxCrashes` cap calls of the environment; `RefCounts`
is the number of values of a `uint`, small so that a count can wrap, large
enough that it cannot by counting requests; `MaxQueue` is the code's own
setting. Three requests are enough for a runner in use, one that wants it and
one that wants its place; two places are enough for a victim to be chosen.

`CHECK_DEADLOCK FALSE` stands in these configurations because the server rests
when no client comes: the requests of an instance are finitely many.

### Runs

| run | instance | checked |
|---|---|---|
| `share` | two requests of one model, a third for its place; a crash, a stop, a cancel, late answers; channels of capacity 2, which fill up | types; `RefCountExact`, `HeldRunnerLoaded`: counts are exact and a runner in use is loaded; `EnginesInMap`: exactly the processes not closed are in the map; `AnsweredOnce`; `IdleHasExpiry`: a loaded idle runner always has a timer, a callback, a re-send or an event |
| `place` | three models; a kind with cap 1, another without, the automatic shared cap of 1; two GPUs, media engines that exit; loads predicted not to fit, out of memory, refused, or, for two of them, requiring a full fit; one of these is pinned, so that the panic is reached | `WakeupInSight` (no wait without an unload to come), `ActiveLoadingCurrent`, `CapsRespected` |
| `live` | fair goroutines, three requests, one place | `QueuedAnswered`, `EventuallyUnloaded` |

`RefCountExact`, `HeldRunnerLoaded`, `IdleHasExpiry` and the liveness properties
hold as long as no request was handed an unloaded runner (`stale = {}`); that it
can happen is the finding below. For `IdleHasExpiry` it takes four requests of
one model: the request of the finding lowers the count of a newer runner below
zero, to the largest `uint`, and the next use wraps it to zero while it stops the
timer, so that a runner in use looks idle and has nothing that would end it. `ActiveLoadingCurrent` excepts the engine of
a request whose device pin was refused while it was being retried; what happens
then is told below. `KeyFreeWhileLoading` (the safeguard of `load`, which takes its locks in
the wrong order, never has work) is proved, and needs no run.

Fairness (`Fairness` in the module): both loops, the goroutines of requests,
loads, timers, re-sends and blocked senders run when they can. The two sources
of the `select` in `processCompleted` need strong fairness: Go chooses at
random among ready channels, so a channel that is ready again and again is
served, while a re-send every 10 ms could otherwise starve it in the model. A
handler ends some time after it got its runner. Nothing is assumed of clients
that have not come, of cancels, stops, or crashes.

### Finding

`stale_grant` must find `GrantsUsable` violated: `getRunner` finds a runner
usable, the runner expires and is unloaded, `useLoadedRunner` hands it out
closed (the gap between `sched.go:263` and `:264`, and between `:318` and
`:324`).

The model has more behaviours that a reader should know of and that no run
states:

- `evictAllAndWait` counts an event left by an earlier unload and returns with a
  runner still loaded.
- An engine kept after `ErrLoadRequiredFull` survives a refused device pin; the
  next load of another model panics at `sched.go:690`.
- A request with a negative `keep_alive` reuses the runner that is being
  evicted: the eviction never comes, and the queue behind it stands still.
- When the request of `stale_grant` finishes, `processCompleted` looks its
  runner up by key, may find a newer one, and lowers that one's count: it can be
  unloaded in use.
- A timer callback that waits for `refMu` while a request uses the runner and
  finishes expires the runner although a new keep-alive has just begun.
- With `OLLAMA_MAX_QUEUE=1` a sender blocked on `expiredCh` can hold the lock
  its reader needs.
- A queued request whose client has gone is dropped without an answer
  (`sched.go:299`), and its handler, which selects on the two channels only
  (`routes.go:296`), waits for ever. `QueuedAnswered` excepts it.

`unloadAllRunners` closes `activeLoading` and clears it while `load` may be about
to use it (`sched.go:1873`); shutdown is outside the model.

### Proofs

`SchedulerProofs.tla` proves `TypeCorrect`, `Spec => []TypeOK`, from
`ConstantsAssumption` alone, for any finite set of requests and models and any
bounds. The type invariant says more than types: registers that are
dereferenced hold a runner or a request (`pend.run` where the loop locks it,
`seen` between the two halves of the fast path, the waits still to be made).
It is inductive by itself. The proof has a lemma per helper (`EmitType`,
`ExpireNowType`, `UseLoadedRunnerType`, ...) and one per goroutine, each with
one case for each of its actions.

`SchedulerInv.tla` holds the stronger invariant behind the other safety
properties, `IInv`: a request is in one place at a time -- its goroutine, the
queue, the loop, its load -- and has no answer there (`OnePlace`), a grant
names a runner of the right key and is finished after it was made (`Granted`),
and a runner in hand was started and fits the key (`InHand`). None of the
safety properties is inductive without it.

The rest of `SchedulerProofs.tla` proves the three that need no count, each
resting on the one before:

- `KeyStaysFree` (`KeyFreeWhileLoading`): the labels from `caps` to `load` are
  entered only where the key was found free, and only `LoadSucceeds` fills the
  map; the completed loop only empties it.
- `NoEngineLost` (`EnginesInMap`): so a load never replaces a runner, and the
  process that starts and the entry that is made are one step; `Unload` and the
  closing of an older runner keep the two together.
- `AnswersUnique` (`AnsweredOnce`): by `OnePlace` whoever answers a request has
  it in hand and lets it go.

`SchedulerCounts.tla` proves the two that matter most, `CountsExact`
(`RefCountExact`) and `InUseStaysLoaded` (`HeldRunnerLoaded`), together: counts
are changed by a grant, a load, a finish (`StepKind`), the map by a load and an
unload. A load starts at zero under a free key, and a request that held that
runner would have it in the map. A finish finds its runner by key; while no
stale runner was granted the key still has the runner that was granted
(`FinishesItsGrant`), so the count of the right runner goes down. An unload
requires a zero count, which is exact, so nobody holds the runner. The
`uint` does not wrap because its width exceeds the number of requests, the
assumption on `RefCounts`. `InvariantHolds` is `Spec => []IInv`.

The other four have invariants of their own, in the second half of
`SchedulerInv.tla`, inductive together with `IInv`; the first two are in
`SchedulerProofs.tla`, the others in `SchedulerCounts.tla`:

- `RetryInHand` (`ActiveLoadingCurrent`, with `Retrying`): an engine kept after
  `ErrLoadRequiredFull` is that of the request in hand, which loops with its key
  free until the load ends and takes the engine with it. The one step that ends a
  request and leaves the engine is the refusal of a device pin (`LeftByPin`). Such
  an engine stays until a request of the same model loads it, and a request of
  another model panics; `PanicAfterRefusedPin` says that the panic has no other
  cause.
- `CapsHold` (`CapsRespected`, with `RoomLeft`): a request reaches the load only
  from `Caps`, with room left for one more of every kind it is and in the shared
  pool. In between only the completed loop touches the map, and it makes room. The
  automatic size of the pool is fixed before the first load.
- `WakeupsComing` (`WakeupInSight`, with `VictimsInSight`): a victim is counted from
  the moment the loop takes it from the map. An unload moves it from the map to
  the completed loop and from there to the channel, which leaves the sum as it is
  (`SightKept`); only the waiting loop takes an event out of the channel while it
  waits.
- `KeepAliveInSight` (`IdleHasExpiry`, with `LoadedOnce`): a timer is stopped by a
  use, which raises the count, by a forced expiration and a callback, which send
  the event, and by an unload. What the completed loop takes from the channel it
  unloads, sends again, or finds already unloaded. That a use leaves the count
  above zero needs the exact counts of `IInv`; that an unload that gives its lock
  back leaves no loaded runner needs `LoadedOnce`: a runner is never loaded a
  second time.

All theorems assume `ConstantsAssumption` only. The restriction to `stale = {}` is the finding
`stale_grant`: without it `RefCountExact`, `HeldRunnerLoaded` and `IdleHasExpiry`
are false. Only model-checked: liveness, which the prover does not reach.

## MLX thread

`MlxThread.tla` models `mlx/mlxthread/thread.go` whole. A goroutine locked to
an OS thread runs `loop`; a call of `Do` or `Stop`, each with a context that
may end at any point, goes through `enqueue`. Variables are the fields of
`Thread` (`stopping`, `done`), the worker's position and job, and per call its
position, result channel and return value. The unbuffered channel `jobs` is a
rendezvous: `Send` happens when the worker is idle. The select of `enqueue` is
three actions, any of which may be taken when ready (`SelectCtx`,
`SelectDone`, `Send`); `Receive` has no alternative, as in the code, so a
function that has started is always waited for. `run` recovers a panic and the
caller raises it again. `InitFails` is a failing `init`: `Start` returns no
thread, so no call is made.

`SerialWorker.tla` is the promise in three variables (open, the current
function, and what became of each call); `MlxThread!ImplementsSerialWorker` is
the refinement.

| run | instance | checked |
|---|---|---|
| `thread` | two calls of `Do`, three of `Stop`, cancels, panics, fair goroutines | `RefusedNeverRan`, `StopMeansClosed`, `RefusesForAReason`, the refinement, `DoReturns` |

A `Stop` need not return, and nothing is claimed of it: one that finds another
under way waits for the thread to close, the other may be cancelled before its
job is taken, clear the flag and return, and the first then waits until its
own context ends.

Three Stops are enough for one that owns the flag, one that waits for it and one
that retries after a cancel. `CHECK_DEADLOCK FALSE`: calls are finitely many.
Fairness: the worker and every call that was made go on when they can, and
functions end; it is assumed of the functions handed to the thread, not shown.

`MlxThreadProofs.tla` proves, from `CallsAssumption` alone, the type invariant,
the three safety properties, `CleanupLast` (no function starts after a cleanup,
which the refinement implies too) and the refinement (`Implements`). The invariant
`IInv` says for each call what its position, its return value and the history
`ran` may be together (`CallInv`), and that a cleanup has started exactly when
the worker runs one or is ending, which makes `done` imply it (`WorkerInv`).
`DoReturns` is liveness and only model-checked.

## Blob download

`BlobDownload.tla` models `server/download.go` around one digest, with the two
callers of `downloadBlob`: `PullModel` (`server/images.go`), which verifies the
blob and writes a manifest that names it, and `MediaPullHandler`
(`server/media_pull.go`), which reports success. A puller is one such call. A
`blobDownload` is named after the puller that stored it in the manager, and its
goroutine after the download.

| code | state in the model |
|---|---|
| the file of the digest, its manifest | `published`, `blob`, `manifests` |
| the files `-partial` and `-partial-N` | `partial` (the bytes of each part), `partFiles` (absent, truncated, recording none, some or all of the part) |
| `blobDownloadManager` | `manager` |
| a call of `downloadBlob` and its caller | `pc`, `obj` (the download it got), `ctxDone`, `result` |
| `run`, and the goroutine of each part | `run`, `parts`, `removed` (how far the loop over `os.Remove` is) |
| `b.err`, `references`, `CancelFunc` was called | `err`, `references`, `cancelled` |

The actions are the steps between which another goroutine, or a crash, can
come. In particular `writePart` is two (`O_TRUNC`, then the encoding), the copy
of the bytes and the record of it are two, and so are each removal of a part
file and the rename. `Restart` is a crash or a stop at any point followed by a
start, with `PruneLayers`, which judges and removes each file by itself: a young
file stays, a removal may fail, a crash may end the sweep. So any subset of the
part files goes, and `-partial` goes or stays whatever becomes of them. Where it
goes and a part file stays that records some or all of its part, the bytes are
`"pruned"`: nothing fetches them again, the download counts them as there, and
what it publishes has a hole.

What is abstracted: a part is fetched whole or not at all (of a body that stops
short only the record is kept, that some of the part is there, and a later
attempt may have the whole part, or lack what was pruned); all parts have one size; waits, stalls and back-off are steps without
duration; HTTP, redirects and authorisation end in "answers" or "fails"; which
blobs of other digests the manifest names. A registry sends the right bytes
except for the parts in `BadParts`. The order of removal by index is that of
`b.Parts`, as in the code, which differs from the names of the files when one
is missing: that is how a download without part 0 fails.

| run | instance | result |
|---|---|---|
| `pull` | a pull that may be cancelled and a media pull; two parts; missing length, full disk, pruning, one crash; fair | `OneWriter`, `RecordedBytes`, `WholeBeforePublished`, `PullEnds` hold |
| `pruned_resume` | a cancelled pull, a restart with pruning, a second pull | violated: `CancelledPullsResume`. In the trace the part file that is left is taken for all parts: the data is truncated to its total and published. `PullModel` then finds the digest wrong and removes it; `MediaPullHandler` would not |

Two pullers are enough for one that stores a download and one that joins it, or
comes after it; two parts for one that is complete and one that is not, and one
that is missing. `CHECK_DEADLOCK FALSE`: pulls are finitely many.

Behaviours of the model that no run states: the last waiter cancels the
download, which stays in the manager until `run` returns, and a second pull that
joins it there is answered `context.Canceled` (`download.go:484`); nothing on the
way of a media pull calls `verifyBlob` (`media_pull.go:29`), and the file of that
name is a cache hit for every later pull, which is not verified either
(`images.go:1340`); when `Prepare` fails `done` is never closed
(`download.go:551`); a `newPart` that fails midway leaves the part files made so
far, and the next `Prepare` takes them for all (`:182`); a crash between
`O_TRUNC` and the encoding leaves a part file of no bytes (`:470`), which the
next `Prepare` reports as an error.

Fairness is far less than that of each goroutine, which the code has: some
puller, download or part goes on when one can, and a transfer that is tried again
and again succeeds some time (`SF` of `CopyAll`), which is what retries rely on.
Nothing is assumed of clients that leave, crashes or starts of pulls. `PullEnds`
exempts those who joined a download whose `Prepare` failed: the entry is deleted
and `done` never closed, so they wait for their own context.

`RecordedBytes` and `WholeBeforePublished` speak of bytes that are in `-partial`,
or were until a prune took that file and left the part file behind. This
exception is the second half of what `pruned_resume` is about: with the full set
of part files and no `-partial`, the next `run` creates the file anew, fetches
nothing for a part recorded as complete and the rest of one recorded in part,
and publishes. `PullModel` discards the blob, `MediaPullHandler` reports success
and every later pull finds a cache hit.

`BlobDownloadProofs.tla` proves `TypeCorrect`, `OneWriterAlways`,
`RecordedBytesAlways`, `WholeAlways` and `WholeWithoutPrune` for any number of
pullers, parts and crashes, from `ConstantsAssumption` alone, the last one for a
server with `OLLAMA_NOPRUNE` set: there the exception is void. None but the type invariant is
inductive by itself. The argument: `references` counts the callers of `Wait`
(`Counted`), so it does not go below zero; the manager's entry is deleted only
by its own download, when it no longer touches the files (`OneWriter` with
`RunAfterPrepare`); so a download is alone with its files, and until it removes
them it knows exactly the part files that exist (`KnownFiles`, `NewParts`); what
a goroutine says of its part, and what the part file says, is true as long as
the set of part files is full (`CopiedBytes`, `CompleteBytes`, `RecordedBytes`).
The restriction to a full set is the finding `pruned_resume`: `Truncate` cuts
the data of a download that misses a part. `WholeAlways` follows, because `run`
removes nothing before every goroutine has ended well (`RemovedFiles`), and
`WholeWithoutPrune` because only a prune makes `"pruned"` bytes (`Unpruned`).
`PullEnds` is only model-checked.

## Video jobs

`VideoJobs.tla` models `server/media_video.go`: the create handler, `watch`,
the get, content and delete handlers, and the timers, down to the points where
`j.mu`, the table's lock or a call of the engine lets another in.

| code | state in the model |
|---|---|
| a call of `VideoCreateHandler`, its request context, `context.AfterFunc` | `maker`, `clientGone`, `armed` |
| `videoJob.runner`, `release` | `runner`, `released` |
| `videoJobs.jobs`, `last`, `lost`, `timer`, `once`, `gone` | `table`, `last`, `lost`, `timer`, `ended`, `gone` |
| `watch` of a job, a later request | `pc`, `kind`, `on`, `reply` |
| the engine process and its own record of a clip | `engine`, `clip` |

`heldFor` and `sinceFetch` are clocks that only the properties read. The
scheduler is what its reference promises: an engine nobody holds may be unloaded
at any time, one that is held never is. Durations are ticks; `Keep` and
`Fetched` stand for `videoKeep` and `videoFetched`, and a timer that is due fires
before time goes on. A call of the engine succeeds, fails, or fails although the
engine did it. Filling in a request from templates, `VideoListHandler` (which
only reads) and the synchronous media routes are left out.

| run | instance | result |
|---|---|---|
| `clips` | a clip, its watch and one goroutine of later requests; an engine that exits; `Keep` 2, `Fetched` 1; fair | `EngineHeld`, `RunningClipKept`, `HoldBounded`, `JobEnds` hold |
| `rewritten_end` | the same | violated: `LostIsFailed`. `refresh` stores an answer that came before the engine exited over the failed end another poll has stored in between; the job says it is being made until it is dropped (`media_video.go:171`) |

One clip is enough because clips share only the scheduler, which other clips
cannot make unload an engine that is held; one goroutine serves one request after
another, next to the watch, so any two looks at a job can overlap. Two ticks tell
the earlier end from the later. `CHECK_DEADLOCK FALSE`: a clip is made once.

Fairness: goroutines and timers go on, clips are finished, and an engine that is
asked again and again answers some time (`SF` of `Answered`), which is what
`watch` polls for; nothing of clients, exits or the scheduler.

One behaviour has no run: an answer to the create that is lost after the engine
took the job leaves a clip that the server does not know of
(`media_video.go:363`); its reference is released all the same.

`VideoJobsProofs.tla` proves `TypeCorrect`, `HoldsEnd`, `EngineHeldAlways` and
`RunningClipsKept` for any jobs, requests and durations, from `JobsAssumption`.
`EngineHeld` needs the stage of the create that still owns the reference, and
that a job that lets go early is lost (`References`, `LosingLost`);
`RunningClipKept` needs what each answer under way says of the clip
(`HeardTrue`): one that says done or dropped stays true, because a clip is
never made twice, and an exited engine stays exited.
`JobEnds` is liveness and only model-checked.

## Engine admission and pools

`EnginePools.tla` models `llm/engine_pool.go` with the request path that uses
it in `llm/llama_server.go` and the retries of `llm/engine_admission.go`. A member
of `Requests` is a client that makes one request after another; the capture a
request leaves behind runs under its name, so the client's next request comes
after it, and captures of different clients overlap. The pool id that a request puts in its
payload is not kept: nothing in the registry or of a capture reads it.

| code | state in the model |
|---|---|
| `poolRegistry.byKey`, `used`, `creating`, `pending`, `seen` | `pooled`, `older`, `creating`, `pending`, `sooner` |
| `poolSource`, the time spent waiting | `learns`, `waited` |
| locals of `capturePool`: evicted ids, the created id | `evicted`, `made` |
| the engine's pools | `live`; `leaked` remembers those whose release failed or whose create was lost |
| `Close`: `releasePools`, `stopProcess` | `phase`, `closing` |

Times are orders. The engine reuses ids, never sweeps a pinned pool, and refuses
a create past its seats. Prompts are their pool key; whether two sightings have
enough in common is a choice.

| run | instance | checked |
|---|---|---|
| `pools` | two clients, three prefixes, two seats, two ids, one pending prefix, a budget of one wait; calls that fail or are lost; a runner that closes under captures; fair | `SeatFree`, `RegistryExact`, `ClaimsHeld`, `RequestEnds` |

Three prefixes for two seats make every create evict; two clients are one
capture in each other's way; a budget of one makes the second refusal final.
`CHECK_DEADLOCK FALSE`: a closed runner takes no requests. Fairness: requests and
captures go on, and a request that runs ends; clients need not come.

Behaviours that no run states: a payload keeps the id it looked up through the
whole admission wait, while the pool may be evicted and its id given to another
prefix (`llama_server.go:2281`); a release that fails leaves a pinned pool nobody
remembers (`engine_pool.go:716`), which `SeatFree` and `RegistryExact` except
by `leaked`; a capture that is under way when the registry is drained enters its
pool afterwards (`engine_pool.go:340`), which only the end of the process
releases.

`EnginePoolsProofs.tla` proves `TypeCorrect`, `ClaimsAlwaysHeld`,
`RegistryAlwaysExact` and `SeatAlwaysFree` from `PoolsAssumption`, for any number
of clients, prefixes and seats. The invariant has three parts. `Claimed`: a
claimed prefix has one claimer and no pool, and pools and claims together have
seats; so a claim evicts one pool at most, and one that is refused evicts none
(`Room`). `Owned`: every id is in one place -- the registry, one capture's hands,
or the closing runner's list -- and lives there. `Kept`: while the runner is up
every pool that is not leaked has such a place. `SeatFree` follows by counting:
each pool of the engine stands for a different prefix, pooled or claimed, and
none for that of the capture that is about to create (an injection). `RequestEnds`
is only model-checked.

## Prefix cache

`PrefixCache.tla` models `mlxrunner/prefix_cache.go`, `cache_trie.go` and the
two kinds of cache that differ for them: a `KVCache`, whose snapshots are ranges
that can be cut and joined, and a `RecurrentCache`, whose snapshots are states at
one offset. A node of the trie is the sequence of tokens from the root to its
end, so splits and merges are operations on sequences. What a cache holds is
modelled by what it was computed from, which makes a restored entry of another
prompt visible.

| code | state in the model |
|---|---|
| `trieNode`s with snapshots, `user` marks, `activePath` | `trie` |
| the live caches | `live` |
| `cacheSession`: inputs and items, outputs, `pendingSnapshots`, captures | `prompt`, `reuse`, `outputs`, `pending`, `base`, `captured` |
| the loop of `switchToPath`: nodes still to be paged in | `todo` |
| the thread | `pc`, `ret` |

The actions are the steps of a session: `Begin` (match, rewind), `PageIn` one node
at a time, `Switched` (align, trim), eviction one node at a time, `Schedule`, prefill in any chunks, `Attach`, `Seed` and
`Decode`, `Close`, `Compact`. `PrefillEnds` may close the session at any point of the
prompt: between two chunks because the request is cancelled, and with the prompt read
because its grammar is refused or still compiling when it is cancelled
(`pipeline.go:138`, `grammar.go:265`), before a decoder has forwarded the last token.
Sizes in bytes and the order of use are left out: which node is evicted, and how
many, is a choice. Rotating and draft caches, hidden states, lookahead of
speculative decoding, lazy snapshots and the last token that is sampled but not
forwarded are left out.

| run | instance | checked |
|---|---|---|
| `prefix` | four prompts of up to four tokens that share beginnings, two with the same media item; generation or scoring | `TypeOK`, `LiveTrue`, `SnapshotsTrue`, `PathLive`, `ItemsWhole`, `ResumesDeepest` |

Four tokens are enough for a split in the middle of an edge, a merge of two, a
prompt that goes on from an answer, and an item with a boundary inside it.
Deadlock is checked: a session never gets stuck. There is no fairness: the
module has safety properties only, of one thread.

`ItemsWhole` is weaker than the comment that "no node boundary or resume point lies
strictly inside" an item (`prefix_cache.go:20-21`), which the code does not keep.
`extendChunk` (`mlxrunner/media.go:95`) clips a chunk one token short of the prompt, so
a prompt that ends with an item is first read up to a place inside it. Generation goes
on to a decoder that forwards the last token, unless `Grammar.resolve` returns an error;
scoring reads that token in a chunk of its own, unless it is cancelled before. In both
cases `close` leaves a node boundary inside the item. When another prompt has gone on
behind the same item, a request whose match ends behind the item but short of the state
of that prompt resumes at the boundary, and reads the item in two parts. Both happen in
the instance, for generation and for scoring. `ItemsWhole` says that nothing else breaks
the rule: no match, split, snapshot or eviction makes a node inside an item, such a node is
always one token short of the session's own prompt, and a request resumes inside an item
only at a node that was there.

`PrefixCacheProofs.tla` proves all six for any prompts, generated tokens and
lengths; no property of this module is model-checked only. They rest on facts about
the operators, each a lemma:

- texts: the order of prefixes, cuts, and the longest common prefix of two texts
  (`PrefixOrder`, `CutPrefix`, `MeetIs`); what a `KVCache` holds after a text, and
  what splitting, joining and restoring a snapshot of it gives (`SnapHead`,
  `SnapTail`, `SnapJoined`, `SnapRestored`);
- sets of nodes that are closed under common prefixes: a node is split, added or
  dropped, two are merged, and which edges change (`NodeSplit`, `NodeAdded`,
  `LeafDropped`, `NodeMerged`, `EdgesAdded`, `EdgesMerged`);
- the operations of the trie: `Match`, `Split`, `Append_`, `Removed`, `Merge`,
  `Advanced`, `Trimmed` and `Compacted` keep such a set, the path of its frontier and
  the snapshots of its edges (`MatchIs`, `AdvanceKeeps`, `TrimKeeps`, `EvictKeeps`).

None of these needs induction over data: texts are compared position by position,
and an extreme of a set exists because `<` is well-founded.

The inductive invariant `Inv` has eight parts. `Tree` and `Holds`: the nodes
are closed under common prefixes, the path is that of the frontier, and each
snapshot is that of its edge. `Resting`: between requests the live caches are at
the frontier. `Paging`: while a request is paged in the caches hold two
beginnings of its match, the recurrent one not ahead, and every node already
passed has been used if it could be; `LiveTrue` says nothing of that phase, and
`ResumesDeepest` cannot be derived without it. `Running`: after that both hold one
prefix of the session, which the frontier begins. `Capturing`: a capture is
the range up to its offset from where another one ends or from no deeper than the
frontier, so that it still covers the edge when `attachCapturedSnapshots` clips it;
this is what makes `SnapshotsTrue` inductive. `Control` and `InHand` are types.

`ItemsInv`, on top of `Inv`, is for `ItemsWhole`: every node is the beginning of a
prompt with an answer (`Kept`); the offsets to be captured are inside no item (`Ends`);
and the place where a session may be closed is inside none, or one token short of the
prompt, or the frontier of the trie, where closing makes no node (`Rested`): the
place where a session started may be such a boundary of an earlier one. Attaching keeps
`Rested` because what is pending is ahead of the frontier (`AttachAhead`), and eviction
because it spares the frontier. A new node is then the text the path was advanced by or a
place where two texts part, and that is inside no item unless one of the two ends there
(`MeetClean`, `GrownItems`): two texts that agree in the first token of an item agree in
all of it.

Two assumptions are used. `PromptsAssumption`: a prompt is not empty
(`mlxrunner/pipeline.go:70` and `score.go:94` refuse one). `ItemsAssumption`: items
of a prompt do not overlap (`bindItems` refuses that), and prompts that agree up to
the first token of an item share the item, since `effectiveKeyTokens` keys its
positions on `foldValue`, a hash of its bytes and dimensions with a bit set that no
token has; a collision of that hash is left out.

## Model store

`ModelStore.tla` models what handlers do to the store: `manifest/manifest.go`,
`paths.go`, `prune_guard.go`, `legacy_keep.go`, and `PullModel`, `CopyModel`,
`PruneLayers` in `server/images.go` with the create and delete handlers. The
lock `manifestStoreMu` is held inside one call of the manifest package only, and
`RemoveNamed` does not take it.

| code | state in the model |
|---|---|
| files in `blobs/` | `blobs` |
| the link of a name in `manifests-v2/`, its copy in `manifests/` | `v2`, `legacy` |
| the links that the system does not follow | `unread`, `follows`: chosen at each reading |
| `manifestStoreMu` | `mu` |
| a handler: where it is, its name and manifest, layers to fetch, `deleteMap` or candidates | `pc`, `job`, `need`, `cand` |

A manifest is the set of its layers and stands for its own digest. Manifest
lists, digest references, tensor pulls, verification, temporary files, other
processes on the same store and pushes (which only read) are left out. What a
handler reads under the lock and uses after it is one step for the read and others
for the use. A crash loses every handler and starts the sweep, which may find any
set of blobs older than an hour.

| run | instance | checked |
|---|---|---|
| `store` | two handlers, two names, two manifests that share a layer; crashes anywhere, files that cannot be written, links that cannot be read | `TypeOK`, `NamesLead`, `NamedComplete`, `NothingLeftBehind`, `ListedKept` |

Two handlers are a writer and a prune, two names one that keeps what the other
gives up. `seen` remembers
what excuses a gap: `NamedComplete` is about requests that do not overlap,
`NothingLeftBehind` about a run without a failure or an overlap. What happens
otherwise:

- A copy, or a pull whose layer was a cache hit, that races a delete leaves a
  name without layers (`server/images.go:996`).
- A write that is cut off after the link and before the copy, and then a delete
  that is cut off after the link, bring the older manifest back
  (`manifest/paths.go:184`), without its blobs.
- A copy onto a name that exists leaves what that name had to the next start
  (`server/images.go:1005`).

`ModelStoreProofs.tla` proves all five for any handlers, names and manifests, from
the four assumptions on the constants. That the lock is held by exactly the one in
a section of it is part of the type invariant (`TypeCorrect`).

- `ListedBlobsKept` and `LinksLead`. `Safe` adds to `NamesLead` that nothing among
  the candidates of a prune that has the lock is listed by a name
  (`CandidatesFree`): the prune decided so when it took the lock, nobody who adds
  a link can have the lock meanwhile, and those who do without it only take names
  away.
- `NamesComplete` (`NamedComplete`), by `Undisturbed`: until something opened a gap
  (two handlers at once, or a write cut off between its link and the copy, `"gap"`
  in `seen`) one handler is at work at a time (`Alone`), a name has the blobs of
  what it refers to (`Complete`), the copy of a name is that of its link unless a
  write is between the two (`Copies`), and a handler finds what it has fetched when
  it comes to name it (`Hands`). `Copies` is what a delete needs: when it has taken
  the link away, the copy becomes what the name refers to.
- `StoreTidied` (`NothingLeftBehind`), by `Tidy`: as long as nothing failed or
  overlapped, every blob is listed by a name or in the hands of a handler, which
  is about to name it or has it among the candidates it will prune (`Accounted`);
  and what a write is going to replace is among its candidates from its first
  step (`Noted`).

## Not modelled

Every other component of the inventory; `PROJECT.json` gives the reason for
each. The scheduler's sizing algorithms, councils, uploads and tensor transfers
are planned. The engine client beyond admission and pools, and launch arguments,
are calls of an external process whose interleavings the scheduler's model covers
from outside. Parsers, renderers, templates, API translation, discovery,
conversion, command line and desktop application are most of the repository's
lines and have no shared state whose interleavings matter; the models cover a
small share of the code for that reason, and the part of it where order matters.
