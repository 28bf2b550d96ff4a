------------------------------ MODULE Scheduler ------------------------------
(***************************************************************************)
(* The model scheduler of the server: server/sched.go with its hooks       *)
(* server/evict_last.go (which runner to evict), server/load_caps.go (caps *)
(* per kind of model) and server/media_gone.go.                            *)
(*                                                                         *)
(* Two loops run for ever.  processPending takes one queued request at a   *)
(* time and works on it until it has a runner, evicting others to make     *)
(* room.  processCompleted drops references, unloads expired runners and   *)
(* announces every unload.  Around them run the request goroutines         *)
(* (getRunner), one goroutine per load (WaitUntilRunning), the keep-alive  *)
(* timers, the re-send goroutines and the callers of expireRunner.         *)
(*                                                                         *)
(* A step is what one goroutine does between two points where another can  *)
(* intervene: a section under loadedMu or under a runner's refMu, or one   *)
(* channel operation.  A refMu is held across steps in three cases only:   *)
(* while a load is waited for, while an unload waits for memory to come    *)
(* back, and while the holder is blocked sending to a full expiredCh.      *)
(*                                                                         *)
(* A request loads at most one runnerRef, so a runnerRef, its engine       *)
(* process and its pid are named after the request that loaded them.       *)
(***************************************************************************)
EXTENDS Integers, Sequences, FiniteSets

CONSTANTS
  Requests,         \* LlmRequests
  NoRunner,         \* the nil runnerRef
  Models,           \* scheduler keys, ordered as the strings they stand for
  ModelOf,          \* the key of a request's model
  CfgOf,            \* the launch configuration a request needs
  KeepAliveOf,      \* its keep_alive: a duration, or Unset
  DefaultKeepAlive, \* OLLAMA_KEEP_ALIVE
  FullFitModels,    \* models whose engine answers ErrLoadRequiredFull (MLX, media)
  MediaModels,      \* models served by a media engine
  AutoCtx,          \* requests whose automatic num_ctx has a lower tier
  Pinned,           \* requests whose device pin may turn out unsatisfied
  Opencoti,         \* requests whose load the opencoti engine would serve
  GpusOf,           \* the GPUs a request's load is placed on
  Kinds,            \* capped kinds of model, in the order of loadKinds
  KindsOf,          \* the kinds a model is
  KindLimit,        \* the cap of a kind, 0 for none
  MaxRunners,       \* OLLAMA_MAX_LOADED_MODELS, 0 for automatic
  AutoRunners,      \* the automatic value: defaultModelsPerGPU per GPU
  MaxQueue,         \* OLLAMA_MAX_QUEUE, the capacity of every channel
  RefCounts,        \* number of values of a uint refCount
  Timeouts,         \* whether a live engine may miss the deadline of Ping or of its load
  Cancellable,      \* requests whose client may give up before an answer
  MaxStops,         \* bound: calls of expireRunner and of the runtime-OOM one
  MaxCrashes        \* bound: engine processes that exit by themselves

\* A sessionDuration: none, some, and the time.Duration maximum that a
\* negative keep_alive is decoded to and whose timer never fires.
Durations == {0, 1, 2}
Forever == 2
Unset == 3

ASSUME ConstantsAssumption ==
  /\ IsFiniteSet(Requests) /\ NoRunner \notin Requests
  /\ IsFiniteSet(Models) /\ Models \subseteq Nat
  /\ ModelOf \in [Requests -> Models]
  /\ KeepAliveOf \in [Requests -> Durations \cup {Unset}]
  /\ DefaultKeepAlive \in Durations
  /\ Kinds \subseteq Nat /\ KindsOf \in [Models -> SUBSET Kinds]
  /\ KindLimit \in [Kinds -> Nat]
  /\ MaxRunners \in Nat /\ AutoRunners \in Nat \ {0}
  /\ MaxQueue \in Nat \ {0}
  /\ RefCounts \in Nat /\ RefCounts > Cardinality(Requests) + 1
  /\ MaxStops \in Nat /\ MaxCrashes \in Nat

VARIABLES
  pc,            \* where the goroutine of a request is in getRunner
  seen,          \* the runner it found in the map
  grant,         \* the runner sent on the request's successCh
  answers,       \* how many values were sent on its successCh and errCh
  ctxDone,       \* requests whose context is done
  released,      \* requests whose finished event has been processed
  pendingReqCh, expiredCh, unloadedCh,
  loaded,        \* loaded[m]: the runner of key m, or NoRunner
  refMu, refCount, sessionDuration, expireTimer,  \* fields of the runnerRefs
  engine,        \* the state of a runner's process
  callbacks,     \* timer callbacks started and not yet through
  resends,       \* goroutines about to send the expired event again
  expirers,      \* callers outside the loops about to expire the runner
  activeLoading, \* the engine being loaded: the request it was created for
  maxRunners,    \* processPending's local of that name
  pend,          \* the state of processPending
  comp,          \* the state of processCompleted
  budget,        \* what remains of MaxStops and MaxCrashes
  stale          \* history: requests that were handed an unloaded runner

requestVars == <<pc, seen, grant, answers, ctxDone, released, stale>>
answerVars == <<pc, seen, grant, answers>>
chanVars == <<pendingReqCh, expiredCh, unloadedCh>>
runnerVars == <<refMu, refCount, sessionDuration, expireTimer, engine, callbacks, resends,
                expirers>>
mapVars == <<loaded, activeLoading, maxRunners>>
vars == <<requestVars, chanVars, runnerVars, mapVars, pend, comp, budget>>

Runners == Requests
Keys(S) == {m \in S : loaded[m] # NoRunner}
LoadedRunners(S) == {loaded[m] : m \in Keys(S)}
IsLoaded(g) == loaded[ModelOf[g]] = g

\* The requests a runner is serving: granted it, and not yet accounted as done.
Holders(g) == {r \in Requests : grant[r] = g /\ r \notin released}

Answered(r) == answers[r] > 0

-----------------------------------------------------------------------------
(* runnerRef: refMu, the reference count, the keep-alive timer.            *)

Free(g) == refMu[g] = "free"

\* Mutant of Emit: a send that gives up on a full channel.
EmitOrDrop(g, who) ==
  /\ expiredCh' = IF Len(expiredCh) < MaxQueue THEN Append(expiredCh, g) ELSE expiredCh
  /\ UNCHANGED refMu

\* A goroutine ends its refMu section with expiredCh <- runner: it unlocks at
\* once if there is room, else it keeps the lock until there is.
Emit(g, who) ==
  IF Len(expiredCh) < MaxQueue
  THEN expiredCh' = Append(expiredCh, g) /\ UNCHANGED refMu
  ELSE refMu' = [refMu EXCEPT ![g] = who] /\ UNCHANGED expiredCh

\* Which goroutine holds a refMu while it is blocked on expiredCh.
Senders == {"pending", "completed", "other"}
Blocked(who) == \E g \in Runners : refMu[g] = who

\* Mutant of ExpireNow: the keep-alive is ended and the event forgotten.
ExpireNowSilently(g, who) ==
  /\ Free(g)
  /\ expireTimer' = [expireTimer EXCEPT ![g] = "nil"]
  /\ sessionDuration' = [sessionDuration EXCEPT ![g] = 0]
  /\ UNCHANGED <<refMu, expiredCh>>

\* The body shared by every forced expiration: stop the timer, end the
\* keep-alive, and queue the runner if nobody uses it.
ExpireNow(g, who) ==
  /\ Free(g)
  /\ expireTimer' = [expireTimer EXCEPT ![g] = "nil"]
  /\ sessionDuration' = [sessionDuration EXCEPT ![g] = 0]
  /\ IF refCount[g] = 0 THEN Emit(g, who) ELSE UNCHANGED <<refMu, expiredCh>>

\* The answers needsReload may give: an unloaded runner, a changed
\* configuration or an engine that does not answer means a reload.
NeedsReload(g, r) ==
  IF engine[g] # "up" \/ CfgOf[g] # CfgOf[r] THEN {TRUE}
  ELSE IF Timeouts THEN {TRUE, FALSE} ELSE {FALSE}

\* Mutants of Incremented and Decremented: a count that is set instead of
\* raised, one that is cleared, and one that is left alone.
IncrementedOnce(n) == 1
DecrementedToZero(n) == 0
DecrementedNever(n) == n

\* A reference more or less, in the width of a uint.
Incremented(n) == (n + 1) % RefCounts
Decremented(n) == (n + RefCounts - 1) % RefCounts

UseLoadedRunner(r, g) ==
  /\ Free(g)
  /\ refCount' = [refCount EXCEPT ![g] = Incremented(@)]
  /\ expireTimer' = [expireTimer EXCEPT ![g] = "nil"]
  /\ sessionDuration' = IF KeepAliveOf[r] = Unset THEN sessionDuration
                        ELSE [sessionDuration EXCEPT ![g] = KeepAliveOf[r]]
  /\ grant' = [grant EXCEPT ![r] = g]
  /\ answers' = [answers EXCEPT ![r] = @ + 1]
  /\ stale' = IF engine[g] = "closed" THEN stale \cup {r} ELSE stale
  /\ UNCHANGED <<refMu, engine, callbacks, resends, expirers>>

\* An error on errCh.
SendErr(r) == answers' = [answers EXCEPT ![r] = @ + 1]

-----------------------------------------------------------------------------
(* getRunner, in the goroutine of the request.                             *)

GoTo(r, label) == pc' = [pc EXCEPT ![r] = label]

LookUp(r) ==
  /\ pc[r] = "new"
  /\ seen' = [seen EXCEPT ![r] = loaded[ModelOf[r]]]
  /\ GoTo(r, IF loaded[ModelOf[r]] = NoRunner THEN "enqueue" ELSE "check")
  /\ UNCHANGED <<grant, answers, ctxDone, released, stale, chanVars, runnerVars, mapVars,
                 pend, comp, budget>>

FastCheck(r) ==
  /\ pc[r] = "check"
  /\ Free(seen[r])
  /\ \E reload \in NeedsReload(seen[r], r) : GoTo(r, IF reload THEN "enqueue" ELSE "use")
  /\ UNCHANGED <<seen, grant, answers, ctxDone, released, stale, chanVars, runnerVars,
                 mapVars, pend, comp, budget>>

\* Mutant of FastUse: no return after the fast path.
FastUseFallsThrough(r) ==
  /\ pc[r] = "use"
  /\ UseLoadedRunner(r, seen[r])
  /\ GoTo(r, "enqueue")
  /\ UNCHANGED <<seen, ctxDone, released, chanVars, mapVars, pend, comp, budget>>

FastUse(r) ==
  /\ pc[r] = "use"
  /\ UseLoadedRunner(r, seen[r])
  /\ GoTo(r, "sent")
  /\ UNCHANGED <<seen, ctxDone, released, chanVars, mapVars, pend, comp, budget>>

Enqueue(r) ==
  /\ pc[r] = "enqueue"
  /\ GoTo(r, "sent")
  /\ IF Len(pendingReqCh) < MaxQueue
     THEN pendingReqCh' = Append(pendingReqCh, r) /\ UNCHANGED answers
     ELSE answers' = [answers EXCEPT ![r] = @ + 1] /\ UNCHANGED pendingReqCh
  /\ UNCHANGED <<seen, grant, ctxDone, released, stale, expiredCh, unloadedCh, runnerVars,
                 mapVars, pend, comp, budget>>

\* The handler that was given a runner is through with it.
ClientDone(r) ==
  /\ grant[r] # NoRunner /\ r \notin ctxDone
  /\ ctxDone' = ctxDone \cup {r}
  /\ UNCHANGED <<answerVars, released, stale, chanVars, runnerVars, mapVars, pend, comp,
                 budget>>

\* The client goes away before it has an answer.
ClientCancel(r) ==
  /\ r \in Cancellable /\ pc[r] # "new" /\ ~Answered(r) /\ r \notin ctxDone
  /\ ctxDone' = ctxDone \cup {r}
  /\ UNCHANGED <<answerVars, released, stale, chanVars, runnerVars, mapVars, pend, comp,
                 budget>>

-----------------------------------------------------------------------------
(* processPending.                                                         *)

Idle == [pc |-> "idle", req |-> NoRunner, run |-> NoRunner, empty |-> FALSE,
         oomRetry |-> FALSE, scan |-> <<>>, rest |-> {}, targets |-> {}, waits |-> 0]

At(label) == pend.pc = label /\ ~Blocked("pending")

\* What no step of the loop changes, and what a step that only moves changes not.
Pass == UNCHANGED <<seen, ctxDone, released, callbacks, resends, expirers, comp, budget>>
NoAnswer == UNCHANGED <<pc, grant, answers, stale>>
NoTouch == UNCHANGED <<refMu, refCount, sessionDuration, expireTimer, engine>>
OnlyPend == Pass /\ NoAnswer /\ NoTouch /\ UNCHANGED <<chanVars, mapVars>>

\* Takes a request from the queue; one whose client has gone is dropped
\* without an answer.
TakePending ==
  /\ At("idle") /\ pendingReqCh # <<>>
  /\ pendingReqCh' = Tail(pendingReqCh)
  /\ pend' = IF Head(pendingReqCh) \in ctxDone THEN pend
             ELSE [pend EXCEPT !.pc = "look", !.req = Head(pendingReqCh)]
  /\ Pass /\ NoAnswer /\ NoTouch /\ UNCHANGED <<expiredCh, unloadedCh, mapVars>>

\* An unload nobody waits for.
DrainUnloaded ==
  /\ At("idle") /\ unloadedCh > 0
  /\ unloadedCh' = unloadedCh - 1
  /\ Pass /\ NoAnswer /\ NoTouch /\ UNCHANGED <<pendingReqCh, expiredCh, mapVars, pend>>

\* The top of the inner loop, under loadedMu.
Look ==
  /\ At("look")
  /\ LET g == loaded[ModelOf[pend.req]] IN
     pend' = [pend EXCEPT !.pc = IF g = NoRunner THEN "caps" ELSE "check",
                          !.run = g, !.empty = Keys(Models) = {}]
  /\ OnlyPend

PendingCheck ==
  /\ At("check") /\ Free(pend.run)
  /\ \E reload \in NeedsReload(pend.run, pend.req) :
       pend' = [pend EXCEPT !.pc = IF reload THEN "expire" ELSE "use"]
  /\ OnlyPend

PendingUse ==
  /\ At("use")
  /\ UseLoadedRunner(pend.req, pend.run)
  /\ pend' = Idle
  /\ UNCHANGED <<pc, seen, ctxDone, released, chanVars, mapVars, comp, budget>>

\* The caps: a model is in the shared pool unless every kind it is has a cap.
InSharedPool(m) == KindsOf[m] = {} \/ \E k \in KindsOf[m] : KindLimit[k] = 0
OfKind(k) == {m \in Models : k \in KindsOf[m]}
SharedPool == {m \in Models : InSharedPool(m)}
AtKindCap(k) == KindLimit[k] > 0 /\ Cardinality(Keys(OfKind(k))) >= KindLimit[k]
\* Mutant of AtSharedCap: one model too many.
AtSharedCapOffByOne(m) ==
  maxRunners > 0 /\ InSharedPool(m) /\ Cardinality(Keys(SharedPool)) > maxRunners
AtSharedCap(m) == /\ maxRunners > 0 /\ InSharedPool(m)
                  /\ Cardinality(Keys(SharedPool)) >= maxRunners

\* ByDurationAndName: the ways a set of runners may be sorted.
Before(g, h) ==
  \/ sessionDuration[g] < sessionDuration[h]
  \/ /\ sessionDuration[g] = sessionDuration[h]
     /\ ModelOf[g] < ModelOf[h]
Sorted(S) == {s \in [1..Cardinality(S) -> S] :
                \A i, j \in 1..Cardinality(S) : i < j => Before(s[i], s[j])}

\* pickRunnerToUnload among the runners S: none, or a scan for an idle one
\* that falls back on the first.
PickAmong(S) ==
  IF S = {} THEN pend' = [pend EXCEPT !.pc = "look"]
  ELSE \E s \in Sorted(S) :
         pend' = [pend EXCEPT !.pc = "scan", !.scan = s, !.run = s[1]]

\* kindCapVictim, then the shared cap, then on to the load.
Caps ==
  /\ At("caps")
  /\ LET m == ModelOf[pend.req]
         full == {k \in KindsOf[m] : AtKindCap(k)}
     IN \/ \E k \in full : /\ \A j \in full : k <= j
                           /\ PickAmong(LoadedRunners(OfKind(k)))
        \/ /\ full = {} /\ AtSharedCap(m)
           /\ pend' = [pend EXCEPT !.pc = "pickShared"]
        \/ /\ full = {} /\ ~AtSharedCap(m)
           /\ pend' = [pend EXCEPT !.pc = "visit", !.rest = LoadedRunners(Models)]
  /\ OnlyPend

PickShared ==
  /\ At("pickShared")
  /\ PickAmong(LoadedRunners(SharedPool))
  /\ OnlyPend

\* findRunnerToUnloadOn: a runner on the GPUs of the load first, if opencoti
\* serves it, else any.
PickOn ==
  /\ At("pickOn")
  /\ LET all == LoadedRunners(Models)
         on == {g \in all : pend.req \in Opencoti /\ GpusOf[g] \cap GpusOf[pend.req] # {}}
     IN PickAmong(IF on = {} THEN all ELSE on)
  /\ OnlyPend

\* One runner of the scan, under its refMu.
Scan ==
  /\ At("scan") /\ Free(Head(pend.scan))
  /\ pend' = IF refCount[Head(pend.scan)] = 0
             THEN [pend EXCEPT !.pc = "expire", !.run = Head(pend.scan), !.scan = <<>>]
             ELSE [pend EXCEPT !.pc = IF Tail(pend.scan) = <<>> THEN "expire" ELSE "scan",
                               !.scan = Tail(pend.scan)]
  /\ OnlyPend

\* updateFreeSpace and busyGPUs lock every loaded runner in turn.
Visit ==
  /\ At("visit")
  /\ \E g \in pend.rest : /\ Free(g)
                          /\ pend' = [pend EXCEPT !.rest = @ \ {g}]
  /\ OnlyPend

\* The rest of the pass before load(): the automatic maxRunners, the device
\* pin, which ends the request when it is not satisfied.
Placed ==
  /\ At("visit") /\ pend.rest = {}
  /\ maxRunners' = IF maxRunners = 0 THEN AutoRunners ELSE maxRunners
  /\ \/ /\ pend' = [pend EXCEPT !.pc = "create"]
        /\ UNCHANGED answers
     \/ /\ pend.req \in Pinned
        /\ SendErr(pend.req)
        /\ pend' = Idle
  /\ Pass /\ NoTouch /\ UNCHANGED <<pc, grant, stale, chanVars, loaded, activeLoading>>

\* Mutant of NeedEvict: the pass is given up, not the runner evicted.
NeedEvictGivesUp(oomRetry) == Idle

\* load() asked for an eviction: where the inner loop goes from there.
NeedEvict(oomRetry) ==
  [pend EXCEPT !.oomRetry = oomRetry,
               !.pc = IF pend.empty THEN "look"
                      ELSE IF oomRetry THEN "evictAll" ELSE "pickOn"]

\* load() under loadedMu: the prediction of a llama-server load may ask for
\* an eviction, creating the engine may fail, an engine kept from an earlier
\* pass is used again and must be of the same model.
Create ==
  /\ At("create")
  /\ \/ /\ activeLoading = NoRunner
        /\ activeLoading' = pend.req
        /\ pend' = [pend EXCEPT !.pc = "load"]
        /\ UNCHANGED answers
     \/ /\ activeLoading = NoRunner
        /\ SendErr(pend.req)
        /\ pend' = Idle
        /\ UNCHANGED activeLoading
     \/ /\ activeLoading = NoRunner
        /\ ModelOf[pend.req] \notin FullFitModels
        /\ ~pend.empty /\ Keys(Models) # {}
        /\ pend' = NeedEvict(pend.oomRetry)
        /\ UNCHANGED <<answers, activeLoading>>
     \/ /\ activeLoading # NoRunner
        /\ pend' = [pend EXCEPT !.pc = IF ModelOf[activeLoading] = ModelOf[pend.req]
                                       THEN "load" ELSE "panic"]
        /\ UNCHANGED <<answers, activeLoading>>
  /\ Pass /\ NoTouch /\ UNCHANGED <<pc, grant, stale, chanVars, loaded, maxRunners>>

\* llama.Load succeeded: the runnerRef is made, locked, and put in the map;
\* one that is still there under the key is unloaded first.
LoadSucceeds ==
  /\ At("load")
  /\ LET r == pend.req
         old == loaded[ModelOf[r]]
     IN /\ old # NoRunner => Free(old)
        /\ refMu' = [refMu EXCEPT ![r] = "loading"]
        /\ refCount' = [refCount EXCEPT ![r] = 0]
        /\ sessionDuration' = [sessionDuration EXCEPT
             ![r] = IF KeepAliveOf[r] = Unset THEN DefaultKeepAlive ELSE KeepAliveOf[r]]
        /\ expireTimer' = [g \in Runners |-> IF g \in {r, old} THEN "nil" ELSE expireTimer[g]]
        /\ engine' = [g \in Runners |-> IF g = r THEN "up"
                                        ELSE IF g = old THEN "closed" ELSE engine[g]]
        /\ loaded' = [loaded EXCEPT ![ModelOf[r]] = r]
  /\ activeLoading' = NoRunner
  /\ pend' = Idle
  /\ Pass /\ NoAnswer /\ UNCHANGED <<chanVars, maxRunners>>

\* ErrLoadRequiredFull: the engine stays for the next pass.
LoadRequiresFull ==
  /\ At("load") /\ ~pend.empty /\ ModelOf[pend.req] \in FullFitModels
  /\ pend' = NeedEvict(pend.oomRetry)
  /\ OnlyPend

\* Any other error closes the engine.  Out of memory is retried once: with a
\* smaller automatic context, or when other models can be evicted.
LoadFails ==
  /\ At("load")
  /\ activeLoading' = NoRunner
  /\ \/ /\ ~pend.oomRetry
        /\ pend.req \in AutoCtx \/ Keys(Models) # {}
        /\ pend' = NeedEvict(TRUE)
        /\ UNCHANGED answers
     \/ /\ SendErr(pend.req)
        /\ pend' = Idle
  /\ Pass /\ NoTouch /\ UNCHANGED <<pc, grant, stale, chanVars, loaded, maxRunners>>

\* Mutant of ExpireVictim: events of earlier unloads are discarded first.
ExpireVictimDrainsFirst ==
  /\ At("expire")
  /\ ExpireNow(pend.run, "pending")
  /\ unloadedCh' = 0
  /\ pend' = [pend EXCEPT !.pc = "wait", !.targets = {pend.run}, !.waits = 1]
  /\ Pass /\ NoAnswer /\ UNCHANGED <<refCount, engine, pendingReqCh, mapVars>>

\* The chosen runner is told to expire; then the loop waits for an unload.
ExpireVictim ==
  /\ At("expire")
  /\ ExpireNow(pend.run, "pending")
  /\ pend' = [pend EXCEPT !.pc = "wait", !.targets = {pend.run}, !.waits = 1]
  /\ Pass /\ NoAnswer /\ UNCHANGED <<refCount, engine, pendingReqCh, unloadedCh, mapVars>>

\* evictAllAndWait: every other runner is told to expire, one by one.
EvictAll ==
  /\ At("evictAll")
  /\ LET others == LoadedRunners(Models \ {ModelOf[pend.req]}) IN
     pend' = IF others = {} THEN [pend EXCEPT !.pc = "look"]
             ELSE [pend EXCEPT !.pc = "evict", !.rest = others, !.targets = others,
                               !.waits = Cardinality(others)]
  /\ OnlyPend

EvictOne ==
  /\ At("evict")
  /\ \E g \in pend.rest :
       /\ ExpireNow(g, "pending")
       /\ pend' = [pend EXCEPT !.rest = @ \ {g},
                               !.pc = IF pend.rest = {g} THEN "waitAll" ELSE "evict"]
  /\ Pass /\ NoAnswer /\ UNCHANGED <<refCount, engine, pendingReqCh, unloadedCh, mapVars>>

\* One event from unloadedCh, whosever it is.
Wake ==
  /\ At("wait") \/ At("waitAll")
  /\ unloadedCh > 0
  /\ unloadedCh' = unloadedCh - 1
  /\ pend' = IF pend.waits = 1
             THEN [pend EXCEPT !.pc = "look", !.waits = 0, !.targets = {}]
             ELSE [pend EXCEPT !.waits = @ - 1]
  /\ Pass /\ NoAnswer /\ NoTouch /\ UNCHANGED <<pendingReqCh, expiredCh, mapVars>>

ProcessPending ==
  \/ TakePending \/ DrainUnloaded \/ Look \/ PendingCheck \/ PendingUse
  \/ Caps \/ PickShared \/ PickOn \/ Scan \/ Visit \/ Placed
  \/ Create \/ LoadSucceeds \/ LoadRequiresFull \/ LoadFails
  \/ ExpireVictim \/ EvictAll \/ EvictOne \/ Wake

-----------------------------------------------------------------------------
(* The goroutine of a load, which holds refMu from the insertion on.       *)

LoadRunning(g) ==
  /\ refMu[g] = "loading" /\ engine[g] = "up"
  /\ refMu' = [refMu EXCEPT ![g] = "free"]
  /\ refCount' = [refCount EXCEPT ![g] = Incremented(@)]
  /\ grant' = [grant EXCEPT ![g] = g]
  /\ answers' = [answers EXCEPT ![g] = @ + 1]
  /\ UNCHANGED <<pc, seen, ctxDone, released, stale, chanVars, sessionDuration, expireTimer,
                 engine, callbacks, resends, expirers, mapVars, pend, comp, budget>>

\* The client has gone, the engine has exited, or it took too long; the
\* engine itself is left to the expired event.
LoadAborted(g) ==
  /\ refMu[g] = "loading"
  /\ g \in ctxDone \/ engine[g] = "exited" \/ Timeouts
  /\ SendErr(g)
  /\ IF Len(expiredCh) < MaxQueue
     THEN /\ expiredCh' = Append(expiredCh, g)
          /\ refMu' = [refMu EXCEPT ![g] = "free"]
     ELSE refMu' = [refMu EXCEPT ![g] = "other"] /\ UNCHANGED expiredCh
  /\ UNCHANGED <<pc, seen, grant, ctxDone, released, stale, pendingReqCh, unloadedCh, refCount,
                 sessionDuration, expireTimer, engine, callbacks, resends, expirers, mapVars,
                 pend, comp, budget>>

-----------------------------------------------------------------------------
(* processCompleted.                                                       *)

Rest == [pc |-> "idle", run |-> NoRunner, req |-> NoRunner]
CompAt(label) == comp.pc = label /\ ~Blocked("completed")

\* A goroutine waits for each granted request's context and then sends on
\* finishedReqCh; it holds no lock, so the channel adds no order of its own.
FinishedReqCh == {r \in ctxDone : grant[r] # NoRunner /\ r \notin released}

\* Mutant of TakeFinished: no test that the key still has a runner.
TakeFinishedNoNilCheck(r) ==
  /\ CompAt("idle") /\ r \in FinishedReqCh
  /\ comp' = [pc |-> "finish", run |-> loaded[ModelOf[r]], req |-> r]
  /\ UNCHANGED <<answerVars, ctxDone, released, stale, chanVars, runnerVars, mapVars, pend,
                 budget>>

\* The runner is found by the key of the request's model, not by the grant.
TakeFinished(r) ==
  /\ CompAt("idle") /\ r \in FinishedReqCh
  /\ LET g == loaded[ModelOf[r]] IN
     IF g = NoRunner
     THEN released' = released \cup {r} /\ UNCHANGED comp
     ELSE comp' = [pc |-> "finish", run |-> g, req |-> r] /\ UNCHANGED released
  /\ UNCHANGED <<answerVars, ctxDone, stale, chanVars, runnerVars, mapVars, pend, budget>>

\* The reference goes; an idle runner is expired or gets its timer.  A media
\* engine that has exited loses its keep-alive (mediaEngineGone).
Finish ==
  /\ CompAt("finish") /\ Free(comp.run)
  /\ LET g == comp.run
         idle == Decremented(refCount[g]) = 0
         gone == ModelOf[g] \in MediaModels /\ engine[g] # "up"
         over == idle /\ (gone \/ sessionDuration[g] = 0)
     IN /\ refCount' = [refCount EXCEPT ![g] = Decremented(@)]
        /\ sessionDuration' = IF over THEN [sessionDuration EXCEPT ![g] = 0] ELSE sessionDuration
        /\ expireTimer' = IF idle
                          THEN [expireTimer EXCEPT ![g] = IF over THEN "nil" ELSE "armed"]
                          ELSE expireTimer
        /\ IF over THEN Emit(g, "completed") ELSE UNCHANGED <<refMu, expiredCh>>
  /\ released' = released \cup {comp.req}
  /\ comp' = Rest
  /\ UNCHANGED <<answerVars, ctxDone, stale, pendingReqCh, unloadedCh, engine, callbacks,
                 resends, expirers, mapVars, pend, budget>>

TakeExpired ==
  /\ CompAt("idle") /\ expiredCh # <<>>
  /\ expiredCh' = Tail(expiredCh)
  /\ comp' = [Rest EXCEPT !.pc = "expired", !.run = Head(expiredCh)]
  /\ UNCHANGED <<requestVars, pendingReqCh, unloadedCh, runnerVars, mapVars, pend, budget>>

\* An expired event of a runner in use is sent again later; that of a runner
\* already unloaded is ignored; an older runner of the key is closed, and the
\* newer one left alone.
ExpiredIgnored ==
  /\ CompAt("expired") /\ Free(comp.run)
  /\ LET g == comp.run IN
     \/ /\ refCount[g] > 0
        /\ resends' = [resends EXCEPT ![g] = @ + 1]
        /\ UNCHANGED <<expireTimer, engine>>
     \/ /\ refCount[g] = 0 /\ loaded[ModelOf[g]] = NoRunner
        /\ UNCHANGED <<expireTimer, engine, resends>>
     \/ /\ refCount[g] = 0 /\ loaded[ModelOf[g]] \notin {g, NoRunner}
        /\ expireTimer' = [expireTimer EXCEPT ![g] = "nil"]
        /\ engine' = [engine EXCEPT ![g] = "closed"]
        /\ UNCHANGED resends
  /\ comp' = Rest
  /\ UNCHANGED <<requestVars, chanVars, refMu, refCount, sessionDuration, callbacks, expirers,
                 mapVars, pend, budget>>

\* Mutant of Unload: whatever the key has now is deleted from the map.
UnloadByKey ==
  /\ CompAt("expired") /\ Free(comp.run)
  /\ refCount[comp.run] = 0 /\ loaded[ModelOf[comp.run]] # NoRunner
  /\ refMu' = [refMu EXCEPT ![comp.run] = "unloading"]
  /\ expireTimer' = [expireTimer EXCEPT ![comp.run] = "nil"]
  /\ engine' = [engine EXCEPT ![comp.run] = "closed"]
  /\ loaded' = [loaded EXCEPT ![ModelOf[comp.run]] = NoRunner]
  /\ comp' = [comp EXCEPT !.pc = "recover"]
  /\ UNCHANGED <<requestVars, chanVars, refCount, sessionDuration, callbacks, resends,
                 expirers, activeLoading, maxRunners, pend, budget>>

\* The unload proper; refMu stays held until memory has come back.
Unload ==
  /\ CompAt("expired") /\ Free(comp.run)
  /\ refCount[comp.run] = 0 /\ IsLoaded(comp.run)
  /\ refMu' = [refMu EXCEPT ![comp.run] = "unloading"]
  /\ expireTimer' = [expireTimer EXCEPT ![comp.run] = "nil"]
  /\ engine' = [engine EXCEPT ![comp.run] = "closed"]
  /\ loaded' = [loaded EXCEPT ![ModelOf[comp.run]] = NoRunner]
  /\ comp' = [comp EXCEPT !.pc = "recover"]
  /\ UNCHANGED <<requestVars, chanVars, refCount, sessionDuration, callbacks, resends,
                 expirers, activeLoading, maxRunners, pend, budget>>

\* waitForVRAMRecovery is bounded by its own timeout.
Recovered ==
  /\ CompAt("recover")
  /\ refMu' = [refMu EXCEPT ![comp.run] = "free"]
  /\ comp' = [comp EXCEPT !.pc = "announce"]
  /\ UNCHANGED <<requestVars, chanVars, refCount, sessionDuration, expireTimer, engine,
                 callbacks, resends, expirers, mapVars, pend, budget>>

Announce ==
  /\ CompAt("announce") /\ unloadedCh < MaxQueue
  /\ unloadedCh' = unloadedCh + 1
  /\ comp' = Rest
  /\ UNCHANGED <<requestVars, pendingReqCh, expiredCh, runnerVars, mapVars, pend, budget>>

ProcessCompleted ==
  \/ \E r \in Requests : TakeFinished(r)
  \/ Finish \/ TakeExpired \/ ExpiredIgnored \/ Unload \/ Recovered \/ Announce

-----------------------------------------------------------------------------
(* Timers, re-sends, blocked senders, and the callers outside the loops.   *)

\* The timer fires: its callback exists from now on, Stop cannot revoke it.
TimerFires(g) ==
  /\ expireTimer[g] = "armed" /\ sessionDuration[g] # Forever
  /\ expireTimer' = [expireTimer EXCEPT ![g] = "fired"]
  /\ callbacks' = [callbacks EXCEPT ![g] = @ + 1]
  /\ UNCHANGED <<requestVars, chanVars, refMu, refCount, sessionDuration, engine, resends,
                 expirers, mapVars, pend, comp, budget>>

TimerCallback(g) ==
  /\ callbacks[g] > 0 /\ Free(g)
  /\ callbacks' = [callbacks EXCEPT ![g] = @ - 1]
  /\ expireTimer' = [expireTimer EXCEPT ![g] = "nil"]
  /\ Emit(g, "other")
  /\ UNCHANGED <<requestVars, pendingReqCh, unloadedCh, refCount, sessionDuration, engine,
                 resends, expirers, mapVars, pend, comp, budget>>

Resend(g) ==
  /\ resends[g] > 0 /\ Len(expiredCh) < MaxQueue
  /\ expiredCh' = Append(expiredCh, g)
  /\ resends' = [resends EXCEPT ![g] = @ - 1]
  /\ UNCHANGED <<requestVars, pendingReqCh, unloadedCh, refMu, refCount, sessionDuration,
                 expireTimer, engine, callbacks, expirers, mapVars, pend, comp, budget>>

\* A goroutine that was blocked on expiredCh gets its event in and unlocks.
SendUnblocks(g) ==
  /\ refMu[g] \in Senders /\ Len(expiredCh) < MaxQueue
  /\ expiredCh' = Append(expiredCh, g)
  /\ refMu' = [refMu EXCEPT ![g] = "free"]
  /\ UNCHANGED <<requestVars, pendingReqCh, unloadedCh, refCount, sessionDuration, expireTimer,
                 engine, callbacks, resends, expirers, mapVars, pend, comp, budget>>

\* expireRunner takes the runner of one key, expireRunnersForRuntimeOOM every
\* runner, under loadedMu; each is expired later under its own refMu.
StopRunners(S) ==
  /\ budget.stops > 0 /\ S # {}
  /\ budget' = [budget EXCEPT !.stops = @ - 1]
  /\ expirers' = [g \in Runners |-> IF g \in S THEN expirers[g] + 1 ELSE expirers[g]]
  /\ UNCHANGED <<requestVars, chanVars, refMu, refCount, sessionDuration, expireTimer, engine,
                 callbacks, resends, mapVars, pend, comp>>

ExpireRunner == \E m \in Models : StopRunners(LoadedRunners({m}))
ExpireRunnersForRuntimeOOM == StopRunners(LoadedRunners(Models))

StopOne(g) ==
  /\ expirers[g] > 0
  /\ expirers' = [expirers EXCEPT ![g] = @ - 1]
  /\ ExpireNow(g, "other")
  /\ UNCHANGED <<requestVars, pendingReqCh, unloadedCh, refCount, engine, callbacks, resends,
                 mapVars, pend, comp, budget>>

\* The engine process exits by itself.
EngineCrash(g) ==
  /\ engine[g] = "up" /\ budget.crashes > 0
  /\ budget' = [budget EXCEPT !.crashes = @ - 1]
  /\ engine' = [engine EXCEPT ![g] = "exited"]
  /\ UNCHANGED <<requestVars, chanVars, refMu, refCount, sessionDuration, expireTimer, callbacks,
                 resends, expirers, mapVars, pend, comp>>

-----------------------------------------------------------------------------
Init ==
  /\ pc = [r \in Requests |-> "new"]
  /\ seen = [r \in Requests |-> NoRunner] /\ grant = [r \in Requests |-> NoRunner]
  /\ answers = [r \in Requests |-> 0]
  /\ ctxDone = {} /\ released = {} /\ stale = {}
  /\ pendingReqCh = <<>> /\ expiredCh = <<>> /\ unloadedCh = 0
  /\ refMu = [g \in Runners |-> "free"] /\ refCount = [g \in Runners |-> 0]
  /\ sessionDuration = [g \in Runners |-> 0]
  /\ expireTimer = [g \in Runners |-> "nil"] /\ engine = [g \in Runners |-> "none"]
  /\ callbacks = [g \in Runners |-> 0] /\ resends = [g \in Runners |-> 0]
  /\ expirers = [g \in Runners |-> 0]
  /\ loaded = [m \in Models |-> NoRunner]
  /\ activeLoading = NoRunner /\ maxRunners = MaxRunners
  /\ pend = Idle /\ comp = Rest
  /\ budget = [stops |-> MaxStops, crashes |-> MaxCrashes]

GetRunner(r) ==
  LookUp(r) \/ FastCheck(r) \/ FastUse(r) \/ Enqueue(r) \/ ClientDone(r) \/ ClientCancel(r)

RunnerStep(g) ==
  \/ LoadRunning(g) \/ LoadAborted(g) \/ TimerFires(g) \/ TimerCallback(g)
  \/ Resend(g) \/ SendUnblocks(g) \/ StopOne(g) \/ EngineCrash(g)

Next ==
  \/ \E r \in Requests : GetRunner(r)
  \/ ProcessPending
  \/ ProcessCompleted
  \/ \E g \in Runners : RunnerStep(g)
  \/ ExpireRunner \/ ExpireRunnersForRuntimeOOM

\* Every goroutine that can run does; a select that is offered the same
\* channel again and again takes it in the end (Go chooses at random); a
\* handler that has its runner ends; a finite timer fires.  Nothing forces a
\* client to start, to cancel or to stop a model, nor an engine to crash.
Fairness ==
  /\ WF_vars(ProcessPending)
  /\ WF_vars(ProcessCompleted)
  /\ \A r \in Requests :
       /\ WF_vars(FastCheck(r)) /\ WF_vars(FastUse(r)) /\ WF_vars(Enqueue(r))
       /\ WF_vars(ClientDone(r)) /\ SF_vars(TakeFinished(r))
  /\ SF_vars(TakeExpired)
  /\ \A g \in Runners :
       /\ WF_vars(LoadRunning(g) \/ LoadAborted(g))
       /\ WF_vars(TimerFires(g)) /\ WF_vars(TimerCallback(g))
       /\ WF_vars(Resend(g)) /\ WF_vars(SendUnblocks(g)) /\ WF_vars(StopOne(g))

Spec == Init /\ [][Next]_vars
FairSpec == Spec /\ Fairness
-----------------------------------------------------------------------------
(* Properties.                                                             *)

\* Every variable has its type, and the registers of the loops and of a
\* request's goroutine hold a runner or a request where it is dereferenced.
PendType == [pc : {"idle", "look", "check", "use", "caps", "pickShared", "pickOn", "scan",
                   "visit", "create", "load", "expire", "evictAll", "evict", "wait", "waitAll",
                   "panic"},
             req : Requests \cup {NoRunner}, run : Runners \cup {NoRunner},
             empty : BOOLEAN, oomRetry : BOOLEAN, scan : Seq(Runners),
             rest : SUBSET Runners, targets : SUBSET Runners, waits : Nat]
CompType == [pc : {"idle", "finish", "expired", "recover", "announce"},
             run : Runners \cup {NoRunner}, req : Requests \cup {NoRunner}]
RequestsTyped ==
  /\ pc \in [Requests -> {"new", "check", "enqueue", "use", "sent"}]
  /\ seen \in [Requests -> Runners \cup {NoRunner}]
  /\ grant \in [Requests -> Runners \cup {NoRunner}]
  /\ answers \in [Requests -> Nat]
  /\ ctxDone \subseteq Requests /\ released \subseteq Requests /\ stale \subseteq Requests
  /\ \A r \in Requests : pc[r] \in {"check", "use"} => seen[r] \in Runners
ChannelsTyped ==
  /\ pendingReqCh \in Seq(Requests) /\ expiredCh \in Seq(Runners) /\ unloadedCh \in Nat
Locks == {"free", "loading", "unloading"} \cup Senders
RunnersTyped ==
  /\ refMu \in [Runners -> Locks]
  /\ refCount \in [Runners -> 0..(RefCounts - 1)]
  /\ sessionDuration \in [Runners -> Durations]
  /\ expireTimer \in [Runners -> {"nil", "armed", "fired"}]
  /\ engine \in [Runners -> {"none", "up", "exited", "closed"}]
  /\ callbacks \in [Runners -> Nat] /\ resends \in [Runners -> Nat]
  /\ expirers \in [Runners -> Nat]
MapTyped ==
  /\ loaded \in [Models -> Runners \cup {NoRunner}]
  /\ activeLoading \in Requests \cup {NoRunner}
  /\ maxRunners \in Nat
  /\ budget \in [stops : Nat, crashes : Nat]
PendBusy ==
  /\ pend.pc # "idle" => pend.req \in Requests
  /\ pend.pc \in {"check", "use", "expire", "scan"} => pend.run \in Runners
  /\ pend.pc = "scan" => pend.scan # <<>>
  /\ pend.pc \in {"evict", "wait", "waitAll"} => pend.waits > 0
CompBusy ==
  /\ comp.pc # "idle" => comp.run \in Runners
  /\ comp.pc = "finish" => comp.req \in Requests
PendTyped == pend \in PendType /\ PendBusy
CompTyped == comp \in CompType /\ CompBusy
TypeOK == RequestsTyped /\ ChannelsTyped /\ RunnersTyped /\ MapTyped /\ PendTyped /\ CompTyped

\* The reference count of a loaded runner is the number of requests it is
\* serving, as long as no request was handed an unloaded runner.
RefCountExact ==
  stale = {} => \A m \in Keys(Models) :
                  refCount[loaded[m]] = Cardinality(Holders(loaded[m]))

\* sched.go:1462 "prevent unloading if > 0": a runner that serves a request
\* that has not finished is in the map, under the same restriction.
HeldRunnerLoaded ==
  stale = {} => \A g \in Runners : Holders(g) # {} => IsLoaded(g)

\* No engine process is lost and none is closed behind the map: the runners
\* with an engine that was not closed are exactly those of the map, whatever
\* reloads, duplicate expirations and aborted loads happened.
EnginesInMap ==
  \A g \in Runners : IsLoaded(g) <=> engine[g] \in {"up", "exited"}

\* The safeguard of load() for a model that is still loaded has nothing to do:
\* only the pending loop puts a runner in the map, so the key it is about to
\* load stays free from the moment it found it so.
KeyFreeWhileLoading ==
  pend.pc \in {"caps", "pickShared", "pickOn", "visit", "create", "load"} =>
    loaded[ModelOf[pend.req]] = NoRunner

\* The wait for unloads cannot miss its event: the runners waited for that
\* are still loaded, the unload under way and the events in the channel are
\* together at least as many as the events still to be received.
WakeupInSight ==
  pend.pc \in {"wait", "waitAll"} =>
    pend.waits <= unloadedCh + Cardinality({g \in pend.targets : IsLoaded(g)})
                  + (IF comp.pc \in {"recover", "announce"} THEN 1 ELSE 0)

\* OLLAMA_MAX_LOADED_MODELS and the caps per kind hold whatever was evicted,
\* retried or unloaded in between.
CapsRespected ==
  /\ maxRunners > 0 => Cardinality(Keys(SharedPool)) <= maxRunners
  /\ \A k \in Kinds : KindLimit[k] > 0 => Cardinality(Keys(OfKind(k))) <= KindLimit[k]

\* A loaded runner that nobody uses is never forgotten: a timer, a timer
\* callback, a re-send or an expired event will bring it to processCompleted.
\* A misgranted request can wrap the count of the newer runner of its key, which
\* is then used with a count of 0; hence the restriction.
ExpiredEventFor(g) == \E i \in DOMAIN expiredCh : expiredCh[i] = g
ExpiryInSight(g) ==
  \/ expireTimer[g] = "armed"
  \/ callbacks[g] > 0 \/ resends[g] > 0
  \/ ExpiredEventFor(g)
  \/ comp.pc = "expired" /\ comp.run = g
IdleHasExpiry ==
  stale = {} => \A g \in Runners :
                  IsLoaded(g) /\ Free(g) /\ refCount[g] = 0 => ExpiryInSight(g)

\* successCh and errCh hold one value each and are read once: a second answer
\* would block the scheduler for ever.
AnsweredOnce == \A r \in Requests : answers[r] <= 1

\* sched.go:72 "activeLoading is the model that we are currently working on
\* loading": an engine kept for a retry is that of the request in hand, whatever
\* failed in between.  One way out of a retry leaves it behind, a device pin that
\* is refused then: the next load of another model panics (sched.go:690).
LeftByPin(r) == r \in Pinned /\ ModelOf[r] \in FullFitModels /\ Answered(r)
ActiveLoadingCurrent ==
  activeLoading # NoRunner => pend.req = activeLoading \/ LeftByPin(activeLoading)

\* sched.go:322 "Runner is usable, return it": a request is handed a runner
\* that has not been unloaded.
GrantsUsable ==
  [][\A r \in Requests : grant'[r] # grant[r] =>
       engine[grant'[r]] # "closed"]_vars

\* faq.mdx:328 "Queued requests will be processed in order": each one is
\* answered in the end, unless its client left or a runner was misgranted.
Queued(r) == \E i \in DOMAIN pendingReqCh : pendingReqCh[i] = r
QueuedAnswered ==
  \A r \in Requests : Queued(r) ~> Answered(r) \/ r \in ctxDone \/ stale # {}

\* A runner whose keep-alive is finite is unloaded in the end.
EventuallyUnloaded ==
  \A g \in Runners :
    IsLoaded(g) ~> ~IsLoaded(g) \/ sessionDuration[g] = Forever \/ stale # {}
=============================================================================
