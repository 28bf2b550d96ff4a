---------------------------- MODULE SchedulerInv ----------------------------
(* The inductive invariant behind the safety properties of Scheduler.       *)
EXTENDS Scheduler

\* A request is in one place at a time -- its own goroutine, the queue, the
\* pending loop, the goroutine of its load -- and has no answer there.
InGetRunner(r) == pc[r] # "sent"
InPending(r) == pend.pc # "idle" /\ pend.req = r
InLoad(r) == refMu[r] = "loading"
Waiting(r) == InGetRunner(r) \/ Queued(r) \/ InPending(r) \/ InLoad(r)
OnePlace ==
  /\ \A r \in Requests :
       /\ InGetRunner(r) => ~Queued(r) /\ ~InPending(r) /\ ~InLoad(r)
       /\ Queued(r) => ~InPending(r) /\ ~InLoad(r)
       /\ InPending(r) => ~InLoad(r)
       /\ Waiting(r) => answers[r] = 0
  /\ \A i, j \in DOMAIN pendingReqCh : pendingReqCh[i] = pendingReqCh[j] => i = j

\* A runner granted, and only after that accounted as done.
Granted ==
  /\ \A r \in Requests :
       /\ answers[r] = 0 => grant[r] = NoRunner
       /\ r \in released => grant[r] # NoRunner
       /\ grant[r] # NoRunner => ModelOf[grant[r]] = ModelOf[r]
  /\ comp.pc = "finish" => /\ grant[comp.req] # NoRunner /\ comp.req \notin released
                           /\ loaded[ModelOf[comp.req]] = comp.run

\* Every runner a goroutine has in hand was loaded, under the right key.
Started(g) == engine[g] # "none"
InHand ==
  /\ \A m \in Models : loaded[m] # NoRunner => ModelOf[loaded[m]] = m
  /\ \A r \in Requests : pc[r] \in {"check", "use"} =>
       Started(seen[r]) /\ ModelOf[seen[r]] = ModelOf[r]
  /\ pend.pc \in {"check", "use"} =>
       Started(pend.run) /\ ModelOf[pend.run] = ModelOf[pend.req]

Structure == TypeOK /\ OnePlace /\ Granted /\ InHand /\ KeyFreeWhileLoading
             /\ EnginesInMap

IInv == Structure /\ HeldRunnerLoaded /\ RefCountExact

-----------------------------------------------------------------------------
(* The invariants behind the properties of placement and of keep-alive.    *)

\* An engine kept for a retry is that of the request in hand, which cannot have
\* found a runner under its key, or was left behind when its pin was refused; only
\* a model that wants a full fit keeps one.
InRetry ==
  /\ pend.req = activeLoading /\ pend.pc \notin {"idle", "check", "use", "panic"}
  /\ pend.pc # "load" => ModelOf[activeLoading] \in FullFitModels
Retrying ==
  /\ activeLoading # NoRunner =>
       /\ loaded[ModelOf[activeLoading]] = NoRunner
       /\ InRetry \/ LeftByPin(activeLoading)
  /\ pend.pc = "panic" => activeLoading # NoRunner

\* From the caps to the load there is room for one more of each kind and in the
\* shared pool, whose automatic size is known before the first load.
RoomFor(m) == (\A k \in KindsOf[m] : ~AtKindCap(k)) /\ ~AtSharedCap(m)
RoomLeft ==
  /\ pend.pc \in {"visit", "create", "load"} => RoomFor(ModelOf[pend.req])
  /\ pend.pc \in {"create", "load"} => maxRunners > 0
  /\ maxRunners = 0 => Keys(Models) = {}

\* At least n of the unloads of the runners S are still to be received or to be
\* made; whoever will wait for a runner has it in sight from the moment it
\* took it from the map.
InSight(S, n) ==
  n <= unloadedCh + Cardinality({g \in S : IsLoaded(g)})
       + (IF comp.pc \in {"recover", "announce"} THEN 1 ELSE 0)
VictimsInSight ==
  /\ pend.pc \in {"check", "scan", "expire"} => InSight({pend.run}, 1)
  /\ pend.pc = "scan" => \A i \in DOMAIN pend.scan : InSight({pend.scan[i]}, 1)
  /\ pend.pc \in {"evict", "wait", "waitAll"} => InSight(pend.targets, pend.waits)

\* A request on its way to a load; the runner it may load is not in the map and
\* not the one being unloaded, so that no runner is loaded a second time.
Early(r) == InGetRunner(r) \/ Queued(r) \/ InPending(r)
Unloading(g) == comp.pc = "recover" /\ comp.run = g
LoadedOnce ==
  \A g \in Runners : /\ IsLoaded(g) \/ Unloading(g) => ~Early(g)
                     /\ Unloading(g) => ~IsLoaded(g)
=============================================================================
