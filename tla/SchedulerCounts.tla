--------------------------- MODULE SchedulerCounts ---------------------------
(* Proofs that reference counts are exact and that a runner in use is in the *)
(* map, as long as no request was handed an unloaded runner; that the wait  *)
(* for unloads does not miss its event; and that an idle runner is not      *)
(* forgotten.                                                               *)
EXTENDS SchedulerProofs

-----------------------------------------------------------------------------
(* What a step may do to grants, counts and the map.                       *)

\* A request is handed a runner of its own key that was started.
Serves(r, g) ==
  /\ answers[r] = 0 /\ Started(g) /\ ModelOf[g] = ModelOf[r]
  /\ grant' = [grant EXCEPT ![r] = g]
  /\ answers' = [answers EXCEPT ![r] = @ + 1]
  /\ refCount' = [refCount EXCEPT ![g] = Incremented(@)]
  /\ stale' = IF engine[g] = "closed" THEN stale \cup {r} ELSE stale
  /\ UNCHANGED <<loaded, released, comp>>

Counts == <<grant, refCount, stale, loaded, released>>

LEMMA GetRunnerKind ==
  ASSUME TypeOK, OnePlace, InHand, NEW r \in Requests, GetRunner(r)
  PROVE  (\E g \in Runners : Serves(r, g)) \/ UNCHANGED Counts
<1>1. CASE FastUse(r)
  <2>1. /\ pc[r] = "use" /\ UseLoadedRunner(r, seen[r]) /\ UNCHANGED <<loaded, released, comp>>
    BY <1>1 DEF FastUse, mapVars
  <2>2. seen[r] \in Runners /\ Started(seen[r]) /\ ModelOf[seen[r]] = ModelOf[r]
    BY <2>1 DEF TypeOK, RequestsTyped, InHand
  <2>3. answers[r] = 0
    BY <2>1 DEF OnePlace, Waiting, InGetRunner
  <2>4. QED
    BY <2>1, <2>2, <2>3 DEF Serves, UseLoadedRunner
<1>2. CASE LookUp(r) \/ FastCheck(r) \/ Enqueue(r) \/ ClientDone(r) \/ ClientCancel(r)
  BY <1>2 DEF LookUp, FastCheck, Enqueue, ClientDone, ClientCancel, Counts, answerVars,
              runnerVars, mapVars
<1>3. QED
  BY <1>1, <1>2 DEF GetRunner

LEMMA PendingKind ==
  ASSUME TypeOK, OnePlace, InHand, ProcessPending
  PROVE  (\E r \in Requests, g \in Runners : Serves(r, g)) \/ LoadSucceeds \/ UNCHANGED Counts
<1>1. UNCHANGED <<released, comp>> /\ (LoadSucceeds \/ UNCHANGED <<loaded, engine>>)
  BY ProcessPendingFrame
<1>2. CASE PendingUse
  <2>1. /\ pend.pc = "use" /\ UseLoadedRunner(pend.req, pend.run) /\ UNCHANGED loaded
    BY <1>2 DEF PendingUse, At, mapVars
  <2>2. /\ pend.req \in Requests /\ pend.run \in Runners
        /\ Started(pend.run) /\ ModelOf[pend.run] = ModelOf[pend.req]
    BY <2>1 DEF TypeOK, PendTyped, PendBusy, InHand
  <2>3. answers[pend.req] = 0
    BY <2>1, <2>2 DEF OnePlace, Waiting, InPending
  <2>4. Serves(pend.req, pend.run)
    BY <1>1, <2>1, <2>2, <2>3 DEF Serves, UseLoadedRunner
  <2>5. QED
    BY <2>2, <2>4
<1>3. CASE ~PendingUse /\ ~LoadSucceeds
  <2>1. CASE TakePending \/ DrainUnloaded \/ Wake
    BY <1>1, <2>1 DEF TakePending, DrainUnloaded, Wake, NoAnswer, NoTouch, mapVars, Counts
  <2>2. CASE Look \/ PendingCheck \/ Caps \/ PickShared \/ PickOn \/ Scan \/ Visit
             \/ LoadRequiresFull \/ EvictAll
    BY <1>1, <2>2 DEF Look, PendingCheck, Caps, PickShared, PickOn, Scan, Visit,
                      LoadRequiresFull, EvictAll, OnlyPend, NoAnswer, NoTouch, mapVars, Counts
  <2>3. CASE Placed \/ Create \/ LoadFails
    BY <1>1, <2>3 DEF Placed, Create, LoadFails, NoTouch, Counts
  <2>4. CASE ExpireVictim \/ EvictOne
    BY <1>1, <2>4 DEF ExpireVictim, EvictOne, NoAnswer, mapVars, Counts
  <2>5. QED
    BY <1>3, <2>1, <2>2, <2>3, <2>4 DEF ProcessPending
<1>4. QED
  BY <1>2, <1>3

LEMMA CompletedKind ==
  ASSUME ProcessCompleted
  PROVE  \/ Finish \/ Unload \/ UNCHANGED Counts
         \/ \E r \in Requests : TakeFinished(r)
<1>1. UNCHANGED <<grant, stale>>
  BY ProcessCompletedFrame DEF answerVars
<1>2. CASE TakeExpired \/ ExpiredIgnored \/ Recovered \/ Announce
  BY <1>1, <1>2 DEF TakeExpired, ExpiredIgnored, Recovered, Announce, requestVars, runnerVars,
                    mapVars, Counts
<1>3. QED
  BY <1>2 DEF ProcessCompleted

LEMMA RunnerKind ==
  ASSUME TypeOK, OnePlace, EnginesInMap, NEW g \in Runners, RunnerStep(g)
  PROVE  Serves(g, g) \/ UNCHANGED Counts
<1>1. UNCHANGED <<released, loaded, comp, stale>>
  BY RunnerStepFrame DEF mapVars
<1>2. CASE LoadRunning(g)
  <2>1. g \in Requests /\ InLoad(g)
    BY <1>2 DEF LoadRunning, InLoad, Runners
  <2>2. answers[g] = 0 /\ engine[g] = "up"
    BY <1>2, <2>1 DEF LoadRunning, OnePlace, Waiting
  <2>3. QED
    BY <1>1, <1>2, <2>2 DEF Serves, LoadRunning, Started
<1>3. CASE LoadAborted(g) \/ TimerFires(g) \/ TimerCallback(g) \/ Resend(g) \/ SendUnblocks(g)
           \/ StopOne(g) \/ EngineCrash(g)
  BY <1>1, <1>3 DEF LoadAborted, TimerFires, TimerCallback, Resend, SendUnblocks, StopOne,
                    EngineCrash, requestVars, answerVars, Counts
<1>4. QED
  BY <1>2, <1>3 DEF RunnerStep

\* Counts, grants and the map change in five ways only.
LEMMA StepKind ==
  ASSUME TypeOK, OnePlace, InHand, EnginesInMap, [Next]_vars
  PROVE  \/ \E r \in Requests, g \in Runners : Serves(r, g)
         \/ LoadSucceeds \/ Unload \/ Finish
         \/ \E r \in Requests : TakeFinished(r)
         \/ UNCHANGED Counts
<1>1. CASE \E r \in Requests : GetRunner(r)
  BY <1>1, GetRunnerKind
<1>2. CASE ProcessPending \/ ProcessCompleted
  BY <1>2, PendingKind, CompletedKind
<1>3. CASE \E g \in Runners : RunnerStep(g)
  BY <1>3, RunnerKind DEF Runners
<1>4. CASE ExpireRunner \/ ExpireRunnersForRuntimeOOM
  BY <1>4, StopRunnersFrame
     DEF ExpireRunner, ExpireRunnersForRuntimeOOM, requestVars, mapVars, Counts
<1>5. CASE UNCHANGED vars
  BY <1>5 DEF vars, requestVars, mapVars, runnerVars, Counts
<1>6. QED
  BY <1>1, <1>2, <1>3, <1>4, <1>5 DEF Next

LEMMA AnswersGrow ==
  ASSUME TypeOK, [Next]_vars
  PROVE  \A r \in Requests : answers'[r] >= answers[r]
<1>1. answers \in [Requests -> Nat]
  BY DEF TypeOK, RequestsTyped
<1>2. UNCHANGED answers \/ \E r \in Requests : answers' = [answers EXCEPT ![r] = @ + 1]
  <2>1. ASSUME NEW r \in Requests, GetRunner(r)
        PROVE  UNCHANGED answers \/ answers' = [answers EXCEPT ![r] = @ + 1]
    BY <2>1 DEF GetRunner, LookUp, FastCheck, FastUse, UseLoadedRunner, Enqueue, ClientDone,
                ClientCancel, answerVars
  <2>2. CASE ProcessPending
    <3>1. TakePending \/ LoadSucceeds => UNCHANGED answers
      BY DEF TakePending, LoadSucceeds, NoAnswer
    <3>2. pend.pc # "idle" => pend.req \in Requests
      BY DEF TypeOK, PendTyped, PendBusy
    <3>3. QED
      BY <2>2, <3>1, <3>2, PendingKeeps
  <2>3. CASE ProcessCompleted
    BY <2>3, ProcessCompletedFrame DEF answerVars
  <2>4. ASSUME NEW g \in Runners, RunnerStep(g)
        PROVE  UNCHANGED answers \/ answers' = [answers EXCEPT ![g] = @ + 1]
    BY <2>4 DEF RunnerStep, LoadRunning, LoadAborted, SendErr, TimerFires, TimerCallback, Resend,
                SendUnblocks, StopOne, EngineCrash, requestVars
  <2>5. CASE ExpireRunner \/ ExpireRunnersForRuntimeOOM
    BY <2>5, StopRunnersFrame DEF ExpireRunner, ExpireRunnersForRuntimeOOM, requestVars
  <2>6. CASE UNCHANGED vars
    BY <2>6 DEF vars, requestVars
  <2>7. QED
    BY <2>1, <2>2, <2>3, <2>4, <2>5, <2>6 DEF Next, Runners
<1>3. CASE UNCHANGED answers
  BY <1>1, <1>3
<1>4. CASE \E r \in Requests : answers' = [answers EXCEPT ![r] = @ + 1]
  BY <1>1, <1>4
<1>5. QED
  BY <1>2, <1>3, <1>4

-----------------------------------------------------------------------------
(* Runners in hand were started, under the right key.                      *)

\* A process that was started never becomes unstarted.
LEMMA StartedStays ==
  ASSUME TypeOK, [Next]_vars
  PROVE  \A g \in Runners : Started(g) => Started(g)'
<1>1. engine \in [Runners -> {"none", "up", "exited", "closed"}]
  BY DEF TypeOK, RunnersTyped
<1>2. CASE LoadSucceeds
  BY <1>1, <1>2 DEF LoadSucceeds, Started
<1>3. CASE Unload \/ ExpiredIgnored
  BY <1>1, <1>3 DEF Unload, ExpiredIgnored, Started
<1>4. CASE \E g \in Runners : EngineCrash(g)
  BY <1>1, <1>4 DEF EngineCrash, Started
<1>5. QED
  BY <1>2, <1>3, <1>4, MapChanges DEF Started

\* What a loop or a goroutine finds in the map was started and fits the key.
LEMMA FoundInMap ==
  ASSUME TypeOK, InHand, EnginesInMap, NEW m \in Models, loaded[m] # NoRunner
  PROVE  loaded[m] \in Runners /\ Started(loaded[m]) /\ ModelOf[loaded[m]] = m
<1>1. loaded[m] \in Runners
  BY DEF TypeOK, MapTyped
<1>2. ModelOf[loaded[m]] = m
  BY DEF InHand
<1>3. QED
  BY <1>1, <1>2 DEF EnginesInMap, IsLoaded, Started

LEMMA InHandKept ==
  ASSUME TypeOK, TypeOK', InHand, EnginesInMap, [Next]_vars
  PROVE  InHand'
<1>1. ASSUME NEW m \in Models, loaded'[m] # NoRunner PROVE ModelOf[loaded'[m]] = m
  <2>1. loaded \in [Models -> Runners \cup {NoRunner}] /\ (loaded[m] # NoRunner => ModelOf[loaded[m]] = m)
    BY DEF TypeOK, MapTyped, InHand
  <2>2. CASE LoadSucceeds
    BY <1>1, <2>1, <2>2 DEF LoadSucceeds
  <2>3. CASE Unload
    BY <1>1, <2>1, <2>3 DEF Unload
  <2>4. QED
    BY <1>1, <2>1, <2>2, <2>3, MapChanges
<1>2. ASSUME NEW r \in Requests, pc'[r] \in {"check", "use"}
      PROVE  Started(seen[r])' /\ ModelOf[seen'[r]] = ModelOf[r]
  <2>0. pc \in [Requests -> {"new", "check", "enqueue", "use", "sent"}]
        /\ seen \in [Requests -> Runners \cup {NoRunner}]
    BY DEF TypeOK, RequestsTyped
  <2>1. CASE LookUp(r)
    <3>1. seen'[r] = loaded[ModelOf[r]] /\ loaded[ModelOf[r]] # NoRunner /\ UNCHANGED engine
      BY <1>2, <2>0, <2>1 DEF LookUp, GoTo, runnerVars
    <3>2. QED
      BY <3>1, FoundInMap, ModelOfType DEF Started
  <2>2. CASE ~LookUp(r)
    <3>1. pc[r] \in {"check", "use"} /\ seen'[r] = seen[r]
      <4>1. ASSUME NEW q \in Requests, GetRunner(q)
            PROVE  pc[r] \in {"check", "use"} /\ seen'[r] = seen[r]
        <5>1. CASE q = r
          BY <1>2, <2>0, <2>2, <4>1, <5>1
             DEF GetRunner, FastCheck, FastUse, Enqueue, ClientDone, ClientCancel, GoTo, answerVars
        <5>2. CASE q # r
          BY <1>2, <2>0, <4>1, <5>2
             DEF GetRunner, LookUp, FastCheck, FastUse, Enqueue, ClientDone, ClientCancel, GoTo,
                 answerVars
        <5>3. QED
          BY <5>1, <5>2
      <4>2. CASE UNCHANGED <<pc, seen>>
        BY <1>2, <4>2
      <4>3. QED
        BY <4>1, <4>2, ProcessPendingFrame, ProcessCompletedFrame, RunnerStepFrame, StopRunnersFrame
           DEF Next, vars, requestVars, answerVars, ExpireRunner, ExpireRunnersForRuntimeOOM
    <3>2. Started(seen[r]) /\ ModelOf[seen[r]] = ModelOf[r] /\ seen[r] \in Runners
      BY <3>1 DEF InHand, TypeOK, RequestsTyped
    <3>3. QED
      BY <3>1, <3>2, StartedStays DEF Started
  <2>3. QED
    BY <2>1, <2>2
<1>3. ASSUME pend'.pc \in {"check", "use"}
      PROVE  Started(pend.run)' /\ ModelOf[pend'.run] = ModelOf[pend'.req]
  <2>0. pend \in PendType /\ PendBusy
    BY DEF TypeOK, PendTyped
  <2>1. CASE Look
    <3>1. pend'.run = loaded[ModelOf[pend.req]] /\ pend'.req = pend.req /\ UNCHANGED engine
          /\ loaded[ModelOf[pend.req]] # NoRunner /\ pend.req \in Requests
      BY <1>3, <2>0, <2>1 DEF Look, PendType, PendBusy, OnlyPend, NoTouch, At
    <3>2. QED
      BY <3>1, FoundInMap, ModelOfType DEF Started
  <2>2. CASE UNCHANGED pend
    <3>1. pend.run \in Runners /\ Started(pend.run) /\ ModelOf[pend.run] = ModelOf[pend.req]
      BY <1>3, <2>0, <2>2 DEF InHand, PendBusy
    <3>2. QED
      BY <2>2, <3>1, StartedStays DEF Started
  <2>3. CASE ProcessPending /\ ~Look /\ pend' # pend
    <3>1. Idle.pc \notin {"check", "use"}
      BY DEF Idle
    <3>2. CASE PendingCheck
      <4>1. pend.pc = "check" /\ pend'.run = pend.run /\ pend'.req = pend.req
        BY <2>0, <3>2 DEF PendingCheck, At, PendType
      <4>2. pend.run \in Runners /\ Started(pend.run) /\ ModelOf[pend.run] = ModelOf[pend.req]
        BY <2>0, <4>1 DEF InHand, PendBusy
      <4>3. QED
        BY <4>1, <4>2, StartedStays DEF Started
    <3>3. CASE PendingUse \/ LoadSucceeds
      BY <1>3, <3>1, <3>3 DEF PendingUse, LoadSucceeds
    <3>4. CASE TakePending \/ DrainUnloaded
      BY <1>3, <2>0, <2>3, <3>4 DEF TakePending, DrainUnloaded, PendType
    <3>5. CASE Caps \/ PickShared \/ PickOn
      BY <1>3, <2>0, <3>5 DEF Caps, PickShared, PickOn, PickAmong, PendType
    <3>6. CASE Scan
      BY <1>3, <2>0, <3>6 DEF Scan, PendType
    <3>7. CASE Visit
      BY <1>3, <2>0, <3>7 DEF Visit, At, PendType
    <3>8. CASE Placed \/ Create \/ LoadRequiresFull \/ LoadFails
      BY <1>3, <2>0, <3>1, <3>8 DEF Placed, Create, LoadRequiresFull, LoadFails, NeedEvict, PendType
    <3>9. CASE ExpireVictim \/ EvictAll \/ EvictOne
      BY <1>3, <2>0, <3>9 DEF ExpireVictim, EvictAll, EvictOne, PendType
    <3>10. CASE Wake
      BY <1>3, <2>0, <3>10 DEF Wake, At, PendType
    <3>11. QED
      BY <2>3, <3>2, <3>3, <3>4, <3>5, <3>6, <3>7, <3>8, <3>9, <3>10 DEF ProcessPending
  <2>4. QED
    BY <2>1, <2>2, <2>3, MapChanges
<1>4. QED
  BY <1>1, <1>2, <1>3 DEF InHand

-----------------------------------------------------------------------------
(* Grants.                                                                 *)

\* Who was granted a runner never loses the grant.
LEMMA GrantsKept ==
  ASSUME TypeOK, OnePlace, Granted, InHand, EnginesInMap, [Next]_vars
  PROVE  \A r \in Requests : grant[r] # NoRunner => grant'[r] = grant[r]
<1>1. grant \in [Requests -> Runners \cup {NoRunner}]
  BY DEF TypeOK, RequestsTyped
<1>2. CASE \E r \in Requests, g \in Runners : Serves(r, g)
  BY <1>1, <1>2 DEF Serves, Granted
<1>3. CASE UNCHANGED grant
  BY <1>3
<1>4. LoadSucceeds => UNCHANGED grant
  BY DEF LoadSucceeds, NoAnswer
<1>5. ProcessCompleted => UNCHANGED grant
  BY ProcessCompletedFrame DEF answerVars
<1>6. QED
  BY <1>2, <1>3, <1>4, <1>5, StepKind DEF Counts, ProcessCompleted

LEMMA ReleasedStays ==
  ASSUME NEW r \in Requests, GetRunner(r)
  PROVE  UNCHANGED released
BY DEF GetRunner, LookUp, FastCheck, FastUse, Enqueue, ClientDone, ClientCancel

LEMMA GrantedKept ==
  ASSUME TypeOK, OnePlace, Granted, InHand, EnginesInMap, KeyFreeWhileLoading, [Next]_vars
  PROVE  Granted'
<1>1. /\ grant \in [Requests -> Runners \cup {NoRunner}] /\ answers \in [Requests -> Nat]
      /\ released \subseteq Requests /\ NoRunner \notin Runners
  BY ModelOfType DEF TypeOK, RequestsTyped
<1>2. /\ LoadSucceeds => UNCHANGED <<grant, answers, released, comp>>
      /\ ProcessCompleted => UNCHANGED <<grant, answers>>
  BY ProcessCompletedFrame DEF LoadSucceeds, NoAnswer, Pass, answerVars
<1>3. ASSUME NEW r \in Requests
      PROVE  /\ answers'[r] = 0 => grant'[r] = NoRunner
             /\ r \in released' => grant'[r] # NoRunner
             /\ grant'[r] # NoRunner => ModelOf[grant'[r]] = ModelOf[r]
  <2>1. /\ answers[r] = 0 => grant[r] = NoRunner
        /\ r \in released => grant[r] # NoRunner
        /\ grant[r] # NoRunner => ModelOf[grant[r]] = ModelOf[r]
    BY DEF Granted
  <2>2. answers'[r] >= answers[r]
    BY AnswersGrow
  <2>3. CASE \E q \in Requests, g \in Runners : Serves(q, g)
    <3>1. PICK q \in Requests, g \in Runners : Serves(q, g)
      BY <2>3
    <3>2. CASE q = r
      BY <1>1, <2>1, <3>1, <3>2 DEF Serves
    <3>3. CASE q # r
      BY <1>1, <2>1, <3>1, <3>3 DEF Serves
    <3>4. QED
      BY <3>2, <3>3
  <2>4. CASE UNCHANGED <<grant, released>>
    BY <1>1, <2>1, <2>2, <2>4
  <2>5. CASE Finish
    <3>1. released' = released \cup {comp.req} /\ grant[comp.req] # NoRunner
      BY <2>5 DEF Finish, CompAt, Granted
    <3>2. QED
      BY <1>2, <2>1, <2>5, <3>1 DEF ProcessCompleted
  <2>6. CASE \E q \in Requests : TakeFinished(q)
    <3>1. PICK q \in Requests : TakeFinished(q)
      BY <2>6
    <3>2. grant[q] # NoRunner /\ (UNCHANGED released \/ released' = released \cup {q})
      BY <3>1 DEF TakeFinished, FinishedReqCh
    <3>3. QED
      BY <1>2, <2>1, <2>6, <3>2 DEF ProcessCompleted
  <2>7. Unload => UNCHANGED <<grant, released>>
    BY DEF Unload, requestVars
  <2>8. QED
    BY <1>2, <2>3, <2>4, <2>5, <2>6, <2>7, StepKind DEF Counts
<1>4. ASSUME comp'.pc = "finish"
      PROVE  /\ grant'[comp'.req] # NoRunner /\ comp'.req \notin released'
             /\ loaded'[ModelOf[comp'.req]] = comp'.run
  <2>1. comp.pc = "finish" => comp.req \in Requests /\ comp.run \in Runners
    BY DEF TypeOK, CompTyped, CompBusy
  <2>2. CASE \E q \in Requests : TakeFinished(q)
    <3>1. PICK q \in Requests : TakeFinished(q)
      BY <2>2
    <3>2. /\ comp.pc = "idle" /\ grant[q] # NoRunner /\ q \notin released
          /\ UNCHANGED <<grant, loaded>>
      BY <3>1 DEF TakeFinished, CompAt, FinishedReqCh, answerVars, mapVars
    <3>3. comp'.req = q /\ comp'.run = loaded[ModelOf[q]] /\ UNCHANGED released
      BY <1>4, <3>1, <3>2 DEF TakeFinished
    <3>4. QED
      BY <3>2, <3>3
  <2>3. CASE ProcessCompleted /\ ~\E q \in Requests : TakeFinished(q)
    <3>1. comp \in CompType /\ Rest.pc = "idle"
      BY RestType DEF TypeOK, CompTyped
    <3>2. CASE Finish \/ ExpiredIgnored \/ Announce
      BY <1>4, <3>1, <3>2 DEF Finish, ExpiredIgnored, Announce
    <3>3. CASE TakeExpired
      BY <1>4, <3>3 DEF TakeExpired, Rest
    <3>4. CASE Unload \/ Recovered
      BY <1>4, <3>1, <3>4 DEF Unload, Recovered, CompType
    <3>5. QED
      BY <2>3, <3>2, <3>3, <3>4 DEF ProcessCompleted
  <2>4. CASE ~ProcessCompleted
    <3>1. UNCHANGED <<comp, released>>
      BY <2>4, GetRunnerFrame, ProcessPendingFrame, RunnerStepFrame, StopRunnersFrame, ReleasedStays
         DEF Next, vars, requestVars, ExpireRunner, ExpireRunnersForRuntimeOOM
    <3>2. /\ grant[comp.req] # NoRunner /\ comp.req \notin released
          /\ loaded[ModelOf[comp.req]] = comp.run
      BY <1>4, <3>1 DEF Granted
    <3>3. grant'[comp.req] = grant[comp.req]
      BY <1>4, <2>1, <3>1, <3>2, GrantsKept
    <3>4. loaded'[ModelOf[comp.req]] = loaded[ModelOf[comp.req]]
      <4>1. CASE LoadSucceeds
        <5>1. loaded[ModelOf[pend.req]] = NoRunner /\ loaded' = [loaded EXCEPT ![ModelOf[pend.req]] = pend.req]
          BY <4>1 DEF LoadSucceeds, At, KeyFreeWhileLoading
        <5>2. ModelOf[pend.req] # ModelOf[comp.req]
          BY <1>1, <1>4, <2>1, <3>1, <3>2, <5>1
        <5>3. QED
          BY <5>1, <5>2 DEF TypeOK, MapTyped
      <4>2. QED
        BY <2>4, <4>1, MapChanges DEF ProcessCompleted
    <3>5. QED
      BY <3>1, <3>2, <3>3, <3>4
  <2>5. QED
    BY <2>2, <2>3, <2>4
<1>5. QED
  BY <1>3, <1>4 DEF Granted

-----------------------------------------------------------------------------
(* Counts and holders.                                                     *)

\* A runner has at most as many holders as there are requests, so a count
\* that is exact never wraps.
LEMMA HoldersFinite ==
  ASSUME NEW g
  PROVE  /\ IsFiniteSet(Holders(g)) /\ Holders(g) \subseteq Requests
         /\ Cardinality(Holders(g)) \in Nat
         /\ Cardinality(Holders(g)) <= Cardinality(Requests)
         /\ Cardinality(Holders(g)) = 0 <=> Holders(g) = {}
<1>1. IsFiniteSet(Requests) /\ Holders(g) \subseteq Requests
  BY ConstantsAssumption DEF ConstantsAssumption, Holders
<1>2. IsFiniteSet(Holders(g)) /\ Cardinality(Holders(g)) <= Cardinality(Requests)
  BY <1>1, FS_Subset
<1>3. QED
  BY <1>1, <1>2, FS_CardinalityType, FS_EmptySet

LEMMA CountArithmetic ==
  ASSUME NEW n \in Nat, n <= Cardinality(Requests)
  PROVE  Incremented(n) = n + 1 /\ (n > 0 => Decremented(n) = n - 1)
<1>1. n + 1 \in 0..(RefCounts - 1) /\ Cardinality(Requests) \in Nat /\ RefCounts \in Nat
  BY RefCountsPositive
<1>2. Incremented(n) = n + 1
  BY <1>1 DEF Incremented
<1>3. ASSUME n > 0 PROVE Decremented(n) = n - 1
  <2>1. n + RefCounts - 1 = (n - 1) + RefCounts /\ n - 1 \in 0..(RefCounts - 1)
    BY <1>1, <1>3
  <2>2. ((n - 1) + RefCounts) % RefCounts = n - 1
    BY <1>1, <2>1
  <2>3. QED
    BY <2>1, <2>2 DEF Decremented
<1>4. QED
  BY <1>2, <1>3

\* The two invariants, without their restriction, runner by runner.
Held(g) == Holders(g) # {} => IsLoaded(g)
Exact(g) == IsLoaded(g) => refCount[g] = Cardinality(Holders(g))

LEMMA ByRunner ==
  TypeOK /\ InHand
    => (RefCountExact /\ HeldRunnerLoaded
          <=> (stale = {} => \A g \in Runners : Held(g) /\ Exact(g)))
<1> SUFFICES ASSUME TypeOK, InHand
             PROVE  RefCountExact /\ HeldRunnerLoaded
                      <=> (stale = {} => \A g \in Runners : Held(g) /\ Exact(g))
  OBVIOUS
<1>1. /\ loaded \in [Models -> Runners \cup {NoRunner}] /\ NoRunner \notin Runners
      /\ \A g \in Runners : ModelOf[g] \in Models
  BY ModelOfType DEF TypeOK, MapTyped, Runners
<1>2. \A m \in Models : loaded[m] # NoRunner => ModelOf[loaded[m]] = m
  BY DEF InHand
<1>3. (\A g \in Runners : Exact(g))
        <=> \A m \in Keys(Models) : refCount[loaded[m]] = Cardinality(Holders(loaded[m]))
  BY <1>1, <1>2 DEF Exact, IsLoaded, Keys
<1>4. QED
  BY <1>3 DEF RefCountExact, HeldRunnerLoaded, Held

LEMMA ByRunnerNext ==
  TypeOK' /\ InHand'
    => (RefCountExact /\ HeldRunnerLoaded
          <=> (stale = {} => \A g \in Runners : Held(g) /\ Exact(g)))'
BY ByRunner, PTL

LEMMA ServesCounts ==
  ASSUME TypeOK, Granted, EnginesInMap, NEW r \in Requests, NEW h \in Runners, Serves(r, h),
         stale' = {}, NEW g \in Runners, Held(g), Exact(g)
  PROVE  Held(g)' /\ Exact(g)'
<1>1. /\ grant \in [Requests -> Runners \cup {NoRunner}] /\ refCount \in [Runners -> 0..(RefCounts - 1)]
      /\ engine \in [Runners -> {"none", "up", "exited", "closed"}] /\ NoRunner \notin Runners
  BY ModelOfType DEF TypeOK, RequestsTyped, RunnersTyped
<1>2. grant[r] = NoRunner /\ r \notin released
  BY DEF Serves, Granted
<1>3. IsLoaded(h)
  BY <1>1 DEF Serves, Started, EnginesInMap
<1>4. IsLoaded(g)' <=> IsLoaded(g)
  BY DEF Serves, IsLoaded
<1>5. CASE g = h
  <2>1. Holders(g)' = Holders(g) \cup {r} /\ r \notin Holders(g)
    BY <1>1, <1>2, <1>5 DEF Serves, Holders
  <2>2. Cardinality(Holders(g)') = Cardinality(Holders(g)) + 1
    BY <2>1, HoldersFinite, FS_AddElement
  <2>3. refCount'[g] = Incremented(refCount[g]) /\ refCount[g] = Cardinality(Holders(g))
    BY <1>1, <1>3, <1>5 DEF Serves, Exact
  <2>4. Incremented(refCount[g]) = refCount[g] + 1
    BY <2>3, HoldersFinite, CountArithmetic
  <2>5. QED
    BY <1>3, <1>4, <1>5, <2>2, <2>3, <2>4 DEF Held, Exact
<1>6. CASE g # h
  <2>1. Holders(g)' = Holders(g)
    BY <1>1, <1>2, <1>6 DEF Serves, Holders
  <2>2. refCount'[g] = refCount[g]
    BY <1>1, <1>6 DEF Serves
  <2>3. QED
    BY <1>4, <2>1, <2>2 DEF Held, Exact
<1>7. QED
  BY <1>5, <1>6

LEMMA LoadCounts ==
  ASSUME TypeOK, KeyFreeWhileLoading, LoadSucceeds, NEW g \in Runners, Held(g), Exact(g)
  PROVE  Held(g)' /\ Exact(g)'
<1>1. /\ loaded \in [Models -> Runners \cup {NoRunner}] /\ refCount \in [Runners -> 0..(RefCounts - 1)]
      /\ g # NoRunner /\ ModelOf[g] \in Models
  BY ModelOfType DEF TypeOK, MapTyped, RunnersTyped, Runners
<1>2. PICK r \in Requests : r = pend.req
  BY DEF LoadSucceeds, At, TypeOK, PendTyped, PendBusy
<1>3. /\ loaded[ModelOf[r]] = NoRunner /\ loaded' = [loaded EXCEPT ![ModelOf[r]] = r]
      /\ refCount' = [refCount EXCEPT ![r] = 0]
      /\ UNCHANGED <<grant, released>>
  BY <1>2 DEF LoadSucceeds, At, KeyFreeWhileLoading, NoAnswer, Pass
<1>4. Holders(g)' = Holders(g)
  BY <1>3 DEF Holders
<1>5. CASE g = r
  <2>1. Holders(g) = {}
    BY <1>1, <1>3, <1>5 DEF Held, IsLoaded
  <2>2. refCount'[g] = 0
    BY <1>1, <1>3, <1>5
  <2>3. QED
    BY <1>4, <2>1, <2>2, FS_EmptySet DEF Held, Exact
<1>6. CASE g # r
  <2>1. (IsLoaded(g)' <=> IsLoaded(g)) /\ refCount'[g] = refCount[g]
    BY <1>1, <1>3, <1>6 DEF IsLoaded
  <2>2. QED
    BY <1>4, <2>1 DEF Held, Exact
<1>7. QED
  BY <1>5, <1>6

LEMMA UnloadCounts ==
  ASSUME TypeOK, Unload, NEW g \in Runners, Held(g), Exact(g)
  PROVE  Held(g)' /\ Exact(g)'
<1>1. loaded \in [Models -> Runners \cup {NoRunner}] /\ g # NoRunner /\ ModelOf[g] \in Models
  BY ModelOfType DEF TypeOK, MapTyped, Runners
<1>2. /\ refCount[comp.run] = 0 /\ loaded[ModelOf[comp.run]] = comp.run
      /\ loaded' = [loaded EXCEPT ![ModelOf[comp.run]] = NoRunner]
      /\ UNCHANGED <<grant, released, refCount>>
  BY DEF Unload, IsLoaded, requestVars
<1>3. Holders(g)' = Holders(g)
  BY <1>2 DEF Holders
<1>4. CASE g = comp.run
  <2>1. Holders(g) = {} /\ ~IsLoaded(g)'
    BY <1>1, <1>2, <1>4, HoldersFinite DEF Exact, IsLoaded
  <2>2. QED
    BY <1>3, <2>1 DEF Held, Exact
<1>5. CASE g # comp.run
  <2>1. IsLoaded(g)' <=> IsLoaded(g)
    BY <1>1, <1>2, <1>5 DEF IsLoaded
  <2>2. QED
    BY <1>2, <1>3, <2>1 DEF Held, Exact
<1>6. QED
  BY <1>4, <1>5

\* The runner the completed loop found by key is the one that was granted.
LEMMA FinishesItsGrant ==
  ASSUME TypeOK, Granted, NEW r \in Requests, grant[r] # NoRunner, r \notin released,
         \A g \in Runners : Held(g)
  PROVE  loaded[ModelOf[r]] = grant[r] /\ grant[r] \in Runners /\ r \in Holders(grant[r])
<1>1. grant[r] \in Runners /\ r \in Holders(grant[r]) /\ ModelOf[grant[r]] = ModelOf[r]
  BY DEF TypeOK, RequestsTyped, Granted, Holders
<1>2. QED
  BY <1>1 DEF Held, IsLoaded

LEMMA FinishCounts ==
  ASSUME TypeOK, Granted, Finish, \A h \in Runners : Held(h) /\ Exact(h), NEW g \in Runners
  PROVE  Held(g)' /\ Exact(g)'
<1>1. refCount \in [Runners -> 0..(RefCounts - 1)]
  BY DEF TypeOK, RunnersTyped
<1>2. PICK r \in Requests : r = comp.req
  BY DEF Finish, CompAt, TypeOK, CompTyped, CompBusy
<1>3. /\ grant[r] # NoRunner /\ r \notin released /\ loaded[ModelOf[r]] = comp.run
      /\ released' = released \cup {r} /\ refCount' = [refCount EXCEPT ![comp.run] = Decremented(@)]
      /\ UNCHANGED <<grant, loaded>>
  BY <1>2 DEF Finish, CompAt, Granted, answerVars, mapVars
<1>4. grant[r] = comp.run /\ comp.run \in Runners /\ r \in Holders(comp.run)
  BY <1>3, FinishesItsGrant
<1>5. IsLoaded(g)' <=> IsLoaded(g)
  BY <1>3 DEF IsLoaded
<1>6. Holders(g)' = Holders(g) \ {r}
  BY <1>3 DEF Holders
<1>7. CASE g = comp.run
  <2>1. Cardinality(Holders(g)') = Cardinality(Holders(g)) - 1
    BY <1>4, <1>6, <1>7, HoldersFinite, FS_RemoveElement
  <2>2. IsLoaded(g) /\ refCount[g] = Cardinality(Holders(g)) /\ refCount[g] > 0
    BY <1>4, <1>7, HoldersFinite DEF Held, Exact
  <2>3. refCount'[g] = refCount[g] - 1
    BY <1>1, <1>3, <1>7, <2>2, HoldersFinite, CountArithmetic
  <2>4. QED
    BY <1>5, <2>1, <2>2, <2>3 DEF Held, Exact
<1>8. CASE g # comp.run
  <2>1. Holders(g)' = Holders(g)
    BY <1>4, <1>6, <1>8 DEF Holders
  <2>2. refCount'[g] = refCount[g]
    BY <1>1, <1>3, <1>8
  <2>3. QED
    BY <1>5, <2>1, <2>2 DEF Held, Exact
<1>9. QED
  BY <1>7, <1>8

LEMMA CountsKept ==
  ASSUME TypeOK, OnePlace, Granted, InHand, KeyFreeWhileLoading, EnginesInMap, [Next]_vars,
         stale = {}, stale' = {}, \A h \in Runners : Held(h) /\ Exact(h)
  PROVE  \A g \in Runners : Held(g)' /\ Exact(g)'
<1> SUFFICES ASSUME NEW g \in Runners PROVE Held(g)' /\ Exact(g)'
  OBVIOUS
<1>1. CASE \E r \in Requests, h \in Runners : Serves(r, h)
  BY <1>1, ServesCounts
<1>2. CASE LoadSucceeds \/ Unload \/ Finish
  BY <1>2, LoadCounts, UnloadCounts, FinishCounts
<1>3. CASE \E r \in Requests : TakeFinished(r)
  <2>1. PICK r \in Requests : TakeFinished(r)
    BY <1>3
  <2>2. grant[r] # NoRunner /\ r \notin released /\ UNCHANGED <<grant, loaded, refCount>>
    BY <2>1 DEF TakeFinished, FinishedReqCh, answerVars, mapVars, runnerVars
  <2>3. loaded[ModelOf[r]] # NoRunner
    BY <2>2, FinishesItsGrant
  <2>4. UNCHANGED released
    BY <2>1, <2>3 DEF TakeFinished
  <2>5. QED
    BY <2>2, <2>4 DEF Held, Exact, Holders, IsLoaded
<1>4. CASE UNCHANGED Counts
  BY <1>4 DEF Counts, Held, Exact, Holders, IsLoaded
<1>5. QED
  BY <1>1, <1>2, <1>3, <1>4, StepKind

-----------------------------------------------------------------------------
(* The theorems.                                                           *)

\* A misgrant is remembered.
LEMMA StaleGrows ==
  ASSUME TypeOK, OnePlace, InHand, EnginesInMap, [Next]_vars, stale' = {}
  PROVE  stale = {}
<1>1. CASE \E r \in Requests, g \in Runners : Serves(r, g)
  BY <1>1 DEF Serves
<1>2. CASE LoadSucceeds
  BY <1>2 DEF LoadSucceeds, NoAnswer
<1>3. CASE ProcessCompleted
  BY <1>3, ProcessCompletedFrame
<1>4. CASE UNCHANGED Counts
  BY <1>4 DEF Counts
<1>5. QED
  BY <1>1, <1>2, <1>3, <1>4, StepKind DEF ProcessCompleted

LEMMA InvariantInit == Init => Granted /\ InHand /\ RefCountExact /\ HeldRunnerLoaded
<1> SUFFICES ASSUME Init PROVE Granted /\ InHand /\ RefCountExact /\ HeldRunnerLoaded
  OBVIOUS
<1>1. Granted
  BY DEF Init, Granted, Rest
<1>2. InHand
  BY DEF Init, InHand, Idle
<1>3. \A m \in Models : loaded[m] = NoRunner
  BY DEF Init
<1>4. \A g \in Runners : Holders(g) = {}
  BY ModelOfType DEF Init, Holders
<1>5. QED
  BY <1>1, <1>2, <1>3, <1>4 DEF RefCountExact, HeldRunnerLoaded, Keys

LEMMA InvariantKept ==
  ASSUME TypeOK, TypeOK', OnePlace, Granted, InHand, KeyFreeWhileLoading, EnginesInMap,
         RefCountExact, HeldRunnerLoaded, [Next]_vars
  PROVE  Granted' /\ InHand' /\ RefCountExact' /\ HeldRunnerLoaded'
<1>1. Granted' /\ InHand'
  BY GrantedKept, InHandKept
<1>2. ASSUME stale' = {} PROVE \A g \in Runners : Held(g)' /\ Exact(g)'
  <2>1. stale = {}
    BY <1>2, StaleGrows
  <2>2. \A g \in Runners : Held(g) /\ Exact(g)
    BY <2>1, ByRunner
  <2>3. QED
    BY <1>2, <2>1, <2>2, CountsKept
<1>3. (RefCountExact /\ HeldRunnerLoaded
        <=> (stale = {} => \A g \in Runners : Held(g) /\ Exact(g)))'
  BY <1>1, ByRunnerNext
<1>4. QED
  BY <1>1, <1>2, <1>3

\* The invariant of SchedulerInv.
THEOREM InvariantHolds == Spec => []IInv
<1>1. Granted /\ InHand /\ RefCountExact /\ HeldRunnerLoaded
      /\ TypeOK /\ TypeOK' /\ OnePlace /\ KeyFreeWhileLoading /\ EnginesInMap /\ [Next]_vars
        => Granted' /\ InHand' /\ RefCountExact' /\ HeldRunnerLoaded'
  BY InvariantKept
<1>2. TypeOK /\ OnePlace /\ AnsweredOnce /\ [Next]_vars => OnePlace' /\ AnsweredOnce'
  BY PlacesKept
<1>3. Spec => [](OnePlace /\ AnsweredOnce)
  BY <1>2, InitPlaces, TypeCorrect, PTL DEF Spec
<1>4. Spec => [](Granted /\ InHand /\ RefCountExact /\ HeldRunnerLoaded)
  BY <1>1, <1>3, InvariantInit, TypeCorrect, KeyStaysFree, NoEngineLost, PTL DEF Spec
<1>5. TypeOK /\ OnePlace /\ KeyFreeWhileLoading /\ EnginesInMap
      /\ Granted /\ InHand /\ RefCountExact /\ HeldRunnerLoaded => IInv
  BY DEF IInv, Structure
<1>6. QED
  BY <1>3, <1>4, <1>5, TypeCorrect, KeyStaysFree, NoEngineLost, PTL

\* The count of a loaded runner is the number of requests it serves, as long
\* as no request was handed an unloaded runner.
THEOREM CountsExact == Spec => []RefCountExact
<1>1. IInv => RefCountExact
  BY DEF IInv
<1>2. QED
  BY <1>1, InvariantHolds, PTL

\* A runner that serves a request is in the map, under the same restriction.
THEOREM InUseStaysLoaded == Spec => []HeldRunnerLoaded
<1>1. IInv => HeldRunnerLoaded
  BY DEF IInv
<1>2. QED
  BY <1>1, InvariantHolds, PTL

-----------------------------------------------------------------------------
(* The wait for unloads.                                                   *)

\* The unloads of the runners S still to be received or to be made.
Announcing == comp.pc \in {"recover", "announce"}
Coming(S) == unloadedCh + Cardinality({g \in S : IsLoaded(g)}) + (IF Announcing THEN 1 ELSE 0)

LEMMA ComingType ==
  ASSUME TypeOK, NEW S \in SUBSET Runners
  PROVE  /\ Coming(S) \in Nat /\ IsFiniteSet(S)
         /\ \A n : InSight(S, n) <=> n <= Coming(S)
<1>1. IsFiniteSet(S) /\ IsFiniteSet({g \in S : IsLoaded(g)})
  BY FS_Subset, ConstantsAssumption DEF ConstantsAssumption, Runners
<1>2. Cardinality({g \in S : IsLoaded(g)}) \in Nat /\ unloadedCh \in Nat
  BY <1>1, FS_CardinalityType DEF TypeOK, ChannelsTyped
<1>3. QED
  BY <1>1, <1>2 DEF Coming, InSight, Announcing

\* What moves an unload from the map to the channel, and out of it.
LEMMA UnloadSteps ==
  ASSUME TypeOK, [Next]_vars
  PROVE  \/ LoadSucceeds \/ DrainUnloaded \/ Wake \/ Unload \/ Announce
         \/ UNCHANGED <<loaded, unloadedCh, Announcing>>
<1>1. CASE \E r \in Requests : GetRunner(r)
  BY <1>1 DEF GetRunner, LookUp, FastCheck, FastUse, Enqueue, ClientDone, ClientCancel, chanVars,
              mapVars, Announcing
<1>2. CASE ProcessPending
  <2>1. CASE Look \/ PendingCheck \/ Caps \/ PickShared \/ PickOn \/ Scan \/ Visit
             \/ LoadRequiresFull \/ EvictAll
    <3>1. OnlyPend
      BY <2>1 DEF Look, PendingCheck, Caps, PickShared, PickOn, Scan, Visit, LoadRequiresFull,
                  EvictAll
    <3>2. QED
      BY <3>1 DEF OnlyPend, Pass, mapVars, chanVars, Announcing
  <2>2. CASE TakePending \/ PendingUse \/ Placed \/ Create \/ LoadFails \/ ExpireVictim \/ EvictOne
    BY <2>2 DEF TakePending, PendingUse, Placed, Create, LoadFails, ExpireVictim, EvictOne, Pass,
                chanVars, mapVars, Announcing
  <2>3. QED
    BY <1>2, <2>1, <2>2 DEF ProcessPending
<1>3. CASE ProcessCompleted
  <2>1. comp \in CompType
    BY DEF TypeOK, CompTyped
  <2>2. CASE \E r \in Requests : TakeFinished(r)
    BY <2>2 DEF TakeFinished, CompAt, chanVars, mapVars, Announcing
  <2>3. CASE Finish \/ TakeExpired \/ ExpiredIgnored
    <3>1. comp.pc \notin {"recover", "announce"} /\ comp'.pc \in {"idle", "expired"}
      <4>1. CASE Finish
        BY <4>1 DEF Finish, CompAt, Rest
      <4>2. CASE TakeExpired
        BY <4>2 DEF TakeExpired, CompAt, Rest
      <4>3. CASE ExpiredIgnored
        BY <4>3 DEF ExpiredIgnored, CompAt, Rest
      <4>4. QED
        BY <2>3, <4>1, <4>2, <4>3
    <3>2. UNCHANGED <<loaded, unloadedCh>>
      BY <2>3 DEF Finish, TakeExpired, ExpiredIgnored, chanVars, mapVars
    <3>3. QED
      BY <3>1, <3>2 DEF Announcing
  <2>4. CASE Recovered
    BY <2>1, <2>4 DEF Recovered, CompAt, CompType, chanVars, mapVars, Announcing
  <2>5. QED
    BY <1>3, <2>2, <2>3, <2>4 DEF ProcessCompleted
<1>4. CASE \E g \in Runners : RunnerStep(g)
  BY <1>4 DEF RunnerStep, LoadRunning, LoadAborted, TimerFires, TimerCallback, Resend, SendUnblocks,
              StopOne, EngineCrash, chanVars, mapVars, Announcing
<1>5. CASE ExpireRunner \/ ExpireRunnersForRuntimeOOM
  BY <1>5, StopRunnersFrame
     DEF ExpireRunner, ExpireRunnersForRuntimeOOM, chanVars, mapVars, Announcing
<1>6. CASE UNCHANGED vars
  BY <1>6 DEF vars, chanVars, mapVars, Announcing
<1>7. QED
  BY <1>1, <1>2, <1>3, <1>4, <1>5, <1>6 DEF Next

\* An unload in sight stays there until the pending loop receives it.
LEMMA SightKept ==
  ASSUME TypeOK, TypeOK', [Next]_vars, ~LoadSucceeds, ~DrainUnloaded, ~Wake,
         NEW S \in SUBSET Runners, NEW n \in Nat, InSight(S, n)
  PROVE  InSight(S, n)'
<1> DEFINE L == {g \in S : IsLoaded(g)}
<1>1. IsFiniteSet(L) /\ IsFiniteSet(L') /\ unloadedCh \in Nat /\ unloadedCh' \in Nat
  <2>1. IsFiniteSet(S)
    BY ComingType
  <2>2. L \subseteq S /\ L' \subseteq S
    OBVIOUS
  <2>3. QED
    BY <2>1, <2>2, FS_Subset DEF TypeOK, ChannelsTyped
<1>2. Cardinality(L) \in Nat /\ Cardinality(L') \in Nat
  BY <1>1, FS_CardinalityType
<1>3. n <= unloadedCh + Cardinality(L) + (IF Announcing THEN 1 ELSE 0)
  BY DEF InSight, Announcing
<1> SUFFICES n <= unloadedCh' + Cardinality(L') + (IF Announcing' THEN 1 ELSE 0)
  BY DEF InSight, Announcing
<1>4. CASE Unload
  <2>1. /\ loaded' = [loaded EXCEPT ![ModelOf[comp.run]] = NoRunner]
        /\ unloadedCh' = unloadedCh /\ ~Announcing /\ Announcing'
        /\ loaded[ModelOf[comp.run]] = comp.run /\ comp.run \in Runners
    BY <1>4 DEF Unload, CompAt, Announcing, chanVars, IsLoaded, TypeOK, CompTyped, CompBusy, CompType
  <2>2. loaded \in [Models -> Runners \cup {NoRunner}] /\ ModelOf \in [Requests -> Models]
    BY ConstantsAssumption DEF TypeOK, MapTyped, ConstantsAssumption
  <2>3. L \ {comp.run} \subseteq L'
    BY <2>1, <2>2 DEF IsLoaded, Runners
  <2>4. /\ IsFiniteSet(L \ {comp.run})
        /\ Cardinality(L \ {comp.run}) \in Nat
        /\ Cardinality(L \ {comp.run}) >= Cardinality(L) - 1
    <3>1. /\ IsFiniteSet(L \ {comp.run})
          /\ Cardinality(L \ {comp.run})
               = IF comp.run \in L THEN Cardinality(L) - 1 ELSE Cardinality(L)
      BY <1>1, FS_RemoveElement
    <3>2. QED
      BY <1>2, <3>1, FS_CardinalityType
  <2>5. Cardinality(L \ {comp.run}) <= Cardinality(L')
    BY <1>1, <2>3, FS_Subset
  <2>6. QED
    BY <1>1, <1>2, <1>3, <2>1, <2>4, <2>5
<1>5. CASE Announce
  <2>1. loaded' = loaded /\ unloadedCh' = unloadedCh + 1 /\ ~Announcing'
    BY <1>5 DEF Announce, mapVars, Rest, Announcing
  <2>2. L' = L
    BY <2>1 DEF IsLoaded
  <2>3. QED
    BY <1>1, <1>2, <1>3, <2>1, <2>2
<1>6. CASE UNCHANGED <<loaded, unloadedCh, Announcing>>
  <2>1. L' = L
    BY <1>6 DEF IsLoaded
  <2>2. QED
    BY <1>3, <1>6, <2>1
<1>7. QED
  BY <1>4, <1>5, <1>6, UnloadSteps

\* A runner of the map is in sight, and so are all of them.
LEMMA LoadedInSight ==
  ASSUME TypeOK, NEW S \in SUBSET Runners, \A g \in S : IsLoaded(g)
  PROVE  /\ InSight(S, Cardinality(S))
         /\ \A g \in S : InSight({g}, 1)
<1>1. /\ \A T \in SUBSET Runners : \A n : InSight(T, n) <=> n <= Coming(T)
      /\ IsFiniteSet(S) /\ unloadedCh \in Nat
  BY ComingType DEF TypeOK, ChannelsTyped
<1>2. {g \in S : IsLoaded(g)} = S /\ \A g \in S : {h \in {g} : IsLoaded(h)} = {g}
  OBVIOUS
<1>3. Cardinality(S) \in Nat /\ \A g \in S : Cardinality({g}) = 1
  BY <1>1, FS_CardinalityType, FS_Singleton
<1>4. Cardinality(S) <= Coming(S)
  BY <1>1, <1>2, <1>3 DEF Coming
<1>5. \A g \in S : 1 <= Coming({g})
  BY <1>1, <1>2, <1>3 DEF Coming
<1>6. QED
  BY <1>1, <1>4, <1>5

\* A victim is taken from the map, and is then in the hands of the loop.
LEMMA PickInSight ==
  ASSUME TypeOK, InHand, NEW S, NEW M \in SUBSET Models, S \subseteq LoadedRunners(M), PickAmong(S)
  PROVE  \/ pend'.pc = "look"
         \/ /\ pend'.pc = "scan" /\ InSight({pend'.run}, 1)
            /\ \A i \in DOMAIN pend'.scan : InSight({pend'.scan[i]}, 1)
<1>0. pend \in PendType /\ loaded \in [Models -> Runners \cup {NoRunner}]
  BY DEF TypeOK, PendTyped, MapTyped
<1>1. S \subseteq Runners /\ \A g \in S : IsLoaded(g)
  BY <1>0 DEF LoadedRunners, Keys, InHand, IsLoaded
<1>2. CASE S = {}
  BY <1>0, <1>2 DEF PickAmong, PendType
<1>3. CASE S # {}
  <2>1. PICK s \in Sorted(S) : pend' = [pend EXCEPT !.pc = "scan", !.scan = s, !.run = s[1]]
    BY <1>3 DEF PickAmong
  <2>2. IsFiniteSet(S) /\ Cardinality(S) \in Nat \ {0}
    BY <1>1, <1>3, FS_Subset, FS_CardinalityType, FS_EmptySet, ConstantsAssumption
       DEF ConstantsAssumption, Runners
  <2>3. s \in [1..Cardinality(S) -> S] /\ 1 \in 1..Cardinality(S)
    BY <2>2 DEF Sorted
  <2>4. pend'.pc = "scan" /\ pend'.scan = s /\ pend'.run = s[1]
    BY <1>0, <2>1 DEF PendType
  <2>5. \A g \in S : InSight({g}, 1)
    BY <1>1, LoadedInSight
  <2>6. QED
    BY <2>3, <2>4, <2>5
<1>4. QED
  BY <1>2, <1>3

\* What VictimsInSight says of a register of the loop.
VictimSight(p) ==
  /\ p.pc \in {"check", "scan", "expire"} => InSight({p.run}, 1)
  /\ p.pc = "scan" => \A i \in DOMAIN p.scan : InSight({p.scan[i]}, 1)
  /\ p.pc \in {"evict", "wait", "waitAll"} => InSight(p.targets, p.waits)

LEMMA PendingSight ==
  ASSUME TypeOK, TypeOK', InHand, VictimsInSight, ProcessPending, [Next]_vars
  PROVE  VictimsInSight'
<1>0. /\ pend \in PendType /\ PendBusy
      /\ loaded \in [Models -> Runners \cup {NoRunner}] /\ ModelOf \in [Requests -> Models]
  BY ConstantsAssumption DEF TypeOK, PendTyped, MapTyped, ConstantsAssumption
<1> DEFINE Aside == pend'.pc \notin {"check", "scan", "expire", "evict", "wait", "waitAll"}
           Stays == ~LoadSucceeds /\ ~DrainUnloaded /\ ~Wake
<1>1. ASSUME Aside PROVE VictimsInSight'
  BY <1>1 DEF VictimsInSight
\* What is in sight before a step that takes no event, is afterwards.
<1>2. ASSUME Stays, VictimSight(pend') PROVE VictimsInSight'
  <2>1. pend' \in PendType /\ PendBusy'
    BY DEF TypeOK, PendTyped
  <2>2. pend'.pc \in {"check", "scan", "expire"} => {pend'.run} \in SUBSET Runners
    BY <2>1 DEF PendBusy
  <2>3. \A i \in DOMAIN pend'.scan : {pend'.scan[i]} \in SUBSET Runners
    BY <2>1 DEF PendType
  <2>4. pend'.targets \in SUBSET Runners /\ pend'.waits \in Nat
    BY <2>1 DEF PendType
  <2>5. \A S \in SUBSET Runners, n \in Nat : InSight(S, n) => InSight(S, n)'
    BY <1>2, SightKept
  <2>6. QED
    BY <1>2, <2>2, <2>3, <2>4, <2>5 DEF VictimsInSight, VictimSight
<1>3. CASE TakePending \/ DrainUnloaded \/ PendingUse \/ Visit \/ Placed
  <2>1. Aside
    <3>1. CASE TakePending
      BY <1>0, <3>1 DEF TakePending, At, PendType
    <3>2. CASE DrainUnloaded \/ PendingUse
      BY <3>2 DEF DrainUnloaded, PendingUse, At, Idle
    <3>3. CASE Visit
      BY <1>0, <3>3 DEF Visit, At, PendType
    <3>4. CASE Placed
      BY <1>0, <3>4 DEF Placed, Idle, PendType
    <3>5. QED
      BY <1>3, <3>1, <3>2, <3>3, <3>4
  <2>2. QED
    BY <1>1, <2>1
<1>4. CASE Look
  <2>1. Stays /\ pend'.pc \in {"caps", "check"} /\ pend'.run = loaded[ModelOf[pend.req]]
        /\ (pend'.pc = "check" => pend'.run # NoRunner) /\ pend.req \in Requests
    BY <1>0, <1>4 DEF Look, At, LoadSucceeds, DrainUnloaded, Wake, PendType, PendBusy
  <2>2. pend'.pc = "check" => pend'.run \in Runners /\ IsLoaded(pend'.run)
    BY <1>0, <2>1 DEF InHand, IsLoaded
  <2>3. pend'.pc = "check" => InSight({pend'.run}, 1)
    BY <2>2, LoadedInSight
  <2>4. QED
    BY <1>2, <2>1, <2>3 DEF VictimSight
<1>5. CASE PendingCheck
  <2>1. Stays /\ pend.pc = "check" /\ pend'.pc \in {"expire", "use"} /\ pend'.run = pend.run
    BY <1>0, <1>5 DEF PendingCheck, At, LoadSucceeds, DrainUnloaded, Wake, PendType
  <2>2. QED
    BY <1>2, <2>1 DEF VictimsInSight, VictimSight
<1>6. CASE Caps \/ PickShared \/ PickOn
  <2>1. Stays
    BY <1>6 DEF Caps, PickShared, PickOn, At, LoadSucceeds, DrainUnloaded, Wake
  <2>2. Aside \/ \E M \in SUBSET Models : \E S : S \subseteq LoadedRunners(M) /\ PickAmong(S)
    <3>1. CASE Caps
      <4>1. CASE \E k \in Nat : PickAmong(LoadedRunners(OfKind(k)))
        BY <4>1 DEF OfKind
      <4>2. CASE pend'.pc \in {"pickShared", "visit"}
        BY <4>2
      <4>3. ModelOf[pend.req] \in Models /\ KindsOf[ModelOf[pend.req]] \subseteq Nat
        BY <1>0, <3>1, ConstantsAssumption DEF Caps, At, PendBusy, ConstantsAssumption
      <4>4. QED
        BY <1>0, <3>1, <4>1, <4>2, <4>3 DEF Caps, PendType
    <3>2. CASE PickShared
      BY <3>2 DEF PickShared, SharedPool
    <3>3. CASE PickOn
      BY <3>3 DEF PickOn
    <3>4. QED
      BY <1>6, <3>1, <3>2, <3>3
  <2>3. Aside \/ VictimSight(pend')
    BY <2>2, PickInSight DEF VictimSight
  <2>4. QED
    BY <1>1, <1>2, <2>1, <2>3
<1>7. CASE Scan
  <2>1. Stays /\ pend.pc = "scan" /\ pend.scan \in Seq(Runners) /\ pend.scan # <<>>
    BY <1>0, <1>7 DEF Scan, At, LoadSucceeds, DrainUnloaded, Wake, PendType, PendBusy
  <2>2. InSight({pend.run}, 1) /\ \A i \in DOMAIN pend.scan : InSight({pend.scan[i]}, 1)
    BY <2>1 DEF VictimsInSight
  <2>3. /\ InSight({Head(pend.scan)}, 1)
        /\ \A i \in DOMAIN Tail(pend.scan) : InSight({Tail(pend.scan)[i]}, 1)
    <3>1. 1 \in DOMAIN pend.scan /\ Head(pend.scan) = pend.scan[1]
      BY <2>1
    <3>2. \A i \in DOMAIN Tail(pend.scan) :
            i + 1 \in DOMAIN pend.scan /\ Tail(pend.scan)[i] = pend.scan[i + 1]
      BY <2>1
    <3>3. QED
      BY <2>2, <3>1, <3>2
  <2>4. \/ pend'.pc = "expire" /\ pend'.run \in {Head(pend.scan), pend.run}
        \/ pend'.pc = "scan" /\ pend'.run = pend.run /\ pend'.scan = Tail(pend.scan)
    BY <1>0, <1>7 DEF Scan, PendType
  <2>5. VictimSight(pend')
    BY <2>2, <2>3, <2>4 DEF VictimSight
  <2>6. QED
    BY <1>2, <2>1, <2>5
<1>8. CASE Create \/ LoadSucceeds \/ LoadRequiresFull \/ LoadFails
  <2>1. \/ pend' = Idle \/ pend' = NeedEvict(pend.oomRetry) \/ pend' = NeedEvict(TRUE)
        \/ pend'.pc \in {"load", "panic"}
    BY <1>0, <1>8 DEF Create, LoadSucceeds, LoadRequiresFull, LoadFails, PendType
  <2>2. /\ Idle.pc = "idle"
        /\ NeedEvict(pend.oomRetry).pc \in {"look", "evictAll", "pickOn"}
        /\ NeedEvict(TRUE).pc \in {"look", "evictAll", "pickOn"}
    BY <1>0, NeedEvictOut DEF Idle
  <2>3. QED
    BY <1>1, <2>1, <2>2
<1>9. CASE ExpireVictim
  <2>1. /\ Stays /\ pend.pc = "expire"
        /\ pend'.pc = "wait" /\ pend'.targets = {pend.run} /\ pend'.waits = 1
    BY <1>0, <1>9 DEF ExpireVictim, At, LoadSucceeds, DrainUnloaded, Wake, PendType
  <2>2. QED
    BY <1>2, <2>1 DEF VictimsInSight, VictimSight
<1>10. CASE EvictAll
  <2> DEFINE others == LoadedRunners(Models \ {ModelOf[pend.req]})
  <2>1. /\ Stays
        /\ \/ pend'.pc = "look"
           \/ /\ pend'.pc = "evict" /\ pend'.targets = others
              /\ pend'.waits = Cardinality(others)
    BY <1>0, <1>10 DEF EvictAll, At, LoadSucceeds, DrainUnloaded, Wake, PendType
  <2>2. others \subseteq Runners /\ \A g \in others : IsLoaded(g)
    BY <1>0 DEF LoadedRunners, Keys, InHand, IsLoaded
  <2>3. InSight(others, Cardinality(others))
    BY <2>2, LoadedInSight
  <2>4. QED
    BY <1>2, <2>1, <2>3 DEF VictimSight
<1>11. CASE EvictOne
  <2>1. /\ Stays /\ pend.pc = "evict" /\ pend'.pc \in {"evict", "waitAll"}
        /\ pend'.targets = pend.targets /\ pend'.waits = pend.waits
    BY <1>0, <1>11 DEF EvictOne, At, LoadSucceeds, DrainUnloaded, Wake, PendType
  <2>2. QED
    BY <1>2, <2>1 DEF VictimsInSight, VictimSight
<1>12. CASE Wake
  <2>1. /\ pend.pc \in {"wait", "waitAll"} /\ UNCHANGED <<loaded, comp>>
        /\ unloadedCh' = unloadedCh - 1
    BY <1>12 DEF Wake, At, Pass, mapVars
  <2>2. \/ pend'.pc = "look"
        \/ pend'.pc = pend.pc /\ pend'.waits = pend.waits - 1 /\ pend'.targets = pend.targets
    BY <1>0, <1>12 DEF Wake, PendType
  <2>3. InSight(pend.targets, pend.waits) /\ pend.waits \in Nat /\ pend.targets \in SUBSET Runners
    BY <1>0, <2>1 DEF VictimsInSight, PendType
  <2>4. {g \in pend.targets : IsLoaded(g)}' = {g \in pend.targets' : IsLoaded(g)}
    BY <2>1 DEF IsLoaded
  <2>5. ASSUME pend'.pc # "look" PROVE VictimsInSight'
    <3>1. /\ unloadedCh \in Nat
          /\ Cardinality({g \in pend.targets : IsLoaded(g)}) \in Nat
      BY <2>3, ComingType, FS_Subset, FS_CardinalityType DEF TypeOK, ChannelsTyped
    <3>2. InSight(pend.targets, pend.waits)'
      <4> DEFINE there == Cardinality({g \in pend.targets : IsLoaded(g)})
                 more == IF comp.pc \in {"recover", "announce"} THEN 1 ELSE 0
      <4>1. there' = there /\ more' = more
        <5>1. {g \in pend.targets : IsLoaded(g)}' = {g \in pend.targets : IsLoaded(g)}
          BY <2>1, <2>2, <2>5 DEF IsLoaded
        <5>2. QED
          BY <2>1, <5>1
      <4>2. pend.waits <= unloadedCh + there + more
        BY <2>3 DEF InSight
      <4>3. there \in Nat /\ more \in Nat
        BY <3>1
      <4>4. pend'.waits <= unloadedCh' + there' + more'
        <5> HIDE DEF there, more
        <5>1. QED
          BY <2>1, <2>2, <2>3, <2>5, <3>1, <4>1, <4>2, <4>3
      <4>5. QED
        BY <4>4 DEF InSight
    <3>3. QED
      BY <2>1, <2>2, <2>5, <3>2 DEF VictimsInSight
  <2>6. QED
    BY <1>1, <2>5
<1>13. QED
  BY <1>3, <1>4, <1>5, <1>6, <1>7, <1>8, <1>9, <1>10, <1>11, <1>12 DEF ProcessPending

LEMMA VictimsKept ==
  ASSUME TypeOK, TypeOK', InHand, VictimsInSight, [Next]_vars
  PROVE  VictimsInSight'
<1>1. CASE ProcessPending
  BY <1>1, PendingSight
<1>2. CASE ~ProcessPending
  <2>1. UNCHANGED pend /\ ~LoadSucceeds /\ ~DrainUnloaded /\ ~Wake
    BY <1>2, OthersWrite DEF ProcessPending
  <2>2. \A S \in SUBSET Runners, n \in Nat : InSight(S, n) => InSight(S, n)'
    BY <2>1, SightKept
  <2>3. pend \in PendType /\ PendBusy
    BY DEF TypeOK, PendTyped
  <2>4. pend.pc \in {"check", "scan", "expire"} => {pend.run} \in SUBSET Runners
    BY <2>3 DEF PendBusy
  <2>5. \A i \in DOMAIN pend.scan : {pend.scan[i]} \in SUBSET Runners
    BY <2>3 DEF PendType
  <2>6. pend.targets \in SUBSET Runners /\ pend.waits \in Nat
    BY <2>3 DEF PendType
  <2>7. QED
    BY <2>1, <2>2, <2>4, <2>5, <2>6 DEF VictimsInSight
<1>3. QED
  BY <1>1, <1>2

\* The pending loop never waits for an unload that will not be announced.
THEOREM WakeupsComing == Spec => []WakeupInSight
<1>1. Init => VictimsInSight
  BY DEF Init, Idle, VictimsInSight
<1>2. TypeOK /\ TypeOK' /\ InHand /\ VictimsInSight /\ [Next]_vars => VictimsInSight'
  BY VictimsKept
<1>3. IInv => InHand
  BY DEF IInv, Structure
<1>4. VictimsInSight => WakeupInSight
  BY DEF VictimsInSight, WakeupInSight, InSight
<1>5. QED
  BY <1>1, <1>2, <1>3, <1>4, TypeCorrect, InvariantHolds, PTL DEF Spec

-----------------------------------------------------------------------------
(* The keep-alive.                                                         *)

\* A request that is past its way to a load does not come back to it.
LEMMA NeverBack ==
  ASSUME TypeOK, [Next]_vars, NEW r \in Requests, Early(r)'
  PROVE  Early(r)
<1>0. /\ pc \in [Requests -> {"new", "check", "enqueue", "use", "sent"}]
      /\ pendingReqCh \in Seq(Requests) /\ pend \in PendType /\ Idle.pc = "idle"
  BY DEF TypeOK, RequestsTyped, ChannelsTyped, PendTyped, Idle
<1>1. ASSUME NEW q \in Requests, GetRunner(q) PROVE Early(r)
  <2>1. UNCHANGED pend
    BY <1>1, GetRunnerFrame
  <2>2. CASE Enqueue(q)
    <3>1. pc[q] = "enqueue" /\ pc' = [pc EXCEPT ![q] = "sent"]
          /\ (UNCHANGED pendingReqCh \/ pendingReqCh' = Append(pendingReqCh, q))
      BY <2>2 DEF Enqueue, GoTo
    <3>2. Queued(r)' => Queued(r) \/ r = q
      <4>1. ASSUME pendingReqCh' = Append(pendingReqCh, q), Queued(r)' PROVE Queued(r) \/ r = q
        <5>1. PICK i \in DOMAIN pendingReqCh' : pendingReqCh'[i] = r
          BY <4>1 DEF Queued
        <5>2. i \in DOMAIN pendingReqCh \/ i = Len(pendingReqCh) + 1
          BY <1>0, <4>1, <5>1
        <5>3. QED
          BY <1>0, <4>1, <5>1, <5>2 DEF Queued
      <4>2. QED
        BY <3>1, <4>1 DEF Queued
    <3>3. QED
      BY <1>0, <2>1, <3>1, <3>2 DEF Early, InGetRunner, InPending
  <2>3. CASE LookUp(q) \/ FastCheck(q) \/ FastUse(q) \/ ClientDone(q) \/ ClientCancel(q)
    <3>1. UNCHANGED pendingReqCh
      BY <2>3 DEF LookUp, FastCheck, FastUse, ClientDone, ClientCancel, chanVars
    <3>2. pc'[r] # "sent" => pc[r] # "sent"
      BY <1>0, <2>3 DEF LookUp, FastCheck, FastUse, ClientDone, ClientCancel, answerVars, GoTo
    <3>3. QED
      BY <2>1, <3>1, <3>2 DEF Early, InGetRunner, InPending, Queued
  <2>4. QED
    BY <1>1, <2>2, <2>3 DEF GetRunner
<1>2. CASE ProcessPending
  <2>1. UNCHANGED pc
    BY <1>2, ProcessPendingFrame
  <2>2. CASE TakePending
    <3>1. /\ pendingReqCh # <<>> /\ pendingReqCh' = Tail(pendingReqCh) /\ pend.pc = "idle"
          /\ UNCHANGED pend \/ pend'.req = Head(pendingReqCh)
      BY <1>0, <2>2 DEF TakePending, At, PendType
    <3>2. Queued(r)' \/ Head(pendingReqCh) = r => Queued(r)
      BY <1>0, <3>1, QueueOf DEF Queued
    <3>3. QED
      BY <2>1, <3>1, <3>2 DEF Early, InGetRunner, InPending
  <2>3. CASE LoadSucceeds
    BY <1>0, <2>1, <2>3 DEF LoadSucceeds, Early, InGetRunner, InPending, Queued, chanVars
  <2>4. CASE ~TakePending /\ ~LoadSucceeds
    <3>1. UNCHANGED pendingReqCh
          /\ \/ pend' = Idle \/ UNCHANGED pend
             \/ pend'.req = pend.req /\ pend.pc # "idle"
      BY <1>2, <2>4, PendingKeeps
    <3>2. QED
      BY <1>0, <2>1, <3>1 DEF Early, InGetRunner, InPending, Queued
  <2>5. QED
    BY <2>2, <2>3, <2>4
<1>3. CASE UNCHANGED <<pc, pendingReqCh, pend>>
  BY <1>3 DEF Early, InGetRunner, InPending, Queued
<1>4. CASE ProcessCompleted
  BY <1>3, <1>4, ProcessCompletedFrame DEF answerVars
<1>5. CASE \E g \in Runners : RunnerStep(g)
  BY <1>3, <1>5, RunnerStepFrame
<1>6. CASE ExpireRunner \/ ExpireRunnersForRuntimeOOM
  BY <1>3, <1>6, StopRunnersFrame DEF ExpireRunner, ExpireRunnersForRuntimeOOM, requestVars, chanVars
<1>7. CASE UNCHANGED vars
  BY <1>3, <1>7 DEF vars, requestVars, chanVars
<1>8. QED
  BY <1>1, <1>2, <1>4, <1>5, <1>6, <1>7 DEF Next

\* The completed loop names a runner to unload in Unload only.
LEMMA UnloadStarts ==
  ASSUME TypeOK, [Next]_vars, NEW g \in Runners, Unloading(g)'
  PROVE  Unloading(g) \/ (Unload /\ comp.run = g)
<1>1. comp \in CompType
  BY DEF TypeOK, CompTyped
<1>2. CASE ProcessCompleted
  <2>1. CASE \E r \in Requests : TakeFinished(r)
    BY <2>1 DEF TakeFinished, CompAt, Unloading
  <2>2. CASE Finish \/ ExpiredIgnored \/ Announce
    BY <2>2 DEF Finish, ExpiredIgnored, Announce, Rest, Unloading
  <2>3. CASE TakeExpired
    BY <2>3 DEF TakeExpired, Rest, Unloading
  <2>4. CASE Unload \/ Recovered
    BY <1>1, <2>4 DEF Unload, Recovered, CompType, Unloading
  <2>5. QED
    BY <1>2, <2>1, <2>2, <2>3, <2>4 DEF ProcessCompleted
<1>3. CASE UNCHANGED comp
  BY <1>3 DEF Unloading
<1>4. CASE \E r \in Requests : GetRunner(r)
  BY <1>3, <1>4, GetRunnerFrame
<1>5. CASE ProcessPending
  BY <1>3, <1>5, ProcessPendingFrame
<1>6. CASE \E h \in Runners : RunnerStep(h)
  BY <1>3, <1>6, RunnerStepFrame
<1>7. CASE ExpireRunner \/ ExpireRunnersForRuntimeOOM
  BY <1>3, <1>7, StopRunnersFrame DEF ExpireRunner, ExpireRunnersForRuntimeOOM
<1>8. CASE UNCHANGED vars
  BY <1>3, <1>8 DEF vars
<1>9. QED
  BY <1>2, <1>4, <1>5, <1>6, <1>7, <1>8 DEF Next

LEMMA LoadedOnceKept ==
  ASSUME TypeOK, OnePlace, LoadedOnce, [Next]_vars
  PROVE  LoadedOnce'
<1> SUFFICES ASSUME NEW g \in Runners
             PROVE  /\ IsLoaded(g)' \/ Unloading(g)' => ~Early(g)'
                    /\ Unloading(g)' => ~IsLoaded(g)'
  BY DEF LoadedOnce
<1>0. /\ loaded \in [Models -> Runners \cup {NoRunner}] /\ ModelOf \in [Requests -> Models]
      /\ g \in Requests /\ g # NoRunner /\ Idle.pc = "idle"
  BY ConstantsAssumption DEF TypeOK, MapTyped, ConstantsAssumption, Runners, Idle
<1>1. Early(g)' => Early(g)
  BY <1>0, NeverBack
<1>2. IsLoaded(g)' => IsLoaded(g) \/ (LoadSucceeds /\ pend.req = g)
  <2>1. CASE LoadSucceeds
    BY <1>0, <2>1 DEF LoadSucceeds, IsLoaded
  <2>2. CASE Unload
    BY <1>0, <2>2 DEF Unload, IsLoaded
  <2>3. QED
    BY <2>1, <2>2, MapChanges DEF IsLoaded
<1>3. Unloading(g)' => Unloading(g) \/ (Unload /\ comp.run = g)
  BY UnloadStarts
<1>4. CASE LoadSucceeds /\ pend.req = g
  <2>1. pend.pc = "load" /\ pend' = Idle /\ UNCHANGED <<pc, pendingReqCh, comp>>
    BY <1>4 DEF LoadSucceeds, At, Pass, NoAnswer, chanVars
  <2>2. InPending(g)
    BY <1>4, <2>1 DEF InPending
  <2>3. ~InGetRunner(g) /\ ~Queued(g)
    BY <1>0, <2>2 DEF OnePlace
  <2>4. ~Early(g)'
    BY <1>0, <2>1, <2>3 DEF Early, InGetRunner, Queued, InPending
  <2>5. ~Unloading(g) /\ ~Unloading(g)'
    BY <2>1, <2>2 DEF LoadedOnce, Early, Unloading
  <2>6. QED
    BY <2>4, <2>5
<1>5. CASE Unload /\ comp.run = g
  <2>1. IsLoaded(g) /\ loaded' = [loaded EXCEPT ![ModelOf[g]] = NoRunner]
    BY <1>5 DEF Unload
  <2>2. ~IsLoaded(g)'
    BY <1>0, <2>1 DEF IsLoaded
  <2>3. QED
    BY <1>1, <2>1, <2>2 DEF LoadedOnce
<1>6. QED
  BY <1>1, <1>2, <1>3, <1>4, <1>5 DEF LoadedOnce

\* A runner that needs an expiry in sight, and what IdleHasExpiry says of it.
NeedsExpiry(g) == IsLoaded(g) /\ Free(g) /\ refCount[g] = 0
ExpiryOf(g) == NeedsExpiry(g) => ExpiryInSight(g)

\* A step that takes no expiry from a runner, and does not make it need one.
ExpiredInHand(g) == comp.pc = "expired" /\ comp.run = g
Aloof(g) ==
  /\ NeedsExpiry(g)' => NeedsExpiry(g)
  /\ expireTimer[g] = "armed" => expireTimer'[g] = "armed" \/ callbacks'[g] > 0
  /\ callbacks[g] > 0 => callbacks'[g] > 0
  /\ resends[g] > 0 => resends'[g] > 0 \/ ExpiredEventFor(g)'
  /\ ExpiredEventFor(g) => ExpiredEventFor(g)' \/ ExpiredInHand(g)'
  /\ ExpiredInHand(g) => ExpiredInHand(g)' \/ resends'[g] > 0

LEMMA AloofKeeps ==
  ASSUME NEW g, Aloof(g), ExpiryOf(g)
  PROVE  ExpiryOf(g)'
BY DEF Aloof, ExpiryOf, ExpiryInSight, ExpiredInHand

Keepers == <<loaded, refMu, refCount, expireTimer, callbacks, resends, expiredCh, comp>>
LEMMA KeepersKeep ==
  ASSUME UNCHANGED Keepers
  PROVE  \A g \in Runners : Aloof(g)
BY DEF Keepers, Aloof, NeedsExpiry, IsLoaded, Free, ExpiredEventFor, ExpiredInHand

LEMMA EventSent ==
  ASSUME TypeOK, NEW h \in Runners, expiredCh' = Append(expiredCh, h)
  PROVE  ExpiredEventFor(h)' /\ \A g : ExpiredEventFor(g) => ExpiredEventFor(g)'
<1> DEFINE n == Len(expiredCh)
<1>1. /\ expiredCh \in Seq(Runners) /\ n \in Nat /\ DOMAIN expiredCh = 1..n
      /\ DOMAIN expiredCh' = 1..(n + 1) /\ expiredCh'[n + 1] = h
      /\ \A i \in 1..n : expiredCh'[i] = expiredCh[i]
  BY AppendProperties, LenProperties DEF TypeOK, ChannelsTyped
<1>2. n + 1 \in 1..(n + 1) /\ \A i \in 1..n : i \in 1..(n + 1)
  BY <1>1
<1>3. QED
  BY <1>1, <1>2 DEF ExpiredEventFor

\* An event that finds no room leaves its sender with the lock.
LEMMA EmitLeaves ==
  ASSUME TypeOK, NEW h \in Runners, NEW who \in Senders, Emit(h, who)
  PROVE  /\ ExpiredEventFor(h)' \/ ~Free(h)'
         /\ \A g : ExpiredEventFor(g) => ExpiredEventFor(g)'
         /\ \A g \in Runners : Free(g)' => Free(g)
<1>1. refMu \in [Runners -> Locks] /\ who # "free"
  BY LockNames DEF TypeOK, RunnersTyped, Senders
<1>2. CASE Len(expiredCh) < MaxQueue
  BY <1>2, EventSent DEF Emit, Free
<1>3. CASE ~(Len(expiredCh) < MaxQueue)
  BY <1>1, <1>3 DEF Emit, Free, ExpiredEventFor
<1>4. QED
  BY <1>2, <1>3

\* Whoever ends a keep-alive sees to the event, unless the runner is used.
LEMMA ExpireNowKeeps ==
  ASSUME TypeOK, \A g \in Runners : ExpiryOf(g), NEW h \in Runners, NEW who \in Senders,
         ExpireNow(h, who), UNCHANGED <<loaded, refCount, callbacks, resends, comp>>
  PROVE  \A g \in Runners : ExpiryOf(g)'
<1>1. expireTimer' = [expireTimer EXCEPT ![h] = "nil"]
      /\ expireTimer \in [Runners -> {"nil", "armed", "fired"}]
  BY DEF ExpireNow, TypeOK, RunnersTyped
<1>2. CASE refCount[h] = 0
  <2>1. Emit(h, who)
    BY <1>2 DEF ExpireNow
  <2>2. ExpiryOf(h)'
    BY <2>1, EmitLeaves DEF ExpiryOf, NeedsExpiry, ExpiryInSight
  <2>3. ASSUME NEW g \in Runners, g # h PROVE Aloof(g)
    BY <1>1, <2>1, <2>3, EmitLeaves DEF Aloof, NeedsExpiry, IsLoaded, ExpiredInHand
  <2>4. QED
    BY <2>2, <2>3, AloofKeeps
<1>3. CASE refCount[h] # 0
  <2>1. UNCHANGED <<refMu, expiredCh>>
    BY <1>3 DEF ExpireNow
  <2>2. ExpiryOf(h)'
    BY <1>3 DEF ExpiryOf, NeedsExpiry
  <2>3. ASSUME NEW g \in Runners, g # h PROVE Aloof(g)
    BY <1>1, <2>1, <2>3 DEF Aloof, NeedsExpiry, IsLoaded, Free, ExpiredEventFor, ExpiredInHand
  <2>4. QED
    BY <2>2, <2>3, AloofKeeps
<1>4. QED
  BY <1>2, <1>3

\* A use stops the timer and raises the count, which cannot wrap as long as it
\* is exact.
LEMMA RaisedAboveZero ==
  ASSUME IInv, stale = {}, NEW g \in Runners, IsLoaded(g)
  PROVE  Incremented(refCount[g]) # 0
<1>1. ModelOf[g] \in Keys(Models) /\ loaded[ModelOf[g]] = g
  BY ConstantsAssumption DEF IsLoaded, Keys, Runners, ConstantsAssumption
<1>2. refCount[g] = Cardinality(Holders(g))
  BY <1>1 DEF IInv, RefCountExact
<1>3. Cardinality(Holders(g)) \in Nat /\ Cardinality(Holders(g)) <= Cardinality(Requests)
  BY HoldersFinite, FS_Subset, ConstantsAssumption DEF ConstantsAssumption
<1>4. QED
  BY <1>2, <1>3, CountArithmetic

LEMMA UseKeeps ==
  ASSUME IInv, stale = {}, \A g \in Runners : ExpiryOf(g), NEW h \in Runners, NEW r,
         UseLoadedRunner(r, h), UNCHANGED <<loaded, expiredCh, comp>>
  PROVE  \A g \in Runners : ExpiryOf(g)'
<1>1. /\ refCount' = [refCount EXCEPT ![h] = Incremented(@)]
      /\ expireTimer' = [expireTimer EXCEPT ![h] = "nil"]
      /\ UNCHANGED <<refMu, callbacks, resends>>
  BY DEF UseLoadedRunner
<1>2. /\ refCount \in [Runners -> 0..(RefCounts - 1)]
      /\ expireTimer \in [Runners -> {"nil", "armed", "fired"}]
  BY DEF IInv, Structure, TypeOK, RunnersTyped
<1>3. ExpiryOf(h)'
  BY <1>1, <1>2, RaisedAboveZero DEF ExpiryOf, NeedsExpiry, IsLoaded
<1>4. ASSUME NEW g \in Runners, g # h PROVE Aloof(g)
  BY <1>1, <1>2, <1>4 DEF Aloof, NeedsExpiry, IsLoaded, Free, ExpiredEventFor, ExpiredInHand
<1>5. QED
  BY <1>3, <1>4, AloofKeeps

\* The pending loop: a load finds the key free, and locks the new runner.
LEMMA PendingKeepsExpiry ==
  ASSUME IInv, stale = {}, \A g \in Runners : ExpiryOf(g), ProcessPending
  PROVE  \A g \in Runners : ExpiryOf(g)'
<1>0. /\ TypeOK /\ pend \in PendType /\ PendBusy /\ KeyFreeWhileLoading
      /\ "pending" \in Senders
  BY DEF IInv, Structure, TypeOK, PendTyped, Senders
<1>1. CASE PendingUse
  BY <1>0, <1>1, UseKeeps DEF PendingUse, At, PendBusy, mapVars, chanVars
<1>2. CASE LoadSucceeds
  <2>1. PICK r \in Runners : r = pend.req /\ loaded[ModelOf[r]] = NoRunner
    BY <1>0, <1>2 DEF LoadSucceeds, At, PendBusy, KeyFreeWhileLoading, Runners
  <2>2. /\ refMu' = [refMu EXCEPT ![r] = "loading"]
        /\ refCount' = [refCount EXCEPT ![r] = 0]
        /\ expireTimer' = [g \in Runners |-> IF g \in {r, NoRunner} THEN "nil" ELSE expireTimer[g]]
        /\ loaded' = [loaded EXCEPT ![ModelOf[r]] = r]
        /\ UNCHANGED <<callbacks, resends, comp, expiredCh>>
    BY <1>2, <2>1 DEF LoadSucceeds, Pass, chanVars
  <2>3. /\ refMu \in [Runners -> Locks] /\ refCount \in [Runners -> 0..(RefCounts - 1)]
        /\ loaded \in [Models -> Runners \cup {NoRunner}] /\ NoRunner \notin Runners
    BY <1>0, ConstantsAssumption DEF TypeOK, RunnersTyped, MapTyped, ConstantsAssumption, Runners
  <2>4. ExpiryOf(r)'
    BY <2>1, <2>2, <2>3 DEF ExpiryOf, NeedsExpiry, Free
  <2>5. ASSUME NEW g \in Runners, g # r PROVE Aloof(g)
    <3>1. g # NoRunner /\ expireTimer'[g] = expireTimer[g]
      BY <2>2, <2>3, <2>5
    <3>2. NeedsExpiry(g)' => NeedsExpiry(g)
      BY <2>2, <2>3, <2>5 DEF NeedsExpiry, IsLoaded, Free
    <3>3. QED
      BY <2>2, <3>1, <3>2 DEF Aloof, ExpiredEventFor, ExpiredInHand
  <2>6. QED
    BY <2>4, <2>5, AloofKeeps
<1>3. CASE ExpireVictim
  BY <1>0, <1>3, ExpireNowKeeps DEF ExpireVictim, At, PendBusy, Pass, mapVars
<1>4. CASE EvictOne
  <2>1. PICK h \in pend.rest : ExpireNow(h, "pending")
    BY <1>4 DEF EvictOne
  <2>2. h \in Runners /\ UNCHANGED <<loaded, refCount, callbacks, resends, comp>>
    BY <1>0, <1>4 DEF EvictOne, Pass, mapVars, PendType
  <2>3. QED
    BY <1>0, <2>1, <2>2, ExpireNowKeeps
<1>5. CASE UNCHANGED Keepers
  BY <1>5, KeepersKeep, AloofKeeps
<1>6. CASE Look \/ PendingCheck \/ Caps \/ PickShared \/ PickOn \/ Scan \/ Visit
           \/ LoadRequiresFull \/ EvictAll
  <2>1. OnlyPend
    BY <1>6 DEF Look, PendingCheck, Caps, PickShared, PickOn, Scan, Visit, LoadRequiresFull,
                EvictAll
  <2>2. QED
    BY <1>5, <2>1 DEF OnlyPend, Pass, NoTouch, mapVars, chanVars, Keepers
<1>7. CASE TakePending \/ DrainUnloaded \/ Wake \/ Placed \/ Create \/ LoadFails
  BY <1>5, <1>7 DEF TakePending, DrainUnloaded, Wake, Placed, Create, LoadFails, Pass, NoTouch,
                    mapVars, chanVars, Keepers
<1>8. QED
  BY <1>1, <1>2, <1>3, <1>4, <1>6, <1>7 DEF ProcessPending

\* The completed loop: what it takes out of sight it unloads or sends again,
\* and a runner it leaves idle gets its timer or its event.
LEMMA CompletedKeepsExpiry ==
  ASSUME TypeOK, LoadedOnce, \A g \in Runners : ExpiryOf(g), ProcessCompleted
  PROVE  \A g \in Runners : ExpiryOf(g)'
<1>0. /\ CompBusy /\ "completed" \in Senders
      /\ refMu \in [Runners -> Locks] /\ refCount \in [Runners -> 0..(RefCounts - 1)]
      /\ expireTimer \in [Runners -> {"nil", "armed", "fired"}] /\ resends \in [Runners -> Nat]
      /\ loaded \in [Models -> Runners \cup {NoRunner}] /\ ModelOf \in [Runners -> Models]
      /\ NoRunner \notin Runners /\ expiredCh \in Seq(Runners)
  BY ConstantsAssumption
     DEF TypeOK, CompTyped, RunnersTyped, MapTyped, ChannelsTyped, Senders, ConstantsAssumption,
         Runners
<1>1. ASSUME \A g \in Runners : ExpiryOf(g)' \/ Aloof(g) PROVE \A g \in Runners : ExpiryOf(g)'
  BY <1>1, AloofKeeps
<1>2. CASE \E r \in Requests : TakeFinished(r)
  <2>1. comp.pc = "idle" /\ UNCHANGED <<chanVars, runnerVars, mapVars>>
    BY <1>2 DEF TakeFinished, CompAt
  <2>2. \A g \in Runners : Aloof(g)
    BY <2>1 DEF Aloof, NeedsExpiry, IsLoaded, Free, ExpiredEventFor, ExpiredInHand, chanVars,
                runnerVars, mapVars
  <2>3. QED
    BY <1>1, <2>2
<1>3. CASE Finish
  <2>0. PICK h \in Runners : h = comp.run
    BY <1>0, <1>3 DEF Finish, CompAt, CompBusy
  <2> DEFINE idle == Decremented(refCount[h]) = 0
             gone == ModelOf[h] \in MediaModels /\ engine[h] # "up"
             over == idle /\ (gone \/ sessionDuration[h] = 0)
  <2>1. /\ comp.pc = "finish" /\ Free(h)
        /\ refCount' = [refCount EXCEPT ![h] = Decremented(@)]
        /\ expireTimer' = IF idle
                          THEN [expireTimer EXCEPT ![h] = IF over THEN "nil" ELSE "armed"]
                          ELSE expireTimer
        /\ IF over THEN Emit(h, "completed") ELSE UNCHANGED <<refMu, expiredCh>>
        /\ UNCHANGED <<loaded, callbacks, resends>>
    BY <1>3, <2>0 DEF Finish, CompAt, mapVars
  <2> HIDE DEF gone
  <2>2. /\ \A g \in Runners : Free(g)' => Free(g)
        /\ \A g : ExpiredEventFor(g) => ExpiredEventFor(g)'
        /\ over => ExpiredEventFor(h)' \/ ~Free(h)'
    <3>1. CASE over
      <4>1. Emit(h, "completed")
        BY <2>1, <3>1
      <4>2. QED
        BY <1>0, <2>1, <4>1, EmitLeaves
    <3>2. CASE ~over
      BY <2>1, <3>2 DEF Free, ExpiredEventFor
    <3>3. QED
      BY <3>1, <3>2
  <2>3. ExpiryOf(h)'
    <3>1. CASE over
      BY <2>2, <3>1 DEF ExpiryOf, NeedsExpiry, ExpiryInSight
    <3>2. CASE idle /\ ~over
      <4>1. expireTimer'[h] = "armed"
        BY <1>0, <2>1, <3>2
      <4>2. QED
        BY <4>1 DEF ExpiryOf, ExpiryInSight
    <3>3. CASE ~idle
      <4>1. refCount'[h] # 0
        BY <1>0, <2>1, <3>3
      <4>2. QED
        BY <4>1 DEF ExpiryOf, NeedsExpiry
    <3>4. QED
      BY <3>1, <3>2, <3>3
  <2>4. ASSUME NEW g \in Runners, g # h PROVE Aloof(g)
    <3>1. expireTimer'[g] = expireTimer[g] /\ refCount'[g] = refCount[g]
      BY <1>0, <2>1, <2>4
    <3>2. QED
      BY <2>1, <2>2, <3>1 DEF Aloof, NeedsExpiry, IsLoaded, ExpiredInHand
  <2>5. QED
    BY <1>1, <2>3, <2>4
<1>4. CASE TakeExpired
  <2>1. /\ comp.pc = "idle" /\ expiredCh # <<>> /\ expiredCh' = Tail(expiredCh)
        /\ comp'.pc = "expired" /\ comp'.run = Head(expiredCh)
        /\ UNCHANGED <<runnerVars, mapVars>>
    BY <1>4 DEF TakeExpired, CompAt, Rest
  <2>2. ASSUME NEW g, ExpiredEventFor(g) PROVE ExpiredEventFor(g)' \/ ExpiredInHand(g)'
    <3>1. PICK i \in DOMAIN expiredCh : expiredCh[i] = g
      BY <2>2 DEF ExpiredEventFor
    <3>2. CASE i = 1
      BY <1>0, <2>1, <3>1, <3>2 DEF ExpiredInHand
    <3>3. CASE i # 1
      <4>1. i - 1 \in DOMAIN Tail(expiredCh) /\ Tail(expiredCh)[i - 1] = expiredCh[i]
        BY <1>0, <2>1, <3>1, <3>3
      <4>2. QED
        BY <2>1, <3>1, <4>1 DEF ExpiredEventFor
    <3>4. QED
      BY <3>2, <3>3
  <2>3. \A g \in Runners : Aloof(g)
    BY <2>1, <2>2 DEF Aloof, NeedsExpiry, IsLoaded, Free, ExpiredInHand, runnerVars, mapVars
  <2>4. QED
    BY <1>1, <2>3
<1>5. CASE ExpiredIgnored
  <2>0. PICK h \in Runners : h = comp.run
    BY <1>0, <1>5 DEF ExpiredIgnored, CompAt, CompBusy
  <2>1. /\ comp.pc = "expired"
        /\ UNCHANGED <<expiredCh, refMu, refCount, callbacks, loaded>>
        /\ refCount[h] > 0 \/ ~IsLoaded(h)
        /\ UNCHANGED expireTimer \/ expireTimer' = [expireTimer EXCEPT ![h] = "nil"]
        /\ UNCHANGED resends \/ resends' = [resends EXCEPT ![h] = @ + 1]
    BY <1>0, <1>5, <2>0 DEF ExpiredIgnored, CompAt, chanVars, mapVars, IsLoaded
  <2>2. ExpiryOf(h)'
    BY <1>0, <2>1 DEF ExpiryOf, NeedsExpiry, IsLoaded
  <2>3. ASSUME NEW g \in Runners, g # h PROVE Aloof(g)
    <3>1. expireTimer'[g] = expireTimer[g] /\ resends'[g] = resends[g]
      BY <1>0, <2>1, <2>3
    <3>2. QED
      BY <2>0, <2>1, <2>3, <3>1 DEF Aloof, NeedsExpiry, IsLoaded, Free, ExpiredEventFor,
                                            ExpiredInHand
  <2>4. QED
    BY <1>1, <2>2, <2>3
<1>6. CASE Unload
  <2>0. PICK h \in Runners : h = comp.run
    BY <1>0, <1>6 DEF Unload, CompAt, CompBusy
  <2>1. /\ IsLoaded(h)
        /\ UNCHANGED <<expiredCh, refCount, callbacks, resends>>
        /\ refMu' = [refMu EXCEPT ![h] = "unloading"]
        /\ expireTimer' = [expireTimer EXCEPT ![h] = "nil"]
        /\ loaded' = [loaded EXCEPT ![ModelOf[h]] = NoRunner]
    BY <1>6, <2>0 DEF Unload, chanVars
  <2>2. ExpiryOf(h)'
    BY <1>0, <2>1 DEF ExpiryOf, NeedsExpiry, Free
  <2>3. ASSUME NEW g \in Runners, g # h PROVE Aloof(g)
    <3>1. expireTimer'[g] = expireTimer[g] /\ refMu'[g] = refMu[g]
      BY <1>0, <2>1, <2>3
    <3>2. IsLoaded(g)' => IsLoaded(g)
      BY <1>0, <2>1 DEF IsLoaded
    <3>3. QED
      BY <2>0, <2>1, <2>3, <3>1, <3>2 DEF Aloof, NeedsExpiry, Free, ExpiredEventFor,
                                                  ExpiredInHand
  <2>4. QED
    BY <1>1, <2>2, <2>3
<1>7. CASE Recovered
  <2>0. PICK h \in Runners : h = comp.run
    BY <1>0, <1>7 DEF Recovered, CompAt, CompBusy
  <2>1. /\ comp.pc = "recover" /\ refMu' = [refMu EXCEPT ![h] = "free"]
        /\ UNCHANGED <<loaded, refCount, expireTimer, callbacks, resends, expiredCh>>
    BY <1>7, <2>0 DEF Recovered, CompAt, chanVars, mapVars
  <2>2. ~IsLoaded(h)
    BY <2>0, <2>1 DEF LoadedOnce, Unloading
  <2>3. ExpiryOf(h)'
    BY <2>1, <2>2 DEF ExpiryOf, NeedsExpiry, IsLoaded
  <2>4. ASSUME NEW g \in Runners, g # h PROVE Aloof(g)
    BY <1>0, <2>1, <2>4 DEF Aloof, NeedsExpiry, IsLoaded, Free, ExpiredEventFor, ExpiredInHand
  <2>5. QED
    BY <1>1, <2>3, <2>4
<1>8. CASE Announce
  <2>1. comp.pc = "announce" /\ UNCHANGED <<expiredCh, runnerVars, mapVars>>
    BY <1>8 DEF Announce, CompAt
  <2>2. \A g \in Runners : Aloof(g)
    BY <2>1 DEF Aloof, NeedsExpiry, IsLoaded, Free, ExpiredEventFor, ExpiredInHand, runnerVars,
                mapVars
  <2>3. QED
    BY <1>1, <2>2
<1>9. QED
  BY <1>2, <1>3, <1>4, <1>5, <1>6, <1>7, <1>8 DEF ProcessCompleted

\* Loads, timers, re-sends and forced expirations.
LEMMA RunnerKeepsExpiry ==
  ASSUME IInv, stale = {}, \A g \in Runners : ExpiryOf(g), NEW h \in Runners, RunnerStep(h)
  PROVE  \A g \in Runners : ExpiryOf(g)'
<1>0. /\ TypeOK /\ "other" \in Senders
      /\ refMu \in [Runners -> Locks] /\ refCount \in [Runners -> 0..(RefCounts - 1)]
      /\ expireTimer \in [Runners -> {"nil", "armed", "fired"}]
      /\ callbacks \in [Runners -> Nat] /\ resends \in [Runners -> Nat]
  BY DEF IInv, Structure, TypeOK, RunnersTyped, Senders
<1>1. ASSUME \A g \in Runners : ExpiryOf(g)' \/ Aloof(g) PROVE \A g \in Runners : ExpiryOf(g)'
  BY <1>1, AloofKeeps
<1>2. CASE LoadRunning(h)
  <2>1. /\ refMu' = [refMu EXCEPT ![h] = "free"]
        /\ refCount' = [refCount EXCEPT ![h] = Incremented(@)]
        /\ UNCHANGED <<loaded, expireTimer, callbacks, resends, expiredCh, comp>>
    BY <1>2 DEF LoadRunning, chanVars, mapVars
  <2>2. ExpiryOf(h)'
    BY <1>0, <2>1, RaisedAboveZero DEF ExpiryOf, NeedsExpiry, IsLoaded
  <2>3. ASSUME NEW g \in Runners, g # h PROVE Aloof(g)
    BY <1>0, <2>1, <2>3 DEF Aloof, NeedsExpiry, IsLoaded, Free, ExpiredEventFor, ExpiredInHand
  <2>4. QED
    BY <1>1, <2>2, <2>3
<1>3. CASE LoadAborted(h)
  <2>1. /\ \/ expiredCh' = Append(expiredCh, h) /\ refMu' = [refMu EXCEPT ![h] = "free"]
           \/ UNCHANGED expiredCh /\ refMu' = [refMu EXCEPT ![h] = "other"]
        /\ UNCHANGED <<loaded, refCount, expireTimer, callbacks, resends, comp>>
    BY <1>3 DEF LoadAborted, mapVars
  <2>2. /\ ExpiredEventFor(h)' \/ ~Free(h)'
        /\ \A g : ExpiredEventFor(g) => ExpiredEventFor(g)'
    <3>1. CASE expiredCh' = Append(expiredCh, h)
      BY <1>0, <3>1, EventSent
    <3>2. CASE UNCHANGED expiredCh /\ refMu' = [refMu EXCEPT ![h] = "other"]
      BY <1>0, <3>2 DEF ExpiredEventFor, Free
    <3>3. QED
      BY <2>1, <3>1, <3>2
  <2>3. ExpiryOf(h)'
    BY <2>2 DEF ExpiryOf, NeedsExpiry, ExpiryInSight
  <2>4. ASSUME NEW g \in Runners, g # h PROVE Aloof(g)
    BY <1>0, <2>1, <2>2, <2>4 DEF Aloof, NeedsExpiry, IsLoaded, Free, ExpiredInHand
  <2>5. QED
    BY <1>1, <2>3, <2>4
<1>4. CASE TimerFires(h)
  <2>1. /\ callbacks' = [callbacks EXCEPT ![h] = @ + 1]
        /\ expireTimer' = [expireTimer EXCEPT ![h] = "fired"]
        /\ UNCHANGED <<loaded, refMu, refCount, resends, expiredCh, comp>>
    BY <1>4 DEF TimerFires, chanVars, mapVars
  <2>2. ExpiryOf(h)'
    BY <1>0, <2>1 DEF ExpiryOf, ExpiryInSight
  <2>3. ASSUME NEW g \in Runners, g # h PROVE Aloof(g)
    BY <1>0, <2>1, <2>3 DEF Aloof, NeedsExpiry, IsLoaded, Free, ExpiredEventFor, ExpiredInHand
  <2>4. QED
    BY <1>1, <2>2, <2>3
<1>5. CASE TimerCallback(h)
  <2>1. /\ callbacks' = [callbacks EXCEPT ![h] = @ - 1]
        /\ expireTimer' = [expireTimer EXCEPT ![h] = "nil"]
        /\ Emit(h, "other")
        /\ UNCHANGED <<loaded, refCount, resends, comp>>
    BY <1>5 DEF TimerCallback, mapVars
  <2>2. /\ ExpiredEventFor(h)' \/ ~Free(h)'
        /\ \A g : ExpiredEventFor(g) => ExpiredEventFor(g)'
        /\ \A g \in Runners : Free(g)' => Free(g)
    BY <1>0, <2>1, EmitLeaves
  <2>3. ExpiryOf(h)'
    BY <2>2 DEF ExpiryOf, NeedsExpiry, ExpiryInSight
  <2>4. ASSUME NEW g \in Runners, g # h PROVE Aloof(g)
    BY <1>0, <2>1, <2>2, <2>4 DEF Aloof, NeedsExpiry, IsLoaded, ExpiredInHand
  <2>5. QED
    BY <1>1, <2>3, <2>4
<1>6. CASE Resend(h) \/ SendUnblocks(h)
  <2>1. /\ expiredCh' = Append(expiredCh, h)
        /\ UNCHANGED resends \/ resends' = [resends EXCEPT ![h] = @ - 1]
        /\ UNCHANGED refMu \/ refMu' = [refMu EXCEPT ![h] = "free"]
        /\ UNCHANGED <<loaded, refCount, expireTimer, callbacks, comp>>
    BY <1>6 DEF Resend, SendUnblocks, mapVars
  <2>2. ExpiredEventFor(h)' /\ \A g : ExpiredEventFor(g) => ExpiredEventFor(g)'
    BY <1>0, <2>1, EventSent
  <2>3. ExpiryOf(h)'
    BY <2>2 DEF ExpiryOf, ExpiryInSight
  <2>4. ASSUME NEW g \in Runners, g # h PROVE Aloof(g)
    <3>1. resends'[g] = resends[g] /\ refMu'[g] = refMu[g]
      BY <1>0, <2>1, <2>4
    <3>2. QED
      BY <2>1, <2>2, <3>1 DEF Aloof, NeedsExpiry, IsLoaded, Free, ExpiredInHand
  <2>5. QED
    BY <1>1, <2>3, <2>4
<1>7. CASE StopOne(h)
  BY <1>0, <1>7, ExpireNowKeeps DEF StopOne, mapVars
<1>8. CASE EngineCrash(h)
  BY <1>8, KeepersKeep, AloofKeeps DEF EngineCrash, chanVars, mapVars, Keepers
<1>9. QED
  BY <1>2, <1>3, <1>4, <1>5, <1>6, <1>7, <1>8 DEF RunnerStep

LEMMA ExpiryKept ==
  ASSUME IInv, LoadedOnce, stale = {}, \A g \in Runners : ExpiryOf(g), [Next]_vars
  PROVE  \A g \in Runners : ExpiryOf(g)'
<1>0. TypeOK
  BY DEF IInv, Structure
<1>1. CASE UNCHANGED Keepers
  BY <1>1, KeepersKeep, AloofKeeps
<1>2. ASSUME NEW r \in Requests, GetRunner(r) PROVE \A g \in Runners : ExpiryOf(g)'
  <2>1. CASE FastUse(r)
    <3>1. seen[r] \in Runners /\ UseLoadedRunner(r, seen[r]) /\ UNCHANGED <<loaded, expiredCh, comp>>
      BY <1>0, <2>1 DEF FastUse, TypeOK, RequestsTyped, chanVars, mapVars
    <3>2. QED
      BY <3>1, UseKeeps
  <2>2. CASE LookUp(r) \/ FastCheck(r) \/ Enqueue(r) \/ ClientDone(r) \/ ClientCancel(r)
    BY <1>1, <2>2 DEF LookUp, FastCheck, Enqueue, ClientDone, ClientCancel, chanVars, runnerVars,
                      mapVars, Keepers
  <2>3. QED
    BY <1>2, <2>1, <2>2 DEF GetRunner
<1>3. CASE ProcessPending
  BY <1>3, PendingKeepsExpiry
<1>4. CASE ProcessCompleted
  BY <1>0, <1>4, CompletedKeepsExpiry
<1>5. CASE \E h \in Runners : RunnerStep(h)
  BY <1>5, RunnerKeepsExpiry
<1>6. CASE ExpireRunner \/ ExpireRunnersForRuntimeOOM
  BY <1>1, <1>6 DEF ExpireRunner, ExpireRunnersForRuntimeOOM, StopRunners, chanVars, mapVars,
                    Keepers
<1>7. CASE UNCHANGED vars
  BY <1>1, <1>7 DEF vars, chanVars, runnerVars, mapVars, Keepers
<1>8. QED
  BY <1>2, <1>3, <1>4, <1>5, <1>6, <1>7 DEF Next

\* A loaded runner nobody uses has something under way that will end it.
THEOREM KeepAliveInSight == Spec => []IdleHasExpiry
<1> DEFINE KInv == LoadedOnce /\ IdleHasExpiry
<1>1. Init => KInv
  <2> SUFFICES ASSUME Init PROVE KInv
    OBVIOUS
  <2>1. \A g \in Runners : ~IsLoaded(g) /\ ~Unloading(g)
    BY ConstantsAssumption DEF Init, IsLoaded, Unloading, Rest, Runners, ConstantsAssumption
  <2>2. QED
    BY <2>1 DEF LoadedOnce, IdleHasExpiry
<1>2. IdleHasExpiry <=> (stale = {} => \A g \in Runners : ExpiryOf(g))
  BY DEF IdleHasExpiry, ExpiryOf, NeedsExpiry
<1>3. IInv /\ KInv /\ [Next]_vars => KInv'
  <2> SUFFICES ASSUME IInv, KInv, [Next]_vars PROVE KInv'
    OBVIOUS
  <2>1. TypeOK /\ OnePlace /\ InHand /\ EnginesInMap
    BY DEF IInv, Structure
  <2>2. LoadedOnce'
    BY <2>1, LoadedOnceKept
  <2>3. ASSUME stale' = {} PROVE \A g \in Runners : ExpiryOf(g)'
    <3>1. stale = {}
      BY <2>1, <2>3, StaleGrows
    <3>2. QED
      BY <1>2, <3>1, ExpiryKept
  <2>4. QED
    BY <2>2, <2>3 DEF IdleHasExpiry, ExpiryOf, NeedsExpiry
<1>4. KInv => IdleHasExpiry
  OBVIOUS
<1> HIDE DEF KInv
<1>5. QED
  BY <1>1, <1>3, <1>4, InvariantHolds, PTL DEF Spec
=============================================================================
