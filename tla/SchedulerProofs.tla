--------------------------- MODULE SchedulerProofs ---------------------------
(* Machine-checked proofs about Scheduler, for every value of its constants: *)
(* types, and from SchedulerInv the map and the processes, one answer for    *)
(* each request, the engine kept for a retry, and the caps.                  *)
EXTENDS SchedulerInv, FiniteSetTheorems, SequenceTheorems, TLAPS

-----------------------------------------------------------------------------
(* Facts about the constants and the helpers.                              *)

LEMMA ModelOfType ==
  /\ \A r \in Requests : ModelOf[r] \in Models
  /\ NoRunner \notin Runners
BY ConstantsAssumption DEF ConstantsAssumption, Runners

LEMMA LockNames ==
  /\ {"free", "loading", "unloading"} \subseteq Locks
  /\ Senders = {"pending", "completed", "other"} /\ Senders \subseteq Locks
BY DEF Locks, Senders

LEMMA KeepAliveType ==
  /\ 0 \in Durations /\ DefaultKeepAlive \in Durations
  /\ \A r \in Requests : KeepAliveOf[r] # Unset => KeepAliveOf[r] \in Durations
BY ConstantsAssumption DEF ConstantsAssumption, Durations

LEMMA RefCountsPositive ==
  Cardinality(Requests) \in Nat /\ RefCounts \in Nat /\ RefCounts > Cardinality(Requests) + 1
BY FS_CardinalityType, ConstantsAssumption DEF ConstantsAssumption

\* uint arithmetic stays within the width of the type.
LEMMA RefCountRange ==
  ASSUME NEW c \in 0..(RefCounts - 1)
  PROVE  Incremented(c) \in 0..(RefCounts - 1) /\ Decremented(c) \in 0..(RefCounts - 1)
BY RefCountsPositive DEF Incremented, Decremented

\* Counters go up, and down from where they are positive.
LEMMA CountUp ==
  ASSUME NEW S, NEW f \in [S -> Nat], NEW x \in S
  PROVE  [f EXCEPT ![x] = @ + 1] \in [S -> Nat]
OBVIOUS

LEMMA CountDown ==
  ASSUME NEW S, NEW f \in [S -> Nat], NEW x \in S, f[x] > 0
  PROVE  [f EXCEPT ![x] = @ - 1] \in [S -> Nat]
OBVIOUS

LEMMA IdleType == Idle \in PendType /\ Idle.pc = "idle"
BY DEF Idle, PendType

LEMMA RestType == Rest \in CompType /\ Rest.pc = "idle"
BY DEF Rest, CompType

-----------------------------------------------------------------------------
(* Type correctness.  The parts of TypeOK depend on disjoint variables: a   *)
(* step disturbs two or three of them.                                     *)

\* A part whose variables stay stays.
LEMMA Untouched ==
  ASSUME TypeOK
  PROVE  /\ UNCHANGED requestVars => RequestsTyped'
         /\ UNCHANGED chanVars => ChannelsTyped'
         /\ UNCHANGED runnerVars => RunnersTyped'
         /\ UNCHANGED <<mapVars, budget>> => MapTyped'
         /\ UNCHANGED pend => PendTyped'
         /\ UNCHANGED comp => CompTyped'
<1>1. UNCHANGED requestVars => RequestsTyped'
  BY DEF TypeOK, RequestsTyped, requestVars
<1>2. UNCHANGED chanVars => ChannelsTyped'
  BY DEF TypeOK, ChannelsTyped, chanVars
<1>3. UNCHANGED runnerVars => RunnersTyped'
  BY DEF TypeOK, RunnersTyped, runnerVars
<1>4. UNCHANGED <<mapVars, budget>> => MapTyped'
  BY DEF TypeOK, MapTyped, mapVars
<1>5. UNCHANGED pend => PendTyped'
  BY DEF TypeOK, PendTyped, PendBusy
<1>6. UNCHANGED comp => CompTyped'
  BY DEF TypeOK, CompTyped, CompBusy
<1>7. QED
  BY <1>1, <1>2, <1>3, <1>4, <1>5, <1>6

\* A step of the pending loop that only moves.
LEMMA OnlyPendTyped ==
  ASSUME TypeOK, OnlyPend, PendTyped'
  PROVE  TypeOK'
<1>1. UNCHANGED <<requestVars, chanVars, runnerVars, mapVars, comp, budget>>
  BY DEF OnlyPend, Pass, NoAnswer, NoTouch, requestVars, runnerVars
<1>2. QED
  BY <1>1, Untouched DEF TypeOK

\* A goroutine that sends on expiredCh leaves its variables well typed.
LEMMA EmitType ==
  ASSUME TypeOK, NEW g \in Runners, NEW who \in Senders, Emit(g, who)
  PROVE  refMu' \in [Runners -> Locks] /\ expiredCh' \in Seq(Runners)
<1>1. refMu \in [Runners -> Locks] /\ expiredCh \in Seq(Runners) /\ who \in Locks
  BY LockNames DEF TypeOK, RunnersTyped, ChannelsTyped
<1>2. CASE Len(expiredCh) < MaxQueue
  <2>1. refMu' = refMu /\ expiredCh' = Append(expiredCh, g)
    BY <1>2 DEF Emit
  <2>2. QED
    BY <1>1, <2>1, AppendProperties
<1>3. CASE ~(Len(expiredCh) < MaxQueue)
  <2>1. refMu' = [refMu EXCEPT ![g] = who] /\ expiredCh' = expiredCh
    BY <1>3 DEF Emit
  <2>2. QED
    BY <1>1, <2>1
<1>4. QED
  BY <1>2, <1>3

LEMMA ExpireNowType ==
  ASSUME TypeOK, NEW g \in Runners, NEW who \in Senders, ExpireNow(g, who)
  PROVE  /\ refMu' \in [Runners -> Locks]
         /\ expiredCh' \in Seq(Runners)
         /\ expireTimer' \in [Runners -> {"nil", "armed", "fired"}]
         /\ sessionDuration' \in [Runners -> Durations]
<1>1. /\ expireTimer' \in [Runners -> {"nil", "armed", "fired"}]
      /\ sessionDuration' \in [Runners -> Durations]
  BY KeepAliveType DEF ExpireNow, TypeOK, RunnersTyped
<1>2. CASE refCount[g] = 0
  BY <1>1, <1>2, EmitType DEF ExpireNow
<1>3. CASE refCount[g] # 0
  BY <1>1, <1>3 DEF ExpireNow, TypeOK, RunnersTyped, ChannelsTyped
<1>4. QED
  BY <1>2, <1>3

LEMMA UseLoadedRunnerType ==
  ASSUME TypeOK, NEW r \in Requests, NEW g \in Runners, UseLoadedRunner(r, g)
  PROVE  /\ RunnersTyped'
         /\ grant' \in [Requests -> Runners \cup {NoRunner}]
         /\ answers' \in [Requests -> Nat] /\ stale' \subseteq Requests
<1>1. /\ grant' \in [Requests -> Runners \cup {NoRunner}]
      /\ answers' \in [Requests -> Nat] /\ stale' \subseteq Requests
  BY CountUp DEF UseLoadedRunner, TypeOK, RequestsTyped
<1>2. refCount' \in [Runners -> 0..(RefCounts - 1)]
  BY RefCountRange DEF UseLoadedRunner, TypeOK, RunnersTyped
<1>3. sessionDuration' \in [Runners -> Durations]
  BY KeepAliveType DEF UseLoadedRunner, TypeOK, RunnersTyped
<1>4. QED
  BY <1>1, <1>2, <1>3 DEF UseLoadedRunner, TypeOK, RunnersTyped

LEMMA GetRunnerTyped ==
  ASSUME TypeOK, NEW r \in Requests, GetRunner(r)
  PROVE  TypeOK'
<1> USE DEF TypeOK
<1>1. CASE LookUp(r)
  <2>1. RequestsTyped'
    BY <1>1, ModelOfType DEF LookUp, GoTo, RequestsTyped, MapTyped
  <2>2. QED
    BY <1>1, <2>1, Untouched DEF LookUp
<1>2. CASE FastCheck(r)
  <2>1. RequestsTyped'
    BY <1>2 DEF FastCheck, GoTo, RequestsTyped
  <2>2. QED
    BY <1>2, <2>1, Untouched DEF FastCheck
<1>3. CASE FastUse(r)
  <2>1. seen[r] \in Runners
    BY <1>3 DEF FastUse, RequestsTyped
  <2>2. RunnersTyped' /\ RequestsTyped'
    BY <1>3, <2>1, UseLoadedRunnerType DEF FastUse, GoTo, RequestsTyped
  <2>3. QED
    BY <1>3, <2>2, Untouched DEF FastUse
<1>4. CASE Enqueue(r)
  <2>1. answers' \in [Requests -> Nat]
    <3>1. UNCHANGED answers \/ answers' = [answers EXCEPT ![r] = @ + 1]
      BY <1>4 DEF Enqueue
    <3>2. answers \in [Requests -> Nat]
      BY DEF RequestsTyped
    <3>3. QED
      BY <3>1, <3>2, CountUp
  <2>2. RequestsTyped'
    BY <1>4, <2>1 DEF Enqueue, GoTo, RequestsTyped
  <2>3. pendingReqCh' \in Seq(Requests)
    BY <1>4, AppendProperties DEF Enqueue, ChannelsTyped
  <2>4. ChannelsTyped'
    BY <1>4, <2>3 DEF Enqueue, ChannelsTyped
  <2>5. QED
    BY <1>4, <2>2, <2>4, Untouched DEF Enqueue
<1>5. CASE ClientDone(r)
  <2>1. RequestsTyped'
    BY <1>5 DEF ClientDone, RequestsTyped, answerVars
  <2>2. QED
    BY <1>5, <2>1, Untouched DEF ClientDone
<1>6. CASE ClientCancel(r)
  <2>1. RequestsTyped'
    BY <1>6 DEF ClientCancel, RequestsTyped, answerVars
  <2>2. QED
    BY <1>6, <2>1, Untouched DEF ClientCancel
<1>7. QED
  BY <1>1, <1>2, <1>3, <1>4, <1>5, <1>6 DEF GetRunner

\* The runners of a set of keys are runners.
LEMMA LoadedRunnersType ==
  ASSUME TypeOK, NEW S \in SUBSET Models
  PROVE  LoadedRunners(S) \in SUBSET Runners
BY DEF LoadedRunners, Keys, TypeOK, MapTyped

LEMMA SortedType ==
  ASSUME NEW S \in SUBSET Runners, S # {}, NEW s \in Sorted(S)
  PROVE  s \in Seq(Runners) /\ s # <<>> /\ s[1] \in S
<1>1. IsFiniteSet(S) /\ Cardinality(S) \in Nat /\ Cardinality(S) # 0
  BY ConstantsAssumption, FS_Subset, FS_CardinalityType, FS_EmptySet DEF ConstantsAssumption, Runners
<1>2. s \in [1..Cardinality(S) -> S]
  BY DEF Sorted
<1>3. s \in Seq(S)
  BY <1>1, <1>2, SeqDef
<1>4. QED
  BY <1>1, <1>2, <1>3, SeqMonotonic

LEMMA PickAmongTyped ==
  ASSUME TypeOK, pend.pc # "idle", NEW S \in SUBSET Runners, PickAmong(S)
  PROVE  PendTyped'
<1>1. pend \in PendType /\ pend.req \in Requests
  BY DEF TypeOK, PendTyped, PendBusy
<1>2. CASE S = {}
  <2>1. pend' = [pend EXCEPT !.pc = "look"]
    BY <1>2 DEF PickAmong
  <2>2. QED
    BY <1>1, <2>1 DEF PendTyped, PendType, PendBusy
<1>3. CASE S # {}
  <2>1. PICK s \in Sorted(S) : pend' = [pend EXCEPT !.pc = "scan", !.scan = s, !.run = s[1]]
    BY <1>3 DEF PickAmong
  <2>2. s \in Seq(Runners) /\ s # <<>> /\ s[1] \in Runners
    BY <1>3, SortedType
  <2>3. QED
    BY <1>1, <2>1, <2>2 DEF PendTyped, PendType, PendBusy
<1>4. QED
  BY <1>2, <1>3

LEMMA NeedEvictTyped ==
  ASSUME TypeOK, pend.pc # "idle", NEW b \in BOOLEAN, pend' = NeedEvict(b)
  PROVE  PendTyped'
<1>1. pend \in PendType /\ pend.req \in Requests
  BY DEF TypeOK, PendTyped, PendBusy
<1>2. QED
  BY <1>1 DEF NeedEvict, PendTyped, PendType, PendBusy

LEMMA IdleTyped ==
  ASSUME pend' = Idle
  PROVE  PendTyped'
BY IdleType DEF PendTyped, PendBusy, Idle

\* The steps that choose a runner to evict.
LEMMA ChoiceTyped ==
  ASSUME TypeOK, Look \/ PendingCheck \/ Caps \/ PickShared \/ PickOn \/ Scan
  PROVE  TypeOK'
<1> USE DEF TypeOK
<1>1. pend \in PendType /\ PendBusy
  BY DEF PendTyped
<1>2. CASE Look
  <2>1. pend.req \in Requests
    BY <1>1, <1>2 DEF Look, At, PendBusy
  <2>2. loaded[ModelOf[pend.req]] \in Runners \cup {NoRunner}
    BY <2>1, ModelOfType DEF MapTyped
  <2>3. PendTyped'
    BY <1>1, <1>2, <2>1, <2>2 DEF Look, PendTyped, PendType, PendBusy
  <2>4. QED
    BY <1>2, <2>3, OnlyPendTyped DEF Look
<1>3. CASE PendingCheck
  <2>1. pend.req \in Requests /\ pend.run \in Runners
    BY <1>1, <1>3 DEF PendingCheck, At, PendBusy
  <2>2. PendTyped'
    BY <1>1, <1>3, <2>1 DEF PendingCheck, PendTyped, PendType, PendBusy
  <2>3. QED
    BY <1>3, <2>2, OnlyPendTyped DEF PendingCheck
<1>4. CASE Caps
  <2>1. pend.pc # "idle" /\ pend.req \in Requests
    BY <1>1, <1>4 DEF Caps, At, PendBusy
  <2>2. \A k \in Kinds : LoadedRunners(OfKind(k)) \in SUBSET Runners
    BY LoadedRunnersType DEF OfKind
  <2>3. KindsOf[ModelOf[pend.req]] \subseteq Kinds
    BY <2>1, ModelOfType, ConstantsAssumption DEF ConstantsAssumption
  <2>4. LoadedRunners(Models) \in SUBSET Runners
    BY LoadedRunnersType
  <2>5. \/ \E k \in Kinds : PickAmong(LoadedRunners(OfKind(k)))
        \/ pend' = [pend EXCEPT !.pc = "pickShared"]
        \/ pend' = [pend EXCEPT !.pc = "visit", !.rest = LoadedRunners(Models)]
    BY <1>4, <2>3 DEF Caps
  <2>6. PendTyped'
    <3>1. CASE \E k \in Kinds : PickAmong(LoadedRunners(OfKind(k)))
      <4>1. PICK k \in Kinds : PickAmong(LoadedRunners(OfKind(k)))
        BY <3>1
      <4>2. QED
        BY <2>1, <2>2, <4>1, PickAmongTyped
    <3>2. CASE pend' = [pend EXCEPT !.pc = "pickShared"]
      BY <1>1, <2>1, <3>2 DEF PendTyped, PendType, PendBusy
    <3>3. CASE pend' = [pend EXCEPT !.pc = "visit", !.rest = LoadedRunners(Models)]
      BY <1>1, <2>1, <2>4, <3>3 DEF PendTyped, PendType, PendBusy
    <3>4. QED
      BY <2>5, <3>1, <3>2, <3>3
  <2>7. QED
    BY <1>4, <2>6, OnlyPendTyped DEF Caps
<1>5. CASE PickShared
  <2>1. pend.pc # "idle" /\ LoadedRunners(SharedPool) \in SUBSET Runners
    BY <1>5, LoadedRunnersType DEF PickShared, At, SharedPool
  <2>2. QED
    BY <1>5, <2>1, PickAmongTyped, OnlyPendTyped DEF PickShared
<1>6. CASE PickOn
  <2>1. pend.pc # "idle" /\ LoadedRunners(Models) \in SUBSET Runners
    BY <1>6, LoadedRunnersType DEF PickOn, At
  <2>2. \E S \in SUBSET Runners : PickAmong(S)
    BY <1>6, <2>1 DEF PickOn
  <2>3. QED
    BY <1>6, <2>1, <2>2, PickAmongTyped, OnlyPendTyped DEF PickOn
<1>7. CASE Scan
  <2>1. pend.req \in Requests /\ pend.scan \in Seq(Runners) /\ pend.scan # <<>>
    BY <1>1, <1>7 DEF Scan, At, PendBusy, PendType
  <2>2. Head(pend.scan) \in Runners /\ Tail(pend.scan) \in Seq(Runners)
    BY <2>1, HeadTailProperties
  <2>3. <<>> \in Seq(Runners) /\ pend.run \in Runners
    BY <1>1, <1>7 DEF Scan, At, PendBusy
  <2>4. PendTyped'
    <3>1. CASE refCount[Head(pend.scan)] = 0
      <4>1. pend' = [pend EXCEPT !.pc = "expire", !.run = Head(pend.scan), !.scan = <<>>]
        BY <1>7, <3>1 DEF Scan
      <4>2. pend' \in PendType
        BY <1>1, <2>2, <2>3, <4>1 DEF PendType
      <4>3. pend'.pc = "expire" /\ pend'.req = pend.req /\ pend'.run = Head(pend.scan)
        BY <1>1, <4>1 DEF PendType
      <4>4. QED
        BY <2>1, <2>2, <4>2, <4>3 DEF PendTyped, PendBusy
    <3>2. CASE refCount[Head(pend.scan)] # 0
      <4>1. pend' = [pend EXCEPT !.pc = IF Tail(pend.scan) = <<>> THEN "expire" ELSE "scan",
                                 !.scan = Tail(pend.scan)]
        BY <1>7, <3>2 DEF Scan
      <4>2. pend' \in PendType
        BY <1>1, <2>2, <4>1 DEF PendType
      <4>3. /\ pend'.pc = IF Tail(pend.scan) = <<>> THEN "expire" ELSE "scan"
            /\ pend'.req = pend.req /\ pend'.run = pend.run /\ pend'.scan = Tail(pend.scan)
        BY <1>1, <4>1 DEF PendType
      <4>4. QED
        BY <2>1, <2>3, <4>2, <4>3 DEF PendTyped, PendBusy
    <3>3. QED
      BY <3>1, <3>2
  <2>5. QED
    BY <1>7, <2>4, OnlyPendTyped DEF Scan
<1>8. QED
  BY <1>2, <1>3, <1>4, <1>5, <1>6, <1>7

\* The steps that take, use, place or load.
LEMMA LoadTyped ==
  ASSUME TypeOK,
         TakePending \/ DrainUnloaded \/ PendingUse \/ Visit \/ Placed \/ Create
           \/ LoadSucceeds \/ LoadRequiresFull \/ LoadFails
  PROVE  TypeOK'
<1> USE DEF TypeOK
<1>1. pend \in PendType /\ PendBusy
  BY DEF PendTyped
<1>2. CASE TakePending
  <2>1. Head(pendingReqCh) \in Requests /\ Tail(pendingReqCh) \in Seq(Requests)
    BY <1>2, HeadTailProperties DEF TakePending, ChannelsTyped
  <2>2. ChannelsTyped'
    BY <1>2, <2>1 DEF TakePending, ChannelsTyped
  <2>3. PendTyped'
    <3>1. CASE Head(pendingReqCh) \in ctxDone
      BY <1>2, <3>1, Untouched DEF TakePending
    <3>2. CASE Head(pendingReqCh) \notin ctxDone
      BY <1>1, <1>2, <2>1, <3>2 DEF TakePending, PendTyped, PendType, PendBusy
    <3>3. QED
      BY <3>1, <3>2
  <2>4. QED
    BY <1>2, <2>2, <2>3, Untouched
       DEF TakePending, Pass, NoAnswer, NoTouch, requestVars, runnerVars
<1>3. CASE DrainUnloaded
  <2>1. ChannelsTyped'
    BY <1>3 DEF DrainUnloaded, ChannelsTyped
  <2>2. QED
    BY <1>3, <2>1, Untouched DEF DrainUnloaded, Pass, NoAnswer, NoTouch, requestVars, runnerVars
<1>4. CASE PendingUse
  <2>1. pend.req \in Requests /\ pend.run \in Runners
    BY <1>1, <1>4 DEF PendingUse, At, PendBusy
  <2>2. RunnersTyped' /\ RequestsTyped'
    BY <1>4, <2>1, UseLoadedRunnerType DEF PendingUse, RequestsTyped
  <2>3. PendTyped'
    BY <1>4, IdleTyped DEF PendingUse
  <2>4. QED
    BY <1>4, <2>2, <2>3, Untouched DEF PendingUse
<1>5. CASE Visit
  <2>1. PendTyped'
    BY <1>1, <1>5 DEF Visit, At, PendTyped, PendType, PendBusy
  <2>2. QED
    BY <1>5, <2>1, OnlyPendTyped DEF Visit
<1>6. CASE Placed
  <2>1. pend.req \in Requests
    BY <1>1, <1>6 DEF Placed, At, PendBusy
  <2>2. maxRunners' \in Nat
    BY <1>6, ConstantsAssumption DEF Placed, MapTyped, ConstantsAssumption
  <2>3. MapTyped'
    BY <1>6, <2>2 DEF Placed, Pass, MapTyped
  <2>4. answers' \in [Requests -> Nat]
    BY <1>6, <2>1, CountUp DEF Placed, SendErr, RequestsTyped
  <2>5. RequestsTyped'
    BY <1>6, <2>4 DEF Placed, Pass, RequestsTyped
  <2>6. PendTyped'
    <3>1. CASE pend' = [pend EXCEPT !.pc = "create"]
      BY <1>1, <2>1, <3>1 DEF PendTyped, PendType, PendBusy
    <3>2. QED
      BY <1>6, <3>1, IdleTyped DEF Placed
  <2>7. QED
    BY <1>6, <2>3, <2>5, <2>6, Untouched DEF Placed, Pass, NoTouch, runnerVars
<1>7. CASE Create
  <2>1. pend.req \in Requests /\ pend.pc # "idle"
    BY <1>1, <1>7 DEF Create, At, PendBusy
  <2>2. activeLoading' \in Requests \cup {NoRunner}
    BY <1>7, <2>1 DEF Create, MapTyped
  <2>3. MapTyped'
    BY <1>7, <2>2 DEF Create, Pass, MapTyped
  <2>4. answers' \in [Requests -> Nat]
    BY <1>7, <2>1, CountUp DEF Create, SendErr, RequestsTyped
  <2>5. RequestsTyped'
    BY <1>7, <2>4 DEF Create, Pass, RequestsTyped
  <2>6. PendTyped'
    <3>1. pend.oomRetry \in BOOLEAN
      BY <1>1 DEF PendType
    <3>2. CASE \E label \in {"load", "panic"} : pend' = [pend EXCEPT !.pc = label]
      BY <1>1, <2>1, <3>2 DEF PendTyped, PendType, PendBusy
    <3>3. CASE pend' = NeedEvict(pend.oomRetry)
      BY <2>1, <3>1, <3>3, NeedEvictTyped
    <3>4. QED
      BY <1>7, <3>2, <3>3, IdleTyped DEF Create
  <2>7. QED
    BY <1>7, <2>3, <2>5, <2>6, Untouched DEF Create, Pass, NoTouch, runnerVars
<1>8. CASE LoadSucceeds
  <2>1. pend.req \in Requests /\ pend.req \in Runners /\ ModelOf[pend.req] \in Models
    BY <1>1, <1>8, ModelOfType DEF LoadSucceeds, At, PendBusy, Runners
  <2>2. MapTyped'
    BY <1>8, <2>1 DEF LoadSucceeds, Pass, MapTyped
  <2>3. /\ refMu' \in [Runners -> Locks] /\ refCount' \in [Runners -> 0..(RefCounts - 1)]
        /\ sessionDuration' \in [Runners -> Durations]
    <3>1. "loading" \in Locks /\ 0 \in 0..(RefCounts - 1)
      BY LockNames, RefCountsPositive
    <3>2. QED
      BY <1>8, <2>1, <3>1, KeepAliveType DEF LoadSucceeds, RunnersTyped
  <2>4. /\ expireTimer' \in [Runners -> {"nil", "armed", "fired"}]
        /\ engine' \in [Runners -> {"none", "up", "exited", "closed"}]
    BY <1>8 DEF LoadSucceeds, RunnersTyped
  <2>5. RunnersTyped'
    BY <1>8, <2>3, <2>4 DEF LoadSucceeds, Pass, RunnersTyped
  <2>6. PendTyped'
    BY <1>8, IdleTyped DEF LoadSucceeds
  <2>7. QED
    BY <1>8, <2>2, <2>5, <2>6, Untouched DEF LoadSucceeds, Pass, NoAnswer, requestVars
<1>9. CASE LoadRequiresFull
  <2>1. pend.pc # "idle" /\ pend.oomRetry \in BOOLEAN
    BY <1>1, <1>9 DEF LoadRequiresFull, At, PendType
  <2>2. QED
    BY <1>9, <2>1, NeedEvictTyped, OnlyPendTyped DEF LoadRequiresFull
<1>10. CASE LoadFails
  <2>1. pend.req \in Requests /\ pend.pc # "idle"
    BY <1>1, <1>10 DEF LoadFails, At, PendBusy
  <2>2. MapTyped'
    BY <1>10 DEF LoadFails, Pass, MapTyped
  <2>3. answers' \in [Requests -> Nat]
    <3>1. answers \in [Requests -> Nat]
      BY DEF RequestsTyped
    <3>2. UNCHANGED answers \/ SendErr(pend.req)
      BY <1>10 DEF LoadFails
    <3>3. QED
      BY <2>1, <3>1, <3>2, CountUp DEF SendErr
  <2>4. RequestsTyped'
    BY <1>10, <2>3 DEF LoadFails, Pass, RequestsTyped
  <2>5. PendTyped'
    BY <1>10, <2>1, NeedEvictTyped, IdleTyped DEF LoadFails
  <2>6. QED
    BY <1>10, <2>2, <2>4, <2>5, Untouched DEF LoadFails, Pass, NoTouch, runnerVars
<1>11. QED
  BY <1>2, <1>3, <1>4, <1>5, <1>6, <1>7, <1>8, <1>9, <1>10

\* The steps that expire runners and wait.
LEMMA EvictTyped ==
  ASSUME TypeOK, ExpireVictim \/ EvictAll \/ EvictOne \/ Wake
  PROVE  TypeOK'
<1> USE DEF TypeOK
<1>1. pend \in PendType /\ PendBusy /\ "pending" \in Senders
  BY LockNames DEF PendTyped
<1>2. CASE ExpireVictim
  <2>1. pend.req \in Requests /\ pend.run \in Runners
    BY <1>1, <1>2 DEF ExpireVictim, At, PendBusy
  <2>2. ExpireNow(pend.run, "pending")
    BY <1>2 DEF ExpireVictim
  <2>3. RunnersTyped' /\ ChannelsTyped'
    BY <1>1, <1>2, <2>1, <2>2, ExpireNowType DEF ExpireVictim, Pass, RunnersTyped, ChannelsTyped
  <2>4. pend' = [pend EXCEPT !.pc = "wait", !.targets = {pend.run}, !.waits = 1]
    BY <1>2 DEF ExpireVictim
  <2>5. pend' \in PendType
    BY <1>1, <2>1, <2>4 DEF PendType
  <2>6. pend'.pc = "wait" /\ pend'.req = pend.req /\ pend'.waits = 1
    BY <1>1, <2>4 DEF PendType
  <2>7. PendTyped'
    BY <2>1, <2>5, <2>6 DEF PendTyped, PendBusy
  <2>8. QED
    BY <1>2, <2>3, <2>7, Untouched DEF ExpireVictim, Pass, NoAnswer, requestVars
<1>3. CASE EvictAll
  <2>1. pend.req \in Requests
    BY <1>1, <1>3 DEF EvictAll, At, PendBusy
  <2> DEFINE others == LoadedRunners(Models \ {ModelOf[pend.req]})
  <2>2. others \in SUBSET Runners /\ Cardinality(others) \in Nat
    BY LoadedRunnersType, ConstantsAssumption, FS_Subset, FS_CardinalityType
       DEF ConstantsAssumption, Runners
  <2>3. others # {} => Cardinality(others) > 0
    <3>1. IsFiniteSet(others)
      BY <2>2, ConstantsAssumption, FS_Subset DEF ConstantsAssumption, Runners
    <3>2. others # {} => Cardinality(others) # 0
      BY <3>1, FS_EmptySet
    <3> HIDE DEF others
    <3>3. QED
      BY <2>2, <3>2
  <2>4. pend' = IF others = {} THEN [pend EXCEPT !.pc = "look"]
                ELSE [pend EXCEPT !.pc = "evict", !.rest = others, !.targets = others,
                                  !.waits = Cardinality(others)]
    BY <1>3 DEF EvictAll
  <2> HIDE DEF others
  <2>5. PendTyped'
    BY <1>1, <2>1, <2>2, <2>3, <2>4 DEF PendTyped, PendType, PendBusy
  <2>6. QED
    BY <1>3, <2>5, OnlyPendTyped DEF EvictAll
<1>4. CASE EvictOne
  <2>1. pend.req \in Requests
    BY <1>1, <1>4 DEF EvictOne, At, PendBusy
  <2>2. PICK g \in pend.rest :
          /\ ExpireNow(g, "pending")
          /\ pend' = [pend EXCEPT !.rest = @ \ {g},
                                  !.pc = IF pend.rest = {g} THEN "waitAll" ELSE "evict"]
    BY <1>4 DEF EvictOne
  <2>3. g \in Runners
    BY <1>1 DEF PendType
  <2>4. RunnersTyped' /\ ChannelsTyped'
    BY <1>1, <1>4, <2>2, <2>3, ExpireNowType DEF EvictOne, Pass, RunnersTyped, ChannelsTyped
  <2>5. PendTyped'
    <3>1. pend.waits > 0
      BY <1>1, <1>4 DEF EvictOne, At, PendBusy
    <3>2. QED
      BY <1>1, <2>1, <2>2, <3>1 DEF PendTyped, PendType, PendBusy
  <2>6. QED
    BY <1>4, <2>4, <2>5, Untouched DEF EvictOne, Pass, NoAnswer, requestVars
<1>5. CASE Wake
  <2>1. pend.req \in Requests
    BY <1>1, <1>5 DEF Wake, At, PendBusy
  <2>2. ChannelsTyped'
    BY <1>5 DEF Wake, ChannelsTyped
  <2>3. PendTyped'
    <3>1. CASE pend' = [pend EXCEPT !.pc = "look", !.waits = 0, !.targets = {}]
      BY <1>1, <2>1, <3>1 DEF PendTyped, PendType, PendBusy
    <3>2. CASE pend.waits # 1 /\ pend' = [pend EXCEPT !.waits = @ - 1]
      <4>1. pend.waits \in Nat /\ pend.waits > 0
        BY <1>1, <1>5 DEF Wake, At, PendType, PendBusy
      <4>2. pend.waits - 1 \in Nat /\ pend.waits - 1 > 0
        BY <3>2, <4>1
      <4>3. QED
        BY <1>1, <2>1, <3>2, <4>2 DEF PendTyped, PendType, PendBusy
    <3>3. QED
      BY <1>5, <3>1, <3>2 DEF Wake
  <2>4. QED
    BY <1>5, <2>2, <2>3, Untouched DEF Wake, Pass, NoAnswer, NoTouch, requestVars, runnerVars
<1>6. QED
  BY <1>2, <1>3, <1>4, <1>5

LEMMA ProcessCompletedTyped ==
  ASSUME TypeOK, ProcessCompleted
  PROVE  TypeOK'
<1> USE DEF TypeOK
<1>1. /\ comp \in CompType /\ CompBusy /\ "completed" \in Senders
      /\ \A m \in Models : loaded[m] \in Runners \cup {NoRunner}
  BY LockNames DEF CompTyped, MapTyped
<1>2. CASE \E r \in Requests : TakeFinished(r)
  <2>1. PICK r \in Requests : TakeFinished(r)
    BY <1>2
  <2>2. RequestsTyped'
    BY <2>1 DEF TakeFinished, RequestsTyped, answerVars
  <2>3. loaded[ModelOf[r]] \in Runners \cup {NoRunner}
    BY <1>1, ModelOfType
  <2>4. \/ UNCHANGED comp
        \/ /\ loaded[ModelOf[r]] # NoRunner
           /\ comp' = [pc |-> "finish", run |-> loaded[ModelOf[r]], req |-> r]
    BY <2>1 DEF TakeFinished
  <2>5. CompTyped'
    BY <1>1, <2>3, <2>4 DEF CompTyped, CompType, CompBusy
  <2>6. QED
    BY <2>1, <2>2, <2>5, Untouched DEF TakeFinished
<1>3. CASE Finish
  <2>1. comp.run \in Runners /\ comp.req \in Requests
    BY <1>1, <1>3 DEF Finish, CompAt, CompBusy
  <2>2. RequestsTyped'
    BY <1>3, <2>1 DEF Finish, RequestsTyped, answerVars
  <2>3. refMu' \in [Runners -> Locks] /\ expiredCh' \in Seq(Runners)
    <3>1. Emit(comp.run, "completed") \/ UNCHANGED <<refMu, expiredCh>>
      BY <1>3 DEF Finish
    <3>2. QED
      BY <1>1, <2>1, <3>1, EmitType DEF RunnersTyped, ChannelsTyped
  <2>4. refCount' \in [Runners -> 0..(RefCounts - 1)]
    <3>1. refCount' = [refCount EXCEPT ![comp.run] = Decremented(@)]
      BY <1>3 DEF Finish
    <3>2. QED
      BY <2>1, <3>1, RefCountRange DEF RunnersTyped
  <2>5. sessionDuration' \in [Runners -> Durations]
    <3>1. sessionDuration' \in {sessionDuration, [sessionDuration EXCEPT ![comp.run] = 0]}
      BY <1>3 DEF Finish
    <3>2. QED
      BY <2>1, <3>1, KeepAliveType DEF RunnersTyped
  <2>6. expireTimer' \in [Runners -> {"nil", "armed", "fired"}]
    <3>1. expireTimer' \in {expireTimer, [expireTimer EXCEPT ![comp.run] = "nil"],
                            [expireTimer EXCEPT ![comp.run] = "armed"]}
      BY <1>3 DEF Finish
    <3>2. QED
      BY <2>1, <3>1 DEF RunnersTyped
  <2>7. RunnersTyped' /\ ChannelsTyped'
    BY <1>3, <2>3, <2>4, <2>5, <2>6 DEF Finish, RunnersTyped, ChannelsTyped
  <2>8. CompTyped'
    BY <1>3, RestType DEF Finish, CompTyped, CompBusy
  <2>9. QED
    BY <1>3, <2>2, <2>7, <2>8, Untouched DEF Finish
<1>4. CASE TakeExpired
  <2>1. Head(expiredCh) \in Runners /\ Tail(expiredCh) \in Seq(Runners)
    BY <1>4, HeadTailProperties DEF TakeExpired, ChannelsTyped
  <2>2. ChannelsTyped'
    BY <1>4, <2>1 DEF TakeExpired, ChannelsTyped
  <2>3. CompTyped'
    BY <1>4, <2>1 DEF TakeExpired, CompTyped, CompType, CompBusy, Rest
  <2>4. QED
    BY <1>4, <2>2, <2>3, Untouched DEF TakeExpired
<1>5. CASE ExpiredIgnored
  <2>1. comp.run \in Runners
    BY <1>1, <1>5 DEF ExpiredIgnored, CompAt, CompBusy
  <2>2. resends' \in [Runners -> Nat]
    <3>1. UNCHANGED resends \/ resends' = [resends EXCEPT ![comp.run] = @ + 1]
      BY <1>5 DEF ExpiredIgnored
    <3>2. QED
      BY <2>1, <3>1, CountUp DEF RunnersTyped
  <2>3. /\ expireTimer' \in [Runners -> {"nil", "armed", "fired"}]
        /\ engine' \in [Runners -> {"none", "up", "exited", "closed"}]
    BY <1>5, <2>1 DEF ExpiredIgnored, RunnersTyped
  <2>4. RunnersTyped'
    BY <1>5, <2>2, <2>3 DEF ExpiredIgnored, RunnersTyped
  <2>5. CompTyped'
    BY <1>5, RestType DEF ExpiredIgnored, CompTyped, CompBusy
  <2>6. QED
    BY <1>5, <2>4, <2>5, Untouched DEF ExpiredIgnored
<1>6. CASE Unload
  <2>1. comp.run \in Runners /\ "unloading" \in Locks
    BY <1>1, <1>6, LockNames DEF Unload, CompAt, CompBusy
  <2>2. RunnersTyped'
    BY <1>6, <2>1 DEF Unload, RunnersTyped
  <2>3. MapTyped'
    BY <1>6 DEF Unload, MapTyped
  <2>4. CompTyped'
    BY <1>1, <1>6, <2>1 DEF Unload, CompTyped, CompType, CompBusy
  <2>5. QED
    BY <1>6, <2>2, <2>3, <2>4, Untouched DEF Unload
<1>7. CASE Recovered
  <2>1. comp.run \in Runners /\ "free" \in Locks
    BY <1>1, <1>7, LockNames DEF Recovered, CompAt, CompBusy
  <2>2. RunnersTyped'
    BY <1>7, <2>1 DEF Recovered, RunnersTyped
  <2>3. CompTyped'
    BY <1>1, <1>7, <2>1 DEF Recovered, CompTyped, CompType, CompBusy
  <2>4. QED
    BY <1>7, <2>2, <2>3, Untouched DEF Recovered
<1>8. CASE Announce
  <2>1. ChannelsTyped'
    BY <1>8 DEF Announce, ChannelsTyped
  <2>2. CompTyped'
    BY <1>8, RestType DEF Announce, CompTyped, CompBusy
  <2>3. QED
    BY <1>8, <2>1, <2>2, Untouched DEF Announce
<1>9. QED
  BY <1>2, <1>3, <1>4, <1>5, <1>6, <1>7, <1>8 DEF ProcessCompleted

LEMMA RunnerStepTyped ==
  ASSUME TypeOK, NEW g \in Runners, RunnerStep(g)
  PROVE  TypeOK'
<1> USE DEF TypeOK
<1>1. "free" \in Locks /\ "other" \in Locks /\ "other" \in Senders
  BY LockNames
<1>2. CASE LoadRunning(g)
  <2>1. RequestsTyped'
    BY <1>2, CountUp DEF LoadRunning, Runners, RequestsTyped
  <2>2. refCount' \in [Runners -> 0..(RefCounts - 1)]
    BY <1>2, RefCountRange DEF LoadRunning, RunnersTyped
  <2>3. RunnersTyped'
    BY <1>1, <1>2, <2>2 DEF LoadRunning, RunnersTyped
  <2>4. QED
    BY <1>2, <2>1, <2>3, Untouched DEF LoadRunning
<1>3. CASE LoadAborted(g)
  <2>1. RequestsTyped'
    BY <1>3, CountUp DEF LoadAborted, SendErr, Runners, RequestsTyped
  <2>2. RunnersTyped'
    BY <1>1, <1>3 DEF LoadAborted, RunnersTyped
  <2>3. UNCHANGED expiredCh \/ expiredCh' = Append(expiredCh, g)
    BY <1>3 DEF LoadAborted
  <2>4. ChannelsTyped'
    BY <1>3, <2>3, AppendProperties DEF LoadAborted, ChannelsTyped
  <2>5. QED
    BY <1>3, <2>1, <2>2, <2>4, Untouched DEF LoadAborted
<1>4. CASE TimerFires(g)
  <2>1. RunnersTyped'
    BY <1>4, CountUp DEF TimerFires, RunnersTyped
  <2>2. QED
    BY <1>4, <2>1, Untouched DEF TimerFires
<1>5. CASE TimerCallback(g)
  <2>1. refMu' \in [Runners -> Locks] /\ expiredCh' \in Seq(Runners)
    BY <1>1, <1>5, EmitType DEF TimerCallback
  <2>2. callbacks' \in [Runners -> Nat]
    BY <1>5, CountDown DEF TimerCallback, RunnersTyped
  <2>3. RunnersTyped' /\ ChannelsTyped'
    BY <1>5, <2>1, <2>2 DEF TimerCallback, RunnersTyped, ChannelsTyped
  <2>4. QED
    BY <1>5, <2>3, Untouched DEF TimerCallback
<1>6. CASE Resend(g)
  <2>1. resends' \in [Runners -> Nat]
    BY <1>6, CountDown DEF Resend, RunnersTyped
  <2>2. expiredCh' \in Seq(Runners)
    BY <1>6, AppendProperties DEF Resend, ChannelsTyped
  <2>3. RunnersTyped' /\ ChannelsTyped'
    BY <1>6, <2>1, <2>2 DEF Resend, RunnersTyped, ChannelsTyped
  <2>4. QED
    BY <1>6, <2>3, Untouched DEF Resend
<1>7. CASE SendUnblocks(g)
  <2>1. expiredCh' \in Seq(Runners)
    BY <1>7, AppendProperties DEF SendUnblocks, ChannelsTyped
  <2>2. RunnersTyped' /\ ChannelsTyped'
    BY <1>1, <1>7, <2>1 DEF SendUnblocks, RunnersTyped, ChannelsTyped
  <2>3. QED
    BY <1>7, <2>2, Untouched DEF SendUnblocks
<1>8. CASE StopOne(g)
  <2>1. /\ refMu' \in [Runners -> Locks] /\ expiredCh' \in Seq(Runners)
        /\ expireTimer' \in [Runners -> {"nil", "armed", "fired"}]
        /\ sessionDuration' \in [Runners -> Durations]
    BY <1>1, <1>8, ExpireNowType DEF StopOne
  <2>2. expirers' \in [Runners -> Nat]
    BY <1>8, CountDown DEF StopOne, RunnersTyped
  <2>3. RunnersTyped' /\ ChannelsTyped'
    BY <1>8, <2>1, <2>2 DEF StopOne, RunnersTyped, ChannelsTyped
  <2>4. QED
    BY <1>8, <2>3, Untouched DEF StopOne
<1>9. CASE EngineCrash(g)
  <2>1. RunnersTyped'
    BY <1>9 DEF EngineCrash, RunnersTyped
  <2>2. budget' \in [stops : Nat, crashes : Nat]
    BY <1>9 DEF EngineCrash, MapTyped
  <2>3. MapTyped'
    BY <1>9, <2>2 DEF EngineCrash, MapTyped, mapVars
  <2>4. QED
    BY <1>9, <2>1, <2>3, Untouched DEF EngineCrash
<1>10. QED
  BY <1>2, <1>3, <1>4, <1>5, <1>6, <1>7, <1>8, <1>9 DEF RunnerStep

LEMMA StopRunnersTyped ==
  ASSUME TypeOK, NEW S, StopRunners(S)
  PROVE  TypeOK'
<1> USE DEF TypeOK
<1>1. RunnersTyped'
  BY DEF StopRunners, RunnersTyped
<1>2. budget' \in [stops : Nat, crashes : Nat]
  BY DEF StopRunners, MapTyped
<1>3. MapTyped'
  BY <1>2 DEF StopRunners, MapTyped, mapVars
<1>4. QED
  BY <1>1, <1>3, Untouched DEF StopRunners

LEMMA InitTyped == Init => TypeOK
<1> SUFFICES ASSUME Init PROVE TypeOK
  OBVIOUS
<1>1. RequestsTyped
  BY DEF Init, RequestsTyped
<1>2. ChannelsTyped
  BY DEF Init, ChannelsTyped
<1>3. RunnersTyped
  BY LockNames, KeepAliveType, RefCountsPositive DEF Init, RunnersTyped
<1>4. MapTyped
  BY ConstantsAssumption DEF Init, MapTyped, ConstantsAssumption
<1>5. PendTyped /\ CompTyped
  BY IdleType, RestType DEF Init, PendTyped, PendBusy, Idle, CompTyped, CompBusy
<1>6. QED
  BY <1>1, <1>2, <1>3, <1>4, <1>5 DEF TypeOK

LEMMA NextTyped == TypeOK /\ [Next]_vars => TypeOK'
<1> SUFFICES ASSUME TypeOK, [Next]_vars PROVE TypeOK'
  OBVIOUS
<1>1. CASE \E r \in Requests : GetRunner(r)
  BY <1>1, GetRunnerTyped
<1>2. CASE ProcessPending
  BY <1>2, ChoiceTyped, LoadTyped, EvictTyped DEF ProcessPending
<1>3. CASE ProcessCompleted
  BY <1>3, ProcessCompletedTyped
<1>4. CASE \E g \in Runners : RunnerStep(g)
  BY <1>4, RunnerStepTyped
<1>5. CASE ExpireRunner \/ ExpireRunnersForRuntimeOOM
  BY <1>5, StopRunnersTyped DEF ExpireRunner, ExpireRunnersForRuntimeOOM
<1>6. CASE UNCHANGED vars
  BY <1>6, Untouched DEF vars, TypeOK
<1>7. QED
  BY <1>1, <1>2, <1>3, <1>4, <1>5, <1>6 DEF Next

\* Every value the scheduler computes is of its variable's type: reference
\* counts stay within a uint, no counter goes below zero, every runner and
\* request a goroutine has in hand exists.
THEOREM TypeCorrect == Spec => []TypeOK
BY InitTyped, NextTyped, PTL DEF Spec

-----------------------------------------------------------------------------
(* Who changes what: the frame of every goroutine, stated once.             *)

LEMMA GetRunnerFrame ==
  ASSUME NEW r \in Requests, GetRunner(r)
  PROVE  UNCHANGED <<mapVars, engine, refMu, pend, comp, budget>>
<1>1. CASE LookUp(r)
  BY <1>1 DEF LookUp, runnerVars
<1>2. CASE FastCheck(r)
  BY <1>2 DEF FastCheck, runnerVars
<1>3. CASE FastUse(r)
  BY <1>3 DEF FastUse, UseLoadedRunner
<1>4. CASE Enqueue(r)
  BY <1>4 DEF Enqueue, runnerVars
<1>5. CASE ClientDone(r) \/ ClientCancel(r)
  BY <1>5 DEF ClientDone, ClientCancel, runnerVars
<1>6. QED
  BY <1>1, <1>2, <1>3, <1>4, <1>5 DEF GetRunner

LEMMA ProcessPendingFrame ==
  ASSUME ProcessPending
  PROVE  /\ UNCHANGED <<pc, seen, ctxDone, released, callbacks, resends, expirers, comp, budget>>
         /\ LoadSucceeds \/ UNCHANGED <<loaded, engine>>
<1>1. CASE TakePending \/ DrainUnloaded \/ Wake
  BY <1>1 DEF TakePending, DrainUnloaded, Wake, Pass, NoAnswer, NoTouch, mapVars
<1>2. CASE Look \/ PendingCheck \/ Caps \/ PickShared \/ PickOn \/ Scan \/ Visit
           \/ LoadRequiresFull \/ EvictAll
  <2>1. OnlyPend
    BY <1>2 DEF Look, PendingCheck, Caps, PickShared, PickOn, Scan, Visit, LoadRequiresFull,
                EvictAll
  <2>2. QED
    BY <2>1 DEF OnlyPend, Pass, NoAnswer, NoTouch, mapVars
<1>3. CASE PendingUse
  BY <1>3 DEF PendingUse, UseLoadedRunner, mapVars
<1>4. CASE Placed \/ Create \/ LoadFails
  BY <1>4 DEF Placed, Create, LoadFails, Pass, NoTouch
<1>5. CASE LoadSucceeds
  BY <1>5 DEF LoadSucceeds, Pass, NoAnswer
<1>6. CASE ExpireVictim \/ EvictOne
  BY <1>6 DEF ExpireVictim, EvictOne, Pass, NoAnswer, mapVars
<1>7. QED
  BY <1>1, <1>2, <1>3, <1>4, <1>5, <1>6 DEF ProcessPending

LEMMA ProcessCompletedFrame ==
  ASSUME ProcessCompleted
  PROVE  /\ UNCHANGED <<answerVars, ctxDone, stale, pendingReqCh, activeLoading, maxRunners,
                        pend, budget>>
         /\ Unload \/ UNCHANGED loaded
         /\ Unload \/ ExpiredIgnored \/ UNCHANGED engine
<1>1. CASE \E r \in Requests : TakeFinished(r)
  BY <1>1 DEF TakeFinished, chanVars, runnerVars, mapVars
<1>2. CASE Finish
  BY <1>2 DEF Finish, mapVars
<1>3. CASE TakeExpired \/ Announce
  BY <1>3 DEF TakeExpired, Announce, requestVars, answerVars, runnerVars, mapVars
<1>4. CASE ExpiredIgnored
  BY <1>4 DEF ExpiredIgnored, requestVars, answerVars, chanVars, mapVars
<1>5. CASE Unload
  BY <1>5 DEF Unload, requestVars, answerVars, chanVars
<1>6. CASE Recovered
  BY <1>6 DEF Recovered, requestVars, answerVars, chanVars, mapVars
<1>7. QED
  BY <1>1, <1>2, <1>3, <1>4, <1>5, <1>6 DEF ProcessCompleted

LEMMA RunnerStepFrame ==
  ASSUME NEW g \in Runners, RunnerStep(g)
  PROVE  /\ UNCHANGED <<pc, seen, ctxDone, released, stale, pendingReqCh, mapVars, pend, comp>>
         /\ EngineCrash(g) \/ UNCHANGED engine
<1>1. CASE LoadRunning(g)
  BY <1>1 DEF LoadRunning, chanVars
<1>2. CASE LoadAborted(g)
  BY <1>2 DEF LoadAborted
<1>3. CASE TimerFires(g) \/ TimerCallback(g)
  BY <1>3 DEF TimerFires, TimerCallback, requestVars, chanVars
<1>4. CASE Resend(g) \/ SendUnblocks(g)
  BY <1>4 DEF Resend, SendUnblocks, requestVars, chanVars
<1>5. CASE StopOne(g) \/ EngineCrash(g)
  BY <1>5 DEF StopOne, EngineCrash, requestVars, chanVars
<1>6. QED
  BY <1>1, <1>2, <1>3, <1>4, <1>5 DEF RunnerStep

LEMMA StopRunnersFrame ==
  ASSUME NEW S, StopRunners(S)
  PROVE  UNCHANGED <<requestVars, chanVars, mapVars, engine, refMu, refCount, pend, comp>>
BY DEF StopRunners

\* The map is written by a load and by an unload, a process besides them by
\* the closing of an older runner and by its own exit.
LEMMA MapChanges ==
  ASSUME [Next]_vars
  PROVE  /\ LoadSucceeds \/ Unload \/ UNCHANGED loaded
         /\ \/ LoadSucceeds \/ Unload \/ ExpiredIgnored \/ UNCHANGED engine
            \/ \E g \in Runners : EngineCrash(g)
         /\ ProcessPending \/ UNCHANGED pend
<1>1. CASE \E r \in Requests : GetRunner(r)
  BY <1>1, GetRunnerFrame DEF mapVars
<1>2. CASE ProcessPending
  BY <1>2, ProcessPendingFrame
<1>3. CASE ProcessCompleted
  BY <1>3, ProcessCompletedFrame
<1>4. CASE \E g \in Runners : RunnerStep(g)
  BY <1>4, RunnerStepFrame DEF mapVars
<1>5. CASE ExpireRunner \/ ExpireRunnersForRuntimeOOM
  BY <1>5, StopRunnersFrame DEF ExpireRunner, ExpireRunnersForRuntimeOOM, mapVars
<1>6. CASE UNCHANGED vars
  BY <1>6 DEF vars, mapVars, runnerVars
<1>7. QED
  BY <1>1, <1>2, <1>3, <1>4, <1>5, <1>6 DEF Next

-----------------------------------------------------------------------------
(* The key that is being loaded is free.                                   *)

\* The labels at which the pending loop has found the key of its request free.
Loading == {"caps", "pickShared", "pickOn", "visit", "create", "load"}

\* A step of the pending loop enters or stays in these labels only from where
\* the key is free, and only a load itself puts a runner under it.
LEMMA KeyFreeInPending ==
  ASSUME TypeOK, KeyFreeWhileLoading, ProcessPending, pend'.pc \in Loading
  PROVE  pend'.req = pend.req /\ loaded[ModelOf[pend.req]] = NoRunner /\ ~LoadSucceeds
<1>1. pend \in PendType /\ KeyFreeWhileLoading
  BY DEF TypeOK, PendTyped
<1>2. Idle.pc \notin Loading
  BY DEF Idle, Loading
<1> DEFINE KeyFree == pend'.req = pend.req /\ loaded[ModelOf[pend.req]] = NoRunner
<1>3. ASSUME pend.pc \in Loading, pend'.req = pend.req PROVE KeyFree
  BY <1>1, <1>3 DEF KeyFreeWhileLoading, Loading
<1>4. CASE TakePending
  BY <1>1, <1>4 DEF TakePending, At, PendType, Loading
<1>5. CASE DrainUnloaded
  BY <1>1, <1>5 DEF DrainUnloaded, At, Loading
<1>6. CASE Look
  <2>1. pend'.req = pend.req
    BY <1>1, <1>6 DEF Look, PendType
  <2>2. pend'.pc = IF loaded[ModelOf[pend.req]] = NoRunner THEN "caps" ELSE "check"
    BY <1>1, <1>6 DEF Look, PendType
  <2>3. ~LoadSucceeds
    BY <1>6 DEF Look, LoadSucceeds, At
  <2>4. QED
    BY <2>1, <2>2, <2>3 DEF Loading
<1>7. CASE PendingCheck \/ PendingUse \/ ExpireVictim \/ EvictAll \/ EvictOne \/ Wake \/ Scan
  <2>1. pend'.pc \in {"expire", "use", "idle", "wait", "look", "evict", "waitAll", "scan", pend.pc}
    <3>1. CASE PendingCheck \/ PendingUse
      BY <1>1, <3>1 DEF PendingCheck, PendingUse, Idle, PendType
    <3>2. CASE ExpireVictim \/ EvictAll
      BY <1>1, <3>2 DEF ExpireVictim, EvictAll, PendType
    <3>3. CASE EvictOne
      BY <1>1, <3>3 DEF EvictOne, PendType
    <3>4. CASE Wake
      BY <1>1, <3>4 DEF Wake, PendType
    <3>5. CASE Scan
      BY <1>1, <3>5 DEF Scan, PendType
    <3>6. QED
      BY <1>7, <3>1, <3>2, <3>3, <3>4, <3>5
  <2>2. pend.pc \in {"check", "use", "expire", "evictAll", "evict", "wait", "waitAll", "scan"}
    BY <1>7 DEF PendingCheck, PendingUse, ExpireVictim, EvictAll, EvictOne, Wake, Scan, At
  <2>3. QED
    BY <2>1, <2>2 DEF Loading
<1>8. CASE Caps
  <2>1. pend.pc \in Loading /\ ~LoadSucceeds
    BY <1>8 DEF Caps, LoadSucceeds, At, Loading
  <2>2. pend'.req = pend.req
    BY <1>1, <1>8 DEF Caps, PickAmong, PendType
  <2>3. QED
    BY <1>3, <2>1, <2>2
<1>9. CASE PickShared \/ PickOn
  <2>1. pend'.pc \in {"look", "scan"}
    BY <1>1, <1>9 DEF PickShared, PickOn, PickAmong, PendType
  <2>2. QED
    BY <2>1 DEF Loading
<1>10. CASE Visit \/ Placed \/ Create \/ LoadRequiresFull \/ LoadFails
  <2>1. pend.pc \in Loading
    BY <1>10 DEF Visit, Placed, Create, LoadRequiresFull, LoadFails, At, Loading
  <2>2. pend' # Idle
    BY <1>2
  <2>3. pend'.req = pend.req
    BY <1>1, <1>10, <2>2 DEF Visit, Placed, Create, LoadRequiresFull, LoadFails, NeedEvict, PendType
  <2>4. ~LoadSucceeds
    BY <2>2 DEF LoadSucceeds
  <2>5. QED
    BY <1>3, <2>1, <2>3, <2>4
<1>11. CASE LoadSucceeds
  BY <1>2, <1>11 DEF LoadSucceeds
<1>12. ~LoadSucceeds
  BY <1>2 DEF LoadSucceeds
<1>13. QED
  BY <1>4, <1>5, <1>6, <1>7, <1>8, <1>9, <1>10, <1>11, <1>12 DEF ProcessPending

LEMMA KeyFreeKept ==
  ASSUME TypeOK, KeyFreeWhileLoading, [Next]_vars
  PROVE  KeyFreeWhileLoading'
<1> SUFFICES ASSUME pend'.pc \in Loading PROVE loaded'[ModelOf[pend'.req]] = NoRunner
  BY DEF KeyFreeWhileLoading, Loading
<1>1. ~LoadSucceeds /\ pend'.req = pend.req /\ loaded[ModelOf[pend.req]] = NoRunner
  <2>1. CASE ProcessPending
    BY <2>1, KeyFreeInPending
  <2>2. CASE UNCHANGED pend
    <3>1. ~LoadSucceeds
      BY DEF LoadSucceeds, Idle, Loading
    <3>2. QED
      BY <2>2, <3>1 DEF KeyFreeWhileLoading, Loading
  <2>3. QED
    BY <2>1, <2>2, MapChanges
<1>2. CASE UNCHANGED loaded
  BY <1>1, <1>2
<1>3. CASE Unload
  <2>1. loaded' = [loaded EXCEPT ![ModelOf[comp.run]] = NoRunner]
    BY <1>3 DEF Unload
  <2>2. loaded \in [Models -> Runners \cup {NoRunner}]
    BY DEF TypeOK, MapTyped
  <2>3. QED
    BY <1>1, <2>1, <2>2
<1>4. QED
  BY <1>1, <1>2, <1>3, MapChanges

\* The safeguard of load() for a model that is still loaded has nothing to do.
THEOREM KeyStaysFree == Spec => []KeyFreeWhileLoading
<1>1. Init => KeyFreeWhileLoading
  BY DEF Init, KeyFreeWhileLoading, Idle
<1>2. TypeOK /\ KeyFreeWhileLoading /\ [Next]_vars => KeyFreeWhileLoading'
  BY KeyFreeKept
<1>3. QED
  BY <1>1, <1>2, TypeCorrect, PTL DEF Spec

-----------------------------------------------------------------------------
(* The processes are those of the map.                                     *)

LEMMA EnginesKept ==
  ASSUME TypeOK, KeyFreeWhileLoading, EnginesInMap, [Next]_vars
  PROVE  EnginesInMap'
<1> SUFFICES ASSUME NEW g \in Runners
             PROVE  IsLoaded(g)' <=> engine'[g] \in {"up", "exited"}
  BY DEF EnginesInMap
<1>1. IsLoaded(g) <=> engine[g] \in {"up", "exited"}
  BY DEF EnginesInMap
<1>2. /\ loaded \in [Models -> Runners \cup {NoRunner}] /\ ModelOf[g] \in Models
      /\ engine \in [Runners -> {"none", "up", "exited", "closed"}]
      /\ g # NoRunner
  BY ModelOfType DEF TypeOK, MapTyped, RunnersTyped, Runners
<1>3. CASE LoadSucceeds
  <2> DEFINE r == pend.req
  <2>1. loaded[ModelOf[r]] = NoRunner
    BY <1>3 DEF LoadSucceeds, At, KeyFreeWhileLoading
  <2>2. loaded' = [loaded EXCEPT ![ModelOf[r]] = r]
    BY <1>3 DEF LoadSucceeds
  <2>3. engine'[g] = IF g = r THEN "up" ELSE engine[g]
    BY <1>2, <1>3, <2>1 DEF LoadSucceeds
  <2>4. CASE g = r
    BY <1>2, <2>2, <2>3, <2>4 DEF IsLoaded
  <2>5. CASE g # r
    <3>1. IsLoaded(g)' <=> IsLoaded(g)
      BY <1>2, <2>1, <2>2, <2>5 DEF IsLoaded
    <3>2. QED
      BY <1>1, <2>3, <2>5, <3>1
  <2>6. QED
    BY <2>4, <2>5
<1>4. CASE Unload
  <2>1. /\ loaded' = [loaded EXCEPT ![ModelOf[comp.run]] = NoRunner]
        /\ engine' = [engine EXCEPT ![comp.run] = "closed"]
        /\ loaded[ModelOf[comp.run]] = comp.run
    BY <1>4 DEF Unload, IsLoaded
  <2>2. QED
    BY <1>1, <1>2, <2>1 DEF IsLoaded
<1>5. CASE UNCHANGED loaded /\ ExpiredIgnored
  <2>1. \/ UNCHANGED engine
        \/ /\ loaded[ModelOf[comp.run]] # comp.run
           /\ engine' = [engine EXCEPT ![comp.run] = "closed"]
    BY <1>5 DEF ExpiredIgnored
  <2>2. QED
    BY <1>1, <1>2, <1>5, <2>1 DEF IsLoaded
<1>6. CASE UNCHANGED loaded /\ \E h \in Runners : EngineCrash(h)
  <2>1. PICK h \in Runners : engine[h] = "up" /\ engine' = [engine EXCEPT ![h] = "exited"]
    BY <1>6 DEF EngineCrash
  <2>2. QED
    BY <1>1, <1>2, <1>6, <2>1 DEF IsLoaded
<1>7. CASE UNCHANGED <<loaded, engine>>
  BY <1>1, <1>7 DEF IsLoaded
<1>8. QED
  BY <1>3, <1>4, <1>5, <1>6, <1>7, MapChanges

\* No engine process is lost, none is closed behind the map.
THEOREM NoEngineLost == Spec => []EnginesInMap
<1>1. Init => EnginesInMap
  BY ModelOfType DEF Init, EnginesInMap, IsLoaded, Runners
<1>2. TypeOK /\ KeyFreeWhileLoading /\ EnginesInMap /\ [Next]_vars => EnginesInMap'
  BY EnginesKept
<1>3. QED
  BY <1>1, <1>2, TypeCorrect, KeyStaysFree, PTL DEF Spec

-----------------------------------------------------------------------------
(* One answer for each request.                                            *)

\* What a queue holds after a send and after a receive, and that no request
\* is in it twice.
Holds(q, r) == \E i \in DOMAIN q : q[i] = r
Distinct(q) == \A i, j \in DOMAIN q : q[i] = q[j] => i = j

LEMMA QueueAppend ==
  ASSUME NEW S, NEW q \in Seq(S), NEW r \in S, Distinct(q), ~Holds(q, r)
  PROVE  Distinct(Append(q, r)) /\ \A x : Holds(Append(q, r), x) => x = r \/ Holds(q, x)
<1> DEFINE a == Append(q, r)
<1>1. /\ Len(q) \in Nat /\ DOMAIN q = 1..Len(q) /\ DOMAIN a = 1..(Len(q) + 1)
      /\ a[Len(q) + 1] = r /\ \A i \in 1..Len(q) : a[i] = q[i]
  BY AppendProperties, LenProperties
<1> HIDE DEF a
<1>2. Distinct(a)
  BY <1>1 DEF Distinct, Holds
<1>3. \A x : Holds(a, x) => x = r \/ Holds(q, x)
  BY <1>1 DEF Holds
<1>4. QED
  BY <1>2, <1>3 DEF a

LEMMA QueueTail ==
  ASSUME NEW S, NEW q \in Seq(S), q # <<>>, Distinct(q)
  PROVE  /\ Distinct(Tail(q)) /\ Holds(q, Head(q)) /\ ~Holds(Tail(q), Head(q))
         /\ \A x : Holds(Tail(q), x) => Holds(q, x)
<1> DEFINE t == Tail(q)
<1>1. /\ Len(q) \in Nat /\ Len(q) > 0 /\ DOMAIN q = 1..Len(q) /\ DOMAIN t = 1..(Len(q) - 1)
      /\ Head(q) = q[1] /\ \A i \in 1..(Len(q) - 1) : t[i] = q[i + 1]
  BY HeadTailProperties, LenProperties, EmptySeq
<1> HIDE DEF t
<1>2. \A i \in 1..(Len(q) - 1) : i + 1 \in 1..Len(q) /\ i + 1 # 1
  BY <1>1
<1>3. \A x : Holds(t, x) => Holds(q, x)
  BY <1>1, <1>2 DEF Holds
<1>4. Distinct(t)
  BY <1>1, <1>2 DEF Distinct
<1>5. Holds(q, Head(q))
  BY <1>1 DEF Holds
<1>6. ~Holds(t, Head(q))
  <2>1. 1 \in DOMAIN q
    BY <1>1
  <2>2. QED
    BY <1>1, <1>2, <2>1 DEF Holds, Distinct
<1>7. QED
  BY <1>3, <1>4, <1>5, <1>6 DEF t

LEMMA QueueOf ==
  /\ \A r : Queued(r) <=> Holds(pendingReqCh, r)
  /\ (\A r : Queued(r) <=> Holds(pendingReqCh, r))'
  /\ OnePlace => Distinct(pendingReqCh)
BY DEF Queued, Holds, Distinct, OnePlace

\* A step that takes no request to a new place keeps each in one place, if
\* every answer goes to a request that leaves its place.
LEMMA PlacesShrink ==
  ASSUME TypeOK, OnePlace, AnsweredOnce, UNCHANGED pendingReqCh,
         \A r \in Requests : /\ InGetRunner(r)' => InGetRunner(r)
                             /\ InPending(r)' => InPending(r)
                             /\ InLoad(r)' => InLoad(r)
                             /\ \/ answers'[r] = answers[r]
                                \/ /\ Waiting(r) /\ ~Waiting(r)'
                                   /\ answers'[r] = answers[r] + 1
  PROVE  OnePlace' /\ AnsweredOnce'
<1>1. \A r \in Requests : Queued(r)' <=> Queued(r)
  BY DEF Queued
<1>2. \A i, j \in DOMAIN pendingReqCh' : pendingReqCh'[i] = pendingReqCh'[j] => i = j
  BY DEF OnePlace
<1>3. ASSUME NEW r \in Requests
      PROVE  /\ InGetRunner(r)' => ~Queued(r)' /\ ~InPending(r)' /\ ~InLoad(r)'
             /\ Queued(r)' => ~InPending(r)' /\ ~InLoad(r)'
             /\ InPending(r)' => ~InLoad(r)'
  BY <1>1, <1>3 DEF OnePlace
<1>4. ASSUME NEW r \in Requests
      PROVE  (Waiting(r)' => answers'[r] = 0) /\ answers'[r] <= 1
  <2>1. Waiting(r)' => Waiting(r)
    BY <1>1 DEF Waiting
  <2>2. (Waiting(r) => answers[r] = 0) /\ answers[r] <= 1
    BY DEF OnePlace, AnsweredOnce
  <2>3. QED
    BY <2>1, <2>2
<1>5. QED
  BY <1>2, <1>3, <1>4 DEF OnePlace, AnsweredOnce

\* Only a load locks a runner for loading.
LEMMA EmitNoLoad ==
  ASSUME TypeOK, NEW g \in Runners, NEW who \in Senders, Emit(g, who)
  PROVE  \A h \in Runners : refMu'[h] = "loading" => refMu[h] = "loading"
BY LockNames DEF Emit, TypeOK, RunnersTyped

LEMMA GetRunnerPlaces ==
  ASSUME TypeOK, OnePlace, AnsweredOnce, NEW r \in Requests, GetRunner(r)
  PROVE  OnePlace' /\ AnsweredOnce'
<1>1. UNCHANGED <<refMu, pend>>
  BY GetRunnerFrame
<1>2. /\ pc \in [Requests -> {"new", "check", "enqueue", "use", "sent"}]
      /\ answers \in [Requests -> Nat] /\ pendingReqCh \in Seq(Requests)
  BY DEF TypeOK, RequestsTyped, ChannelsTyped
<1>3. CASE LookUp(r) \/ FastCheck(r) \/ ClientDone(r) \/ ClientCancel(r)
  <2>1. UNCHANGED <<answers, pendingReqCh>>
    BY <1>3 DEF LookUp, FastCheck, ClientDone, ClientCancel, answerVars, chanVars
  <2>2. \A q \in Requests : pc'[q] # "sent" => pc[q] # "sent"
    BY <1>2, <1>3 DEF LookUp, FastCheck, ClientDone, ClientCancel, answerVars, GoTo
  <2>3. QED
    BY <1>1, <2>1, <2>2, PlacesShrink DEF InGetRunner, InPending, InLoad
<1>4. CASE FastUse(r) \/ (Enqueue(r) /\ UNCHANGED pendingReqCh)
  <2>1. /\ pc[r] # "sent" /\ pc' = [pc EXCEPT ![r] = "sent"] /\ UNCHANGED pendingReqCh
        /\ answers' = [answers EXCEPT ![r] = @ + 1]
    <3>1. CASE FastUse(r)
      BY <3>1 DEF FastUse, UseLoadedRunner, GoTo, chanVars
    <3>2. CASE Enqueue(r) /\ UNCHANGED pendingReqCh
      <4>1. pendingReqCh # Append(pendingReqCh, r)
        <5>1. Len(Append(pendingReqCh, r)) = Len(pendingReqCh) + 1 /\ Len(pendingReqCh) \in Nat
          BY <1>2, AppendProperties, LenProperties
        <5>2. QED
          BY <5>1
      <4>2. QED
        BY <3>2, <4>1 DEF Enqueue, GoTo
    <3>3. QED
      BY <1>4, <3>1, <3>2
  <2>2. Waiting(r) /\ ~Queued(r) /\ ~InPending(r) /\ ~InLoad(r)
    BY <2>1 DEF OnePlace, Waiting, InGetRunner
  <2>3. ~Waiting(r)'
    BY <1>1, <1>2, <2>1, <2>2 DEF Waiting, InGetRunner, Queued, InPending, InLoad
  <2>4. \A q \in Requests : /\ InGetRunner(q)' => InGetRunner(q)
                            /\ InPending(q)' => InPending(q)
                            /\ InLoad(q)' => InLoad(q)
    BY <1>1, <1>2, <2>1 DEF InGetRunner, InPending, InLoad
  <2>5. answers'[r] = answers[r] + 1 /\ \A q \in Requests \ {r} : answers'[q] = answers[q]
    BY <1>2, <2>1
  <2>6. QED
    BY <2>1, <2>2, <2>3, <2>4, <2>5, PlacesShrink
<1>5. CASE Enqueue(r) /\ ~UNCHANGED pendingReqCh
  <2>1. /\ pc[r] # "sent" /\ pc' = [pc EXCEPT ![r] = "sent"] /\ UNCHANGED answers
        /\ pendingReqCh' = Append(pendingReqCh, r)
    BY <1>5 DEF Enqueue, GoTo
  <2>2. ~Queued(r) /\ ~InPending(r) /\ ~InLoad(r) /\ answers[r] = 0
    BY <2>1 DEF OnePlace, InGetRunner, Waiting
  <2>3. /\ Distinct(pendingReqCh')
        /\ \A q : Queued(q)' => q = r \/ Queued(q)
    BY <1>2, <2>1, <2>2, QueueOf, QueueAppend
  <2>4. \A q \in Requests : /\ InGetRunner(q)' <=> InGetRunner(q) /\ q # r
                            /\ InPending(q)' <=> InPending(q)
                            /\ InLoad(q)' <=> InLoad(q)
    BY <1>1, <1>2, <2>1 DEF InGetRunner, InPending, InLoad
  <2>5. ASSUME NEW q \in Requests
        PROVE  /\ InGetRunner(q)' => ~Queued(q)' /\ ~InPending(q)' /\ ~InLoad(q)'
               /\ Queued(q)' => ~InPending(q)' /\ ~InLoad(q)'
               /\ InPending(q)' => ~InLoad(q)'
    BY <2>2, <2>3, <2>4 DEF OnePlace
  <2>6. ASSUME NEW q \in Requests PROVE (Waiting(q)' => answers'[q] = 0) /\ answers'[q] <= 1
    BY <2>1, <2>2, <2>3, <2>4 DEF OnePlace, AnsweredOnce, Waiting
  <2>7. QED
    BY <2>3, <2>5, <2>6 DEF OnePlace, AnsweredOnce, Distinct
<1>6. QED
  BY <1>3, <1>4, <1>5 DEF GetRunner

\* The pending loop keeps its request, or drops it with or without an answer.
LEMMA PendingKeeps ==
  ASSUME TypeOK, ProcessPending, ~TakePending, ~LoadSucceeds
  PROVE  /\ UNCHANGED pendingReqCh
         /\ \A h \in Runners : refMu'[h] = "loading" => refMu[h] = "loading"
         /\ \/ /\ UNCHANGED answers
               /\ \/ pend' = Idle \/ UNCHANGED pend
                  \/ pend'.req = pend.req /\ pend.pc # "idle"
            \/ /\ pend.pc # "idle" /\ pend' = Idle
               /\ answers' = [answers EXCEPT ![pend.req] = @ + 1]
<1>1. pend \in PendType /\ PendBusy /\ "pending" \in Senders
  BY LockNames DEF TypeOK, PendTyped
<1>2. CASE DrainUnloaded \/ Wake
  <2>1. UNCHANGED <<pendingReqCh, refMu, answers>>
    BY <1>2 DEF DrainUnloaded, Wake, Pass, NoAnswer, NoTouch
  <2>2. DrainUnloaded => UNCHANGED pend
    BY DEF DrainUnloaded
  <2>3. Wake => pend'.req = pend.req /\ pend.pc # "idle"
    BY <1>1 DEF Wake, At, PendType
  <2>4. QED
    BY <1>2, <2>1, <2>2, <2>3
<1>3. CASE Look \/ PendingCheck \/ Caps \/ PickShared \/ PickOn \/ Scan \/ Visit
           \/ LoadRequiresFull \/ EvictAll
  <2>1. UNCHANGED <<pendingReqCh, refMu, answers>>
    BY <1>3 DEF Look, PendingCheck, Caps, PickShared, PickOn, Scan, Visit, LoadRequiresFull,
                EvictAll, OnlyPend, NoAnswer, NoTouch, chanVars
  <2>2. pend.pc # "idle"
    BY <1>3 DEF Look, PendingCheck, Caps, PickShared, PickOn, Scan, Visit, LoadRequiresFull,
                EvictAll, At
  <2>3. pend'.req = pend.req
    <3>1. CASE Look \/ PendingCheck \/ Visit \/ EvictAll
      BY <1>1, <3>1 DEF Look, PendingCheck, Visit, EvictAll, PendType
    <3>2. CASE Caps \/ PickShared \/ PickOn
      BY <1>1, <3>2 DEF Caps, PickShared, PickOn, PickAmong, PendType
    <3>3. CASE Scan
      BY <1>1, <3>3 DEF Scan, PendType
    <3>4. CASE LoadRequiresFull
      BY <1>1, <3>4 DEF LoadRequiresFull, NeedEvict, PendType
    <3>5. QED
      BY <1>3, <3>1, <3>2, <3>3, <3>4
  <2>4. QED
    BY <2>1, <2>2, <2>3
<1>4. CASE PendingUse
  BY <1>4 DEF PendingUse, UseLoadedRunner, At, chanVars
<1>5. CASE Placed
  BY <1>1, <1>5 DEF Placed, SendErr, At, Pass, NoTouch, PendType, chanVars
<1>6. CASE Create
  <2>1. UNCHANGED <<pendingReqCh, refMu>> /\ pend.pc # "idle"
    BY <1>6 DEF Create, NoTouch, At, chanVars
  <2>2. \/ pend' = Idle /\ answers' = [answers EXCEPT ![pend.req] = @ + 1]
        \/ pend'.req = pend.req /\ UNCHANGED answers
    BY <1>1, <1>6 DEF Create, SendErr, NeedEvict, PendType
  <2>3. QED
    BY <2>1, <2>2
<1>7. CASE LoadFails
  <2>1. UNCHANGED <<pendingReqCh, refMu>> /\ pend.pc # "idle"
    BY <1>7 DEF LoadFails, NoTouch, At, chanVars
  <2>2. \/ pend' = Idle /\ answers' = [answers EXCEPT ![pend.req] = @ + 1]
        \/ pend'.req = pend.req /\ UNCHANGED answers
    BY <1>1, <1>7 DEF LoadFails, SendErr, NeedEvict, PendType
  <2>3. QED
    BY <2>1, <2>2
<1>8. CASE ExpireVictim \/ EvictOne
  <2>1. UNCHANGED <<pendingReqCh, answers>> /\ pend.pc # "idle"
    BY <1>8 DEF ExpireVictim, EvictOne, NoAnswer, At
  <2>2. pend'.req = pend.req
    BY <1>1, <1>8 DEF ExpireVictim, EvictOne, PendType
  <2>3. \E g \in Runners : Emit(g, "pending") \/ UNCHANGED refMu
    <3>1. pend.pc = "expire" => pend.run \in Runners
      BY <1>1 DEF PendBusy
    <3>2. pend.rest \subseteq Runners
      BY <1>1 DEF PendType
    <3>3. QED
      BY <1>8, <3>1, <3>2 DEF ExpireVictim, EvictOne, ExpireNow, At
  <2>4. QED
    BY <1>1, <2>1, <2>2, <2>3, EmitNoLoad
<1>9. QED
  BY <1>2, <1>3, <1>4, <1>5, <1>6, <1>7, <1>8 DEF ProcessPending

LEMMA PendingPlaces ==
  ASSUME TypeOK, OnePlace, AnsweredOnce, ProcessPending
  PROVE  OnePlace' /\ AnsweredOnce'
<1>1. /\ UNCHANGED pc /\ Idle.pc = "idle"
      /\ pend \in PendType /\ PendBusy
      /\ answers \in [Requests -> Nat] /\ pendingReqCh \in Seq(Requests)
      /\ refMu \in [Runners -> Locks]
  BY ProcessPendingFrame DEF Idle, TypeOK, PendTyped, RequestsTyped, ChannelsTyped, RunnersTyped
<1>2. CASE TakePending
  <2>0. PICK r \in Requests : r = Head(pendingReqCh)
    BY <1>1, <1>2, HeadTailProperties DEF TakePending
  <2>1. /\ pendingReqCh # <<>> /\ pendingReqCh' = Tail(pendingReqCh)
        /\ UNCHANGED <<answers, refMu>> /\ pend.pc = "idle"
        /\ UNCHANGED pend \/ pend'.req = r
    BY <1>1, <1>2, <2>0 DEF TakePending, NoAnswer, NoTouch, At, PendType
  <2>2. /\ Distinct(pendingReqCh') /\ Queued(r) /\ ~Queued(r)'
        /\ \A q : Queued(q)' => Queued(q)
    BY <1>1, <2>0, <2>1, QueueOf, QueueTail
  <2>3. \A q \in Requests : /\ InGetRunner(q)' <=> InGetRunner(q)
                            /\ InPending(q)' => q = r
                            /\ InLoad(q)' <=> InLoad(q)
    BY <1>1, <2>1 DEF InGetRunner, InPending, InLoad
  <2>4. ASSUME NEW q \in Requests
        PROVE  /\ InGetRunner(q)' => ~Queued(q)' /\ ~InPending(q)' /\ ~InLoad(q)'
               /\ Queued(q)' => ~InPending(q)' /\ ~InLoad(q)'
               /\ InPending(q)' => ~InLoad(q)'
    BY <2>2, <2>3 DEF OnePlace
  <2>5. ASSUME NEW q \in Requests PROVE (Waiting(q)' => answers'[q] = 0) /\ answers'[q] <= 1
    <3>1. Waiting(q)' => Waiting(q)
      BY <2>2, <2>3 DEF Waiting
    <3>2. QED
      BY <2>1, <3>1 DEF OnePlace, AnsweredOnce
  <2>6. QED
    BY <2>2, <2>4, <2>5 DEF OnePlace, AnsweredOnce, Distinct
<1>3. CASE LoadSucceeds
  <2> DEFINE r == pend.req
  <2>1. /\ pend.pc # "idle" /\ pend' = Idle /\ UNCHANGED <<answers, pendingReqCh>>
        /\ refMu' = [refMu EXCEPT ![r] = "loading"]
    BY <1>3 DEF LoadSucceeds, NoAnswer, At, chanVars
  <2>2. InPending(r) /\ r \in Requests
    BY <1>1, <2>1 DEF InPending, PendBusy
  <2>3. \A q \in Requests : /\ InGetRunner(q)' <=> InGetRunner(q)
                            /\ Queued(q)' <=> Queued(q)
                            /\ ~InPending(q)'
                            /\ InLoad(q)' => InLoad(q) \/ q = r
    BY <1>1, <2>1 DEF InGetRunner, InPending, InLoad, Queued
  <2>4. ASSUME NEW q \in Requests
        PROVE  /\ InGetRunner(q)' => ~Queued(q)' /\ ~InPending(q)' /\ ~InLoad(q)'
               /\ Queued(q)' => ~InPending(q)' /\ ~InLoad(q)'
               /\ InPending(q)' => ~InLoad(q)'
    BY <2>2, <2>3 DEF OnePlace
  <2>5. ASSUME NEW q \in Requests PROVE (Waiting(q)' => answers'[q] = 0) /\ answers'[q] <= 1
    <3>1. Waiting(q)' => Waiting(q)
      BY <2>2, <2>3 DEF Waiting
    <3>2. QED
      BY <2>1, <3>1 DEF OnePlace, AnsweredOnce
  <2>6. QED
    BY <2>1, <2>4, <2>5 DEF OnePlace, AnsweredOnce
<1>4. CASE ~TakePending /\ ~LoadSucceeds
  <2>1. \A q \in Requests : /\ InGetRunner(q)' => InGetRunner(q)
                            /\ InPending(q)' => InPending(q)
                            /\ InLoad(q)' => InLoad(q)
    BY <1>1, <1>4, PendingKeeps DEF InGetRunner, InPending, InLoad, Runners
  <2>2. CASE UNCHANGED answers
    BY <1>4, <2>1, <2>2, PendingKeeps, PlacesShrink
  <2>3. CASE pend.pc # "idle" /\ pend' = Idle /\ answers' = [answers EXCEPT ![pend.req] = @ + 1]
    <3>0. PICK r \in Requests : r = pend.req
      BY <1>1, <2>3 DEF PendBusy
    <3>1. InPending(r)
      BY <2>3, <3>0 DEF InPending
    <3>2. ~InGetRunner(r) /\ ~Queued(r) /\ ~InLoad(r) /\ ~InPending(r)'
      BY <1>1, <2>3, <3>1 DEF OnePlace, InPending
    <3>3. Waiting(r) /\ ~Waiting(r)'
      <4>1. Queued(r)' <=> Queued(r)
        BY <1>4, PendingKeeps DEF Queued
      <4>2. QED
        BY <2>1, <3>1, <3>2, <4>1 DEF Waiting
    <3>4. answers'[r] = answers[r] + 1 /\ \A q \in Requests \ {r} : answers'[q] = answers[q]
      BY <1>1, <2>3, <3>0
    <3>5. UNCHANGED pendingReqCh
      BY <1>4, PendingKeeps
    <3>6. QED
      BY <2>1, <3>3, <3>4, <3>5, PlacesShrink
  <2>4. QED
    BY <1>4, <2>2, <2>3, PendingKeeps
<1>5. QED
  BY <1>2, <1>3, <1>4

LEMMA CompletedPlaces ==
  ASSUME TypeOK, OnePlace, AnsweredOnce, ProcessCompleted
  PROVE  OnePlace' /\ AnsweredOnce'
<1>1. UNCHANGED <<pc, answers, pendingReqCh, pend>>
  BY ProcessCompletedFrame DEF answerVars
<1>2. /\ refMu \in [Runners -> Locks] /\ "completed" \in Senders
      /\ comp.pc # "idle" => comp.run \in Runners
  BY LockNames DEF TypeOK, RunnersTyped, CompTyped, CompBusy
<1>3. \A h \in Runners : refMu'[h] = "loading" => refMu[h] = "loading"
  <2>1. CASE (\E r \in Requests : TakeFinished(r)) \/ TakeExpired \/ ExpiredIgnored \/ Announce
    BY <2>1 DEF TakeFinished, TakeExpired, ExpiredIgnored, Announce, runnerVars
  <2>2. CASE Finish
    <3>1. comp.run \in Runners
      BY <1>2, <2>2 DEF Finish, CompAt
    <3>2. Emit(comp.run, "completed") \/ UNCHANGED refMu
      BY <2>2 DEF Finish
    <3>3. QED
      BY <1>2, <3>1, <3>2, EmitNoLoad
  <2>3. CASE Unload \/ Recovered
    BY <1>2, <2>3 DEF Unload, Recovered
  <2>4. QED
    BY <2>1, <2>2, <2>3 DEF ProcessCompleted
<1>4. QED
  BY <1>1, <1>3, PlacesShrink DEF InGetRunner, InPending, InLoad, Runners

\* The end of a load answers the request it was for.
LEMMA LoadEndPlaces ==
  ASSUME TypeOK, OnePlace, AnsweredOnce, NEW g \in Runners, refMu[g] = "loading",
         NEW lock \in {"free", "other"}, refMu' = [refMu EXCEPT ![g] = lock],
         answers' = [answers EXCEPT ![g] = @ + 1], UNCHANGED <<pc, pendingReqCh, pend>>
  PROVE  OnePlace' /\ AnsweredOnce'
<1>1. /\ refMu \in [Runners -> Locks] /\ answers \in [Requests -> Nat] /\ g \in Requests
  BY DEF TypeOK, RunnersTyped, RequestsTyped, Runners
<1>2. \A q \in Requests : /\ InGetRunner(q)' <=> InGetRunner(q)
                          /\ InPending(q)' <=> InPending(q)
                          /\ Queued(q)' <=> Queued(q)
                          /\ InLoad(q)' <=> InLoad(q) /\ q # g
  BY <1>1 DEF InGetRunner, InPending, Queued, InLoad, Runners
<1>3. InLoad(g) /\ Waiting(g)
  BY DEF InLoad, Waiting
<1>4. ~InGetRunner(g) /\ ~Queued(g) /\ ~InPending(g)
  BY <1>1, <1>3 DEF OnePlace
<1>5. ~Waiting(g)'
  BY <1>1, <1>2, <1>4 DEF Waiting
<1>6. answers'[g] = answers[g] + 1 /\ \A q \in Requests \ {g} : answers'[q] = answers[q]
  BY <1>1
<1>7. QED
  BY <1>2, <1>3, <1>5, <1>6, PlacesShrink

LEMMA RunnerPlaces ==
  ASSUME TypeOK, OnePlace, AnsweredOnce, NEW g \in Runners, RunnerStep(g)
  PROVE  OnePlace' /\ AnsweredOnce'
<1>1. UNCHANGED <<pc, pendingReqCh, pend>>
  BY RunnerStepFrame
<1>2. CASE LoadRunning(g)
  BY <1>1, <1>2, LoadEndPlaces DEF LoadRunning
<1>3. CASE LoadAborted(g)
  BY <1>1, <1>3, LoadEndPlaces DEF LoadAborted, SendErr
<1>4. CASE ~LoadRunning(g) /\ ~LoadAborted(g)
  <2>1. UNCHANGED answers
    BY <1>4 DEF RunnerStep, TimerFires, TimerCallback, Resend, SendUnblocks, StopOne,
                EngineCrash, requestVars
  <2>2. \A h \in Runners : refMu'[h] = "loading" => refMu[h] = "loading"
    <3>1. refMu \in [Runners -> Locks] /\ "other" \in Senders
      BY LockNames DEF TypeOK, RunnersTyped
    <3>2. CASE TimerFires(g) \/ Resend(g) \/ EngineCrash(g)
      BY <3>2 DEF TimerFires, Resend, EngineCrash
    <3>3. CASE TimerCallback(g) \/ StopOne(g)
      <4>1. Emit(g, "other") \/ UNCHANGED refMu
        BY <3>3 DEF TimerCallback, StopOne, ExpireNow
      <4>2. QED
        BY <3>1, <4>1, EmitNoLoad
    <3>4. CASE SendUnblocks(g)
      BY <3>1, <3>4 DEF SendUnblocks
    <3>5. QED
      BY <1>4, <3>2, <3>3, <3>4 DEF RunnerStep
  <2>3. QED
    BY <1>1, <2>1, <2>2, PlacesShrink DEF InGetRunner, InPending, InLoad, Runners
<1>5. QED
  BY <1>2, <1>3, <1>4

LEMMA PlacesKept ==
  ASSUME TypeOK, OnePlace, AnsweredOnce, [Next]_vars
  PROVE  OnePlace' /\ AnsweredOnce'
<1>1. CASE (\E r \in Requests : GetRunner(r)) \/ ProcessPending \/ ProcessCompleted
           \/ \E g \in Runners : RunnerStep(g)
  BY <1>1, GetRunnerPlaces, PendingPlaces, CompletedPlaces, RunnerPlaces
<1>2. CASE ExpireRunner \/ ExpireRunnersForRuntimeOOM \/ UNCHANGED vars
  <2>1. UNCHANGED <<pc, answers, pendingReqCh, refMu, pend>>
    BY <1>2, StopRunnersFrame
       DEF ExpireRunner, ExpireRunnersForRuntimeOOM, vars, requestVars, chanVars, runnerVars
  <2>2. QED
    BY <2>1, PlacesShrink DEF InGetRunner, InPending, InLoad
<1>3. QED
  BY <1>1, <1>2 DEF Next

LEMMA InitPlaces == Init => OnePlace /\ AnsweredOnce
<1> SUFFICES ASSUME Init PROVE OnePlace /\ AnsweredOnce
  OBVIOUS
<1>1. \A r \in Requests : ~Queued(r) /\ ~InPending(r) /\ ~InLoad(r) /\ answers[r] = 0
  BY DEF Init, Queued, InPending, InLoad, Idle, Runners
<1>2. pendingReqCh = <<>>
  BY DEF Init
<1>3. QED
  BY <1>1, <1>2 DEF OnePlace, AnsweredOnce, Waiting

\* No request is answered twice: a send on successCh or errCh never blocks.
THEOREM AnswersUnique == Spec => []AnsweredOnce
<1>1. TypeOK /\ OnePlace /\ AnsweredOnce /\ [Next]_vars => OnePlace' /\ AnsweredOnce'
  BY PlacesKept
<1>2. QED
  BY <1>1, InitPlaces, TypeCorrect, PTL DEF Spec

-----------------------------------------------------------------------------
(* The engine kept for a retry.                                            *)

LEMMA PendingWrites ==
  ASSUME ProcessPending
  PROVE  /\ Create \/ LoadSucceeds \/ LoadFails \/ UNCHANGED activeLoading
         /\ Placed \/ UNCHANGED maxRunners
<1>1. CASE TakePending \/ DrainUnloaded \/ Wake
  BY <1>1 DEF TakePending, DrainUnloaded, Wake, mapVars
<1>2. CASE Look \/ PendingCheck \/ Caps \/ PickShared \/ PickOn \/ Scan \/ Visit
           \/ LoadRequiresFull \/ EvictAll
  <2>1. OnlyPend
    BY <1>2 DEF Look, PendingCheck, Caps, PickShared, PickOn, Scan, Visit, LoadRequiresFull,
                EvictAll
  <2>2. QED
    BY <2>1 DEF OnlyPend, mapVars
<1>3. CASE PendingUse \/ ExpireVictim \/ EvictOne
  BY <1>3 DEF PendingUse, ExpireVictim, EvictOne, mapVars
<1>4. CASE Placed \/ Create \/ LoadFails \/ LoadSucceeds
  BY <1>4 DEF Placed, Create, LoadFails, LoadSucceeds
<1>5. QED
  BY <1>1, <1>2, <1>3, <1>4 DEF ProcessPending

\* Nobody but the pending loop writes these two.
LEMMA OthersWrite ==
  ASSUME [Next]_vars
  PROVE  ProcessPending \/ UNCHANGED <<pend, activeLoading, maxRunners>>
<1>1. CASE \E r \in Requests : GetRunner(r)
  BY <1>1, GetRunnerFrame DEF mapVars
<1>2. CASE ProcessCompleted
  BY <1>2, ProcessCompletedFrame
<1>3. CASE \E g \in Runners : RunnerStep(g)
  BY <1>3, RunnerStepFrame DEF mapVars
<1>4. CASE ExpireRunner \/ ExpireRunnersForRuntimeOOM
  BY <1>4, StopRunnersFrame DEF ExpireRunner, ExpireRunnersForRuntimeOOM, mapVars
<1>5. CASE UNCHANGED vars
  BY <1>5 DEF vars, mapVars
<1>6. QED
  BY <1>1, <1>2, <1>3, <1>4, <1>5 DEF Next

\* A key that is free stays free but for a load.
LEMMA KeyStays ==
  ASSUME TypeOK, [Next]_vars, ~LoadSucceeds, NEW m \in Models, loaded[m] = NoRunner
  PROVE  loaded'[m] = NoRunner
<1>1. loaded \in [Models -> Runners \cup {NoRunner}]
  BY DEF TypeOK, MapTyped
<1>2. CASE Unload
  BY <1>1, <1>2 DEF Unload
<1>3. QED
  BY <1>2, MapChanges

\* An answer is not taken back.
LEMMA AnswersStay ==
  ASSUME TypeOK, [Next]_vars, NEW r \in Requests, Answered(r)
  PROVE  Answered(r)'
<1> DEFINE Grows == UNCHANGED answers \/ \E q : answers' = [answers EXCEPT ![q] = @ + 1]
<1>1. ASSUME NEW q \in Requests, GetRunner(q) PROVE Grows
  <2>1. CASE LookUp(q) \/ FastCheck(q) \/ ClientDone(q) \/ ClientCancel(q)
    BY <2>1 DEF LookUp, FastCheck, ClientDone, ClientCancel, answerVars
  <2>2. CASE FastUse(q) \/ Enqueue(q)
    BY <2>2 DEF FastUse, UseLoadedRunner, Enqueue
  <2>3. QED
    BY <1>1, <2>1, <2>2 DEF GetRunner
<1>2. ASSUME ProcessPending PROVE Grows
  <2>1. CASE TakePending \/ LoadSucceeds
    BY <2>1 DEF TakePending, LoadSucceeds, NoAnswer
  <2>2. QED
    BY <1>2, <2>1, PendingKeeps
<1>3. ASSUME ProcessCompleted PROVE Grows
  BY <1>3, ProcessCompletedFrame DEF answerVars
<1>4. ASSUME NEW g \in Runners, RunnerStep(g) PROVE Grows
  <2>1. CASE LoadRunning(g) \/ LoadAborted(g)
    BY <2>1 DEF LoadRunning, LoadAborted, SendErr
  <2>2. CASE ~LoadRunning(g) /\ ~LoadAborted(g)
    BY <1>4, <2>2 DEF RunnerStep, TimerFires, TimerCallback, Resend, SendUnblocks, StopOne,
                      EngineCrash, requestVars
  <2>3. QED
    BY <2>1, <2>2
<1>5. ASSUME ExpireRunner \/ ExpireRunnersForRuntimeOOM \/ UNCHANGED vars
      PROVE  Grows
  BY <1>5, StopRunnersFrame
     DEF ExpireRunner, ExpireRunnersForRuntimeOOM, vars, requestVars
<1>6. Grows
  BY <1>1, <1>2, <1>3, <1>4, <1>5 DEF Next
<1>7. answers \in [Requests -> Nat]
  BY DEF TypeOK, RequestsTyped
<1>8. QED
  BY <1>6, <1>7 DEF Answered

\* A step of the pending loop that keeps the engine goes on with its request, or
\* refuses its pin.
LEMMA RetryGoesOn ==
  ASSUME TypeOK, activeLoading # NoRunner, InRetry, ProcessPending, UNCHANGED activeLoading,
         loaded[ModelOf[activeLoading]] = NoRunner, ~LoadSucceeds, ~LoadFails
  PROVE  InRetry' \/ LeftByPin(activeLoading)'
<1>0. pend \in PendType /\ PendBusy /\ activeLoading \in Requests
  BY DEF TypeOK, PendTyped, MapTyped
<1>1. CASE TakePending \/ DrainUnloaded \/ PendingCheck \/ PendingUse
  BY <1>1 DEF InRetry, TakePending, DrainUnloaded, PendingCheck, PendingUse, At
<1>2. CASE Look
  BY <1>0, <1>2 DEF InRetry, Look, At, PendType
<1>3. CASE Caps \/ PickShared \/ PickOn
  BY <1>0, <1>3 DEF InRetry, Caps, PickShared, PickOn, PickAmong, At, PendType
<1>4. CASE Scan
  BY <1>0, <1>4 DEF InRetry, Scan, At, PendType
<1>5. CASE Visit
  BY <1>0, <1>5 DEF InRetry, Visit, At, PendType
<1>6. CASE Placed
  <2>1. CASE pend' = [pend EXCEPT !.pc = "create"]
    BY <1>0, <1>6, <2>1 DEF InRetry, Placed, At, PendType
  <2>2. CASE pend.req \in Pinned /\ SendErr(pend.req)
    <3>1. answers \in [Requests -> Nat] BY DEF TypeOK, RequestsTyped
    <3>2. Answered(activeLoading)' BY <1>0, <2>2, <3>1 DEF InRetry, SendErr, Answered
    <3>3. ModelOf[activeLoading] \in FullFitModels BY <1>6 DEF InRetry, Placed, At
    <3> QED BY <2>2, <3>2, <3>3 DEF InRetry, LeftByPin
  <2> QED BY <1>6, <2>1, <2>2 DEF Placed
<1>7. CASE LoadRequiresFull
  BY <1>0, <1>7 DEF InRetry, LoadRequiresFull, NeedEvict, At, PendType
<1>8. CASE ExpireVictim \/ EvictAll \/ EvictOne
  BY <1>0, <1>8 DEF InRetry, ExpireVictim, EvictAll, EvictOne, At, PendType
<1>9. CASE Wake
  BY <1>0, <1>9 DEF InRetry, Wake, At, PendType
<1>10. CASE Create
  BY <1>0, <1>10 DEF InRetry, Create, At, PendType
<1> QED
  BY <1>1, <1>2, <1>3, <1>4, <1>5, <1>6, <1>7, <1>8, <1>9, <1>10 DEF ProcessPending

\* Only a load that finds an engine of another model panics.
LEMMA PanicStep ==
  ASSUME TypeOK, Retrying, [Next]_vars, pend'.pc = "panic"
  PROVE  activeLoading' # NoRunner
<1>0. pend \in PendType /\ Idle.pc = "idle"
  BY DEF TypeOK, PendTyped, Idle
<1>1. CASE UNCHANGED <<pend, activeLoading>>
  BY <1>1 DEF Retrying
<1>2. CASE ProcessPending
  <2>1. CASE Create
    BY <1>0, <2>1 DEF Create, NeedEvict, PendType
  <2>2. CASE LoadSucceeds \/ LoadFails \/ LoadRequiresFull
    BY <1>0, <2>2 DEF LoadSucceeds, LoadFails, LoadRequiresFull, NeedEvict, PendType
  <2>3. CASE TakePending \/ DrainUnloaded
    BY <1>0, <1>1, <2>3 DEF TakePending, DrainUnloaded, At, PendType, mapVars
  <2>4. CASE Look \/ PendingCheck \/ PendingUse \/ Visit \/ Placed
    BY <1>0, <2>4 DEF Look, PendingCheck, PendingUse, Visit, Placed, At, PendType
  <2>5. CASE Caps \/ PickShared \/ PickOn \/ Scan
    BY <1>0, <2>5 DEF Caps, PickShared, PickOn, PickAmong, Scan, PendType
  <2>6. CASE ExpireVictim \/ EvictAll \/ EvictOne \/ Wake
    BY <1>0, <2>6 DEF ExpireVictim, EvictAll, EvictOne, Wake, At, PendType
  <2>7. QED
    BY <1>2, <2>1, <2>2, <2>3, <2>4, <2>5, <2>6 DEF ProcessPending
<1>3. QED
  BY <1>1, <1>2, OthersWrite

LEMMA RetryingKept ==
  ASSUME TypeOK, KeyFreeWhileLoading, Retrying, [Next]_vars
  PROVE  Retrying'
<1> DEFINE KeyFree == loaded'[ModelOf[activeLoading']] = NoRunner
<1> SUFFICES ASSUME activeLoading' # NoRunner
             PROVE  KeyFree /\ (InRetry' \/ LeftByPin(activeLoading)')
  BY PanicStep DEF Retrying
<1>0. pend \in PendType /\ PendBusy /\ activeLoading \in Requests \cup {NoRunner}
      /\ ModelOf \in [Requests -> Models]
  BY ConstantsAssumption DEF TypeOK, PendTyped, MapTyped, ConstantsAssumption
<1>1. ~LoadSucceeds /\ ~LoadFails
  BY DEF LoadSucceeds, LoadFails
<1>2. CASE Create /\ activeLoading = NoRunner
  <2>1. pend.pc = "create" /\ pend.req \in Requests /\ loaded' = loaded
    BY <1>0, <1>2 DEF Create, At, PendBusy
  <2>2. loaded[ModelOf[pend.req]] = NoRunner
    BY <2>1 DEF KeyFreeWhileLoading
  <2>3. activeLoading' = pend.req /\ pend'.pc = "load" /\ pend'.req = pend.req
    BY <1>0, <1>2 DEF Create, PendType
  <2>4. QED
    BY <2>1, <2>2, <2>3 DEF InRetry
<1>3. CASE UNCHANGED activeLoading
  <2>1. loaded[ModelOf[activeLoading]] = NoRunner /\ (InRetry \/ LeftByPin(activeLoading))
    BY <1>3 DEF Retrying
  <2>2. KeyFree
    BY <1>0, <1>1, <1>3, <2>1, KeyStays
  <2>3. CASE LeftByPin(activeLoading)
    BY <1>0, <1>3, <2>2, <2>3, AnswersStay DEF LeftByPin
  <2>4. CASE InRetry
    <3>1. CASE UNCHANGED pend BY <1>3, <2>2, <2>4, <3>1 DEF InRetry
    <3>2. CASE ProcessPending BY <1>1, <1>3, <2>1, <2>2, <2>4, <3>2, RetryGoesOn
    <3> QED BY <3>1, <3>2, OthersWrite
  <2>5. QED
    BY <2>1, <2>2, <2>3, <2>4
<1>4. QED
  BY <1>1, <1>2, <1>3, PendingWrites, OthersWrite DEF Create

\* An engine kept for a retry is that of the request in hand, or was left behind
\* when a device pin was refused to a request whose model wants a full fit.
THEOREM RetryInHand == Spec => []ActiveLoadingCurrent
<1>1. Init => Retrying
  BY DEF Init, Idle, Retrying
<1>2. TypeOK /\ KeyFreeWhileLoading /\ Retrying /\ [Next]_vars => Retrying'
  BY RetryingKept
<1>3. Retrying => ActiveLoadingCurrent
  BY DEF Retrying, InRetry, ActiveLoadingCurrent
<1>4. QED
  BY <1>1, <1>2, <1>3, TypeCorrect, KeyStaysFree, PTL DEF Spec

\* The panic of load() at sched.go:690 has one cause: the engine it finds was left
\* behind when a device pin was refused to a request whose model wants a full fit.
THEOREM PanicAfterRefusedPin ==
  Spec => [](pend.pc = "panic" => activeLoading # NoRunner /\ LeftByPin(activeLoading))
<1>1. Init => Retrying
  BY DEF Init, Idle, Retrying
<1>2. TypeOK /\ KeyFreeWhileLoading /\ Retrying /\ [Next]_vars => Retrying'
  BY RetryingKept
<1>3. Retrying => (pend.pc = "panic" => activeLoading # NoRunner /\ LeftByPin(activeLoading))
  BY DEF Retrying, InRetry
<1>4. QED
  BY <1>1, <1>2, <1>3, TypeCorrect, KeyStaysFree, PTL DEF Spec

-----------------------------------------------------------------------------
(* The caps.                                                               *)

LEMMA KeysFinite ==
  ASSUME NEW S \in SUBSET Models
  PROVE  IsFiniteSet(Keys(S)) /\ Cardinality(Keys(S)) \in Nat
BY FS_Subset, FS_CardinalityType, ConstantsAssumption DEF ConstantsAssumption, Keys

\* The keys in use only become fewer, but for the one a load adds.
LEMMA KeysShrink ==
  ASSUME TypeOK, [Next]_vars, ~LoadSucceeds, NEW S \in SUBSET Models
  PROVE  /\ Keys(S)' \subseteq Keys(S)
         /\ Cardinality(Keys(S))' \in Nat /\ Cardinality(Keys(S))' <= Cardinality(Keys(S))
<1>1. Keys(S)' \subseteq Keys(S)
  BY KeyStays DEF Keys
<1>2. QED
  BY <1>1, KeysFinite, FS_Subset, FS_CardinalityType

LEMMA KeysGrow ==
  ASSUME TypeOK, LoadSucceeds, NEW S \in SUBSET Models
  PROVE  /\ Cardinality(Keys(S))' \in Nat
         /\ ModelOf[pend.req] \notin S => Cardinality(Keys(S))' = Cardinality(Keys(S))
         /\ Cardinality(Keys(S))' <= Cardinality(Keys(S)) + 1
<1>1. pend.req \in Requests /\ loaded \in [Models -> Runners \cup {NoRunner}]
  BY DEF LoadSucceeds, At, TypeOK, PendTyped, PendBusy, MapTyped
<1>2. loaded' = [loaded EXCEPT ![ModelOf[pend.req]] = pend.req] /\ pend.req # NoRunner
  BY <1>1, ConstantsAssumption DEF LoadSucceeds, ConstantsAssumption
<1> DEFINE m == ModelOf[pend.req]
<1>3. Keys(S)' = IF m \in S THEN Keys(S) \cup {m} ELSE Keys(S)
  BY <1>1, <1>2 DEF Keys
<1>4. IsFiniteSet(Keys(S)) /\ Cardinality(Keys(S)) \in Nat
  BY KeysFinite
<1>5. /\ Cardinality(Keys(S) \cup {m}) \in Nat
      /\ Cardinality(Keys(S) \cup {m}) <= Cardinality(Keys(S)) + 1
  BY <1>4, FS_AddElement
<1>6. QED
  BY <1>3, <1>4, <1>5

\* The sets of models that are counted do not change.
LEMMA Pools ==
  /\ SharedPool \in SUBSET Models /\ UNCHANGED SharedPool
  /\ \A k \in Kinds : OfKind(k) \in SUBSET Models /\ UNCHANGED OfKind(k)
BY DEF SharedPool, InSharedPool, OfKind

\* What the caps say of one pool and of one kind.
PoolBound == maxRunners > 0 => Cardinality(Keys(SharedPool)) <= maxRunners
KindBound(k) == KindLimit[k] > 0 => Cardinality(Keys(OfKind(k))) <= KindLimit[k]

\* maxRunners is set once, while nothing is loaded.
LEMMA LimitsKept ==
  ASSUME TypeOK, RoomLeft, [Next]_vars
  PROVE  /\ maxRunners \in Nat /\ maxRunners' \in Nat
         /\ UNCHANGED maxRunners \/ (Placed /\ maxRunners = 0 /\ maxRunners' > 0)
         /\ Placed => maxRunners' > 0
<1>1. maxRunners \in Nat /\ AutoRunners \in Nat \ {0}
  BY ConstantsAssumption DEF TypeOK, MapTyped, ConstantsAssumption
<1>2. CASE Placed
  BY <1>1, <1>2 DEF Placed
<1>3. QED
  BY <1>1, <1>2, PendingWrites, OthersWrite

LEMMA RoomStays ==
  ASSUME TypeOK, RoomLeft, [Next]_vars, ~LoadSucceeds, NEW m \in Models, RoomFor(m)
  PROVE  RoomFor(m)'
<1>1. KindsOf[m] \subseteq Kinds /\ KindLimit \in [Kinds -> Nat]
  BY ConstantsAssumption DEF ConstantsAssumption
<1>2. ASSUME NEW k \in KindsOf[m] PROVE ~AtKindCap(k)'
  <2>1. /\ Cardinality(Keys(OfKind(k))) \in Nat /\ Cardinality(Keys(OfKind(k)))' \in Nat
        /\ Cardinality(Keys(OfKind(k)))' <= Cardinality(Keys(OfKind(k)))
    BY <1>1, Pools, KeysFinite, KeysShrink
  <2>2. ~AtKindCap(k) /\ KindLimit[k] \in Nat
    BY <1>1 DEF RoomFor
  <2>3. QED
    BY <2>1, <2>2 DEF AtKindCap
<1>3. ~AtSharedCap(m)'
  <2>1. /\ Cardinality(Keys(SharedPool)) \in Nat /\ Cardinality(Keys(SharedPool))' \in Nat
        /\ Cardinality(Keys(SharedPool))' <= Cardinality(Keys(SharedPool))
    BY Pools, KeysFinite, KeysShrink
  <2>2. CASE UNCHANGED maxRunners
    BY <2>1, <2>2, LimitsKept DEF RoomFor, AtSharedCap, InSharedPool
  <2>3. CASE maxRunners = 0 /\ maxRunners' > 0
    <3>1. Keys(SharedPool) = {}
      BY <2>3, Pools DEF RoomLeft, Keys
    <3>2. Cardinality(Keys(SharedPool))' = 0
      BY <2>1, <3>1, FS_EmptySet
    <3>3. QED
      BY <2>3, <3>2, LimitsKept DEF AtSharedCap
  <2>4. QED
    BY <2>2, <2>3, LimitsKept
<1>4. QED
  BY <1>2, <1>3 DEF RoomFor

LEMMA NeedEvictOut ==
  ASSUME pend \in PendType, NEW b
  PROVE  NeedEvict(b).req = pend.req /\ NeedEvict(b).pc \in {"look", "evictAll", "pickOn"}
BY DEF NeedEvict, PendType

\* The labels behind the caps are entered through the caps.
LEMMA BehindCaps ==
  ASSUME TypeOK, ProcessPending, pend'.pc \in {"visit", "create", "load"}
  PROVE  /\ pend'.req = pend.req /\ pend.req \in Requests /\ ~LoadSucceeds
         /\ pend.pc \in {"visit", "create", "load"} \/ RoomFor(ModelOf[pend.req])
         /\ pend'.pc \in {"create", "load"} => pend.pc \in {"create", "load"} \/ Placed
<1>0. pend \in PendType /\ PendBusy
  BY DEF TypeOK, PendTyped
<1>1. CASE TakePending \/ DrainUnloaded \/ Look \/ PendingCheck \/ PendingUse
  <2>1. CASE TakePending \/ DrainUnloaded
    BY <1>0, <2>1 DEF TakePending, DrainUnloaded, At, PendType
  <2>2. CASE Look
    BY <1>0, <2>2 DEF Look, PendType
  <2>3. CASE PendingCheck \/ PendingUse
    BY <1>0, <2>3 DEF PendingCheck, PendingUse, Idle, PendType
  <2>4. QED
    BY <1>1, <2>1, <2>2, <2>3
<1>2. CASE Caps
  <2>1. pend.pc = "caps" /\ pend.req \in Requests
    BY <1>0, <1>2 DEF Caps, At, PendBusy
  <2>2. pend' = [pend EXCEPT !.pc = "visit", !.rest = LoadedRunners(Models)]
        /\ RoomFor(ModelOf[pend.req])
    BY <1>0, <1>2 DEF Caps, PickAmong, RoomFor, PendType
  <2>3. QED
    BY <1>0, <2>1, <2>2 DEF LoadSucceeds, At, PendType
<1>3. CASE PickShared \/ PickOn \/ Scan
  BY <1>0, <1>3 DEF PickShared, PickOn, PickAmong, Scan, PendType
<1>4. CASE Visit
  BY <1>0, <1>4 DEF Visit, At, PendType, PendBusy, LoadSucceeds
<1>5. CASE Placed
  BY <1>0, <1>5 DEF Placed, At, PendType, PendBusy, LoadSucceeds, Idle
<1>6. CASE Create
  <2>1. pend.pc = "create" /\ pend.req \in Requests /\ ~LoadSucceeds
    BY <1>0, <1>6 DEF Create, At, PendBusy, LoadSucceeds
  <2>2. pend' # Idle /\ pend' # NeedEvict(pend.oomRetry)
    <3>1. Idle.pc = "idle" /\ NeedEvict(pend.oomRetry).pc \in {"look", "evictAll", "pickOn"}
      BY <1>0, NeedEvictOut DEF Idle
    <3>2. QED
      BY <3>1
  <2>3. pend'.req = pend.req
    BY <1>0, <1>6, <2>2 DEF Create, PendType
  <2>4. QED
    BY <2>1, <2>3
<1>7. CASE LoadSucceeds
  BY <1>7 DEF LoadSucceeds, Idle
<1>8. CASE LoadRequiresFull \/ LoadFails
  <2>1. pend' = Idle \/ pend' = NeedEvict(pend.oomRetry) \/ pend' = NeedEvict(TRUE)
    BY <1>8 DEF LoadRequiresFull, LoadFails
  <2>2. /\ Idle.pc = "idle"
        /\ NeedEvict(pend.oomRetry).pc \in {"look", "evictAll", "pickOn"}
        /\ NeedEvict(TRUE).pc \in {"look", "evictAll", "pickOn"}
    BY <1>0, NeedEvictOut DEF Idle
  <2>3. QED
    BY <2>1, <2>2
<1>9. CASE ExpireVictim \/ EvictAll \/ EvictOne
  BY <1>0, <1>9 DEF ExpireVictim, EvictAll, EvictOne, PendType
<1>10. CASE Wake
  BY <1>0, <1>10 DEF Wake, At, PendType
<1>11. QED
  BY <1>1, <1>2, <1>3, <1>4, <1>5, <1>6, <1>7, <1>8, <1>9, <1>10 DEF ProcessPending

LEMMA RoomKept ==
  ASSUME TypeOK, RoomLeft, [Next]_vars
  PROVE  RoomLeft'
<1>1. pend'.pc \in {"visit", "create", "load"} => RoomFor(ModelOf[pend.req])' /\ pend'.req = pend.req
  <2> SUFFICES ASSUME pend'.pc \in {"visit", "create", "load"}
               PROVE  RoomFor(ModelOf[pend.req])' /\ pend'.req = pend.req
    OBVIOUS
  <2>1. pend'.req = pend.req /\ pend.req \in Requests /\ ~LoadSucceeds
        /\ RoomFor(ModelOf[pend.req])
    <3>1. CASE ProcessPending
      BY <3>1, BehindCaps DEF RoomLeft
    <3>2. CASE UNCHANGED pend
      <4>1. pend.req \in Requests
        BY <3>2 DEF TypeOK, PendTyped, PendBusy
      <4>2. ~LoadSucceeds
        BY DEF LoadSucceeds, Idle
      <4>3. QED
        BY <3>2, <4>1, <4>2 DEF RoomLeft
    <3>3. QED
      BY <3>1, <3>2, OthersWrite
  <2>2. ModelOf[pend.req] \in Models
    BY <2>1, ConstantsAssumption DEF ConstantsAssumption
  <2>3. QED
    BY <2>1, <2>2, RoomStays
<1>2. pend'.pc \in {"create", "load"} => maxRunners' > 0
  <2>1. CASE ProcessPending
    BY <2>1, BehindCaps, LimitsKept DEF RoomLeft
  <2>2. CASE UNCHANGED pend
    BY <2>2, LimitsKept DEF RoomLeft
  <2>3. QED
    BY <2>1, <2>2, OthersWrite
<1>3. maxRunners' = 0 => Keys(Models)' = {}
  <2>1. LoadSucceeds => maxRunners' > 0
    BY LimitsKept DEF LoadSucceeds, At, RoomLeft, Placed
  <2>2. ~LoadSucceeds => Keys(Models)' \subseteq Keys(Models)
    BY KeysShrink
  <2>3. QED
    BY <2>1, <2>2, LimitsKept DEF RoomLeft
<1>4. ModelOf' = ModelOf
  OBVIOUS
<1>5. QED
  BY <1>1, <1>2, <1>3, <1>4 DEF RoomLeft, RoomFor, AtKindCap, AtSharedCap, InSharedPool, OfKind,
                                SharedPool, Keys

LEMMA CapsKept ==
  ASSUME TypeOK, RoomLeft, CapsRespected, [Next]_vars
  PROVE  CapsRespected'
<1>1. \A S \in SUBSET Models : Cardinality(Keys(S)) \in Nat
  BY KeysFinite
<1>2. KindLimit \in [Kinds -> Nat] /\ maxRunners \in Nat /\ maxRunners' \in Nat
  BY LimitsKept, ConstantsAssumption DEF ConstantsAssumption
<1>3. CASE LoadSucceeds
  <2>1. RoomFor(ModelOf[pend.req]) /\ ModelOf[pend.req] \in Models /\ UNCHANGED maxRunners
        /\ maxRunners > 0
    BY <1>3, ConstantsAssumption
    DEF LoadSucceeds, At, RoomLeft, TypeOK, PendTyped, PendBusy, ConstantsAssumption
  <2> DEFINE m == ModelOf[pend.req]
  <2>2. PoolBound'
    <3>1. m \in SharedPool => Cardinality(Keys(SharedPool)) < maxRunners
      BY <1>1, <1>2, <2>1, Pools DEF RoomFor, AtSharedCap, SharedPool
    <3>2. Cardinality(Keys(SharedPool)) <= maxRunners
      BY <2>1 DEF CapsRespected
    <3>3. /\ Cardinality(Keys(SharedPool))' \in Nat
          /\ m \notin SharedPool => Cardinality(Keys(SharedPool))' = Cardinality(Keys(SharedPool))
          /\ Cardinality(Keys(SharedPool))' <= Cardinality(Keys(SharedPool)) + 1
      BY <1>3, Pools, KeysGrow
    <3>4. QED
      BY <1>1, <1>2, <2>1, <3>1, <3>2, <3>3, Pools DEF PoolBound
  <2>3. ASSUME NEW k \in Kinds PROVE KindBound(k)'
    <3>1. KindLimit[k] > 0 /\ m \in OfKind(k) => Cardinality(Keys(OfKind(k))) < KindLimit[k]
      BY <1>1, <1>2, <2>1, Pools DEF RoomFor, AtKindCap, OfKind
    <3>2. KindLimit[k] > 0 => Cardinality(Keys(OfKind(k))) <= KindLimit[k]
      BY DEF CapsRespected
    <3>3. /\ Cardinality(Keys(OfKind(k)))' \in Nat
          /\ m \notin OfKind(k) => Cardinality(Keys(OfKind(k)))' = Cardinality(Keys(OfKind(k)))
          /\ Cardinality(Keys(OfKind(k)))' <= Cardinality(Keys(OfKind(k))) + 1
      BY <1>3, Pools, KeysGrow
    <3>4. Cardinality(Keys(OfKind(k))) \in Nat /\ KindLimit[k] \in Nat
      BY <1>1, <1>2, Pools
    <3>5. KindLimit[k] > 0 => Cardinality(Keys(OfKind(k)))' <= KindLimit[k]
      BY <3>1, <3>2, <3>3, <3>4
    <3>6. QED
      BY <3>5, Pools DEF KindBound
  <2>4. QED
    BY <2>2, <2>3 DEF CapsRespected, PoolBound, KindBound
<1>4. CASE ~LoadSucceeds
  <2>1. PoolBound'
    <3>1. /\ Cardinality(Keys(SharedPool))' \in Nat
          /\ Cardinality(Keys(SharedPool))' <= Cardinality(Keys(SharedPool))
          /\ Cardinality(Keys(SharedPool)) \in Nat
      BY <1>1, <1>4, Pools, KeysShrink
    <3>2. CASE UNCHANGED maxRunners
      BY <1>2, <3>1, <3>2 DEF PoolBound, CapsRespected
    <3>3. CASE maxRunners = 0
      <4>1. Keys(SharedPool) = {}
        BY <3>3, Pools DEF RoomLeft, Keys
      <4>2. Cardinality(Keys(SharedPool)) = 0
        BY <4>1, FS_EmptySet
      <4>3. QED
        BY <1>2, <3>1, <4>2 DEF PoolBound
    <3>4. QED
      BY <3>2, <3>3, LimitsKept
  <2>2. ASSUME NEW k \in Kinds PROVE KindBound(k)'
    <3>1. /\ Cardinality(Keys(OfKind(k)))' \in Nat
          /\ Cardinality(Keys(OfKind(k)))' <= Cardinality(Keys(OfKind(k)))
          /\ Cardinality(Keys(OfKind(k))) \in Nat /\ KindLimit[k] \in Nat
      BY <1>1, <1>2, <1>4, Pools, KeysShrink
    <3>2. KindLimit[k] > 0 => Cardinality(Keys(OfKind(k)))' <= KindLimit[k]
      BY <3>1 DEF CapsRespected
    <3>3. QED
      BY <3>2, Pools DEF KindBound
  <2>3. QED
    BY <2>1, <2>2 DEF CapsRespected, PoolBound, KindBound
<1>5. QED
  BY <1>3, <1>4

\* OLLAMA_MAX_LOADED_MODELS and the caps per kind are never exceeded.
THEOREM CapsHold == Spec => []CapsRespected
<1>1. Init => RoomLeft /\ CapsRespected
  <2> SUFFICES ASSUME Init PROVE RoomLeft /\ CapsRespected
    OBVIOUS
  <2>1. \A S \in SUBSET Models : Keys(S) = {} /\ Cardinality(Keys(S)) = 0
    BY FS_EmptySet DEF Init, Keys
  <2>2. pend.pc = "idle" /\ maxRunners \in Nat /\ KindLimit \in [Kinds -> Nat]
    BY ConstantsAssumption DEF Init, Idle, ConstantsAssumption
  <2>3. RoomLeft
    BY <2>1, <2>2 DEF RoomLeft
  <2>4. QED
    BY <2>1, <2>2, <2>3, Pools DEF CapsRespected
<1>2. TypeOK /\ RoomLeft /\ CapsRespected /\ [Next]_vars => RoomLeft' /\ CapsRespected'
  BY RoomKept, CapsKept
<1>3. QED
  BY <1>1, <1>2, TypeCorrect, PTL DEF Spec
=============================================================================
