---------------------------- MODULE VideoJobsProofs ----------------------------
(* Machine-checked proofs about VideoJobs, for any jobs, requests, engines    *)
(* and times.                                                                 *)
EXTENDS VideoJobs, TLAPS

-----------------------------------------------------------------------------
(* Types and holds: a timer that is set and a clock that runs bound each      *)
(* other, so the types need the bound on the hold.                            *)

Types == TypeOK /\ HoldBounded

USE JobsAssumption DEF Procs, NoTimer, Never, Done


\* The hold of a job that is told to end is bounded by the time it is given.
LEMMA EndAfterHolds ==
  ASSUME Types, NEW j \in Jobs, NEW d \in 0 .. Keep, EndAfter(j, d), ended' = ended,
         \/ sinceFetch' = sinceFetch
         \/ d = Fetched /\ sinceFetch' = [sinceFetch EXCEPT ![j] = IF @ = Never THEN 0 ELSE @]
  PROVE  /\ timer' \in [Jobs -> 0 .. NoTimer]
         /\ heldFor' \in [Jobs -> 0 .. Never] /\ sinceFetch' \in [Jobs -> 0 .. Never]
         /\ HoldBounded'
<1>1. timer' \in [Jobs -> 0 .. NoTimer] /\ heldFor' \in [Jobs -> 0 .. Never]
  BY DEF Types, TypeOK, EndAfter
<1>2. sinceFetch' \in [Jobs -> 0 .. Never]
  BY DEF Types, TypeOK
<1>3. ASSUME NEW i \in Jobs, i \notin ended, heldFor'[i] # Never PROVE heldFor'[i] + timer'[i] <= Keep
  BY <1>3 DEF Types, TypeOK, EndAfter, HoldBounded
<1>4. timer'[j] <= d /\ \A i \in Jobs : timer'[i] <= timer[i]
  BY DEF Types, TypeOK, EndAfter
<1>5. ASSUME NEW i \in Jobs, i \notin ended, sinceFetch'[i] # Never PROVE sinceFetch'[i] + timer'[i] <= Fetched
  <2>1. CASE sinceFetch' = sinceFetch
    BY <1>1, <1>4, <1>5, <2>1 DEF Types, TypeOK, HoldBounded
  <2>2. CASE d = Fetched /\ sinceFetch' = [sinceFetch EXCEPT ![j] = IF @ = Never THEN 0 ELSE @]
    BY <1>1, <1>4, <1>5, <2>2 DEF Types, TypeOK, HoldBounded
  <2>3. QED
    BY <2>1, <2>2
<1>6. QED
  BY <1>1, <1>2, <1>3, <1>5 DEF HoldBounded

\* A job that ends.
LEMMA EndType ==
  ASSUME Types, NEW j \in Jobs, End(j), UNCHANGED <<timer, heldFor, sinceFetch, gone>>
  PROVE  /\ table' \in SUBSET Jobs /\ ended' \in SUBSET Jobs /\ gone' \in SUBSET ended'
         /\ HoldBounded'
BY DEF Types, TypeOK, End, HoldBounded

LEMMA MakeType ==
  ASSUME Types, NEW j \in Jobs, Make(j) PROVE Types'
<1>1. CASE Create(j)
  BY <1>1 DEF Types, TypeOK, HoldBounded, Create, jobVars, procVars, clocks
<1>2. CASE LoadOk(j)
  <2>1. PICK e \in Engines : engine' = [engine EXCEPT ![e] = "up"] /\ runner' = [runner EXCEPT ![j] = e]
    BY <1>2 DEF LoadOk
  <2>2. QED
    BY <1>2, <2>1 DEF Types, TypeOK, HoldBounded, LoadOk, jobVars, procVars, clocks
<1>3. CASE LoadFails(j)
  BY <1>3 DEF Types, TypeOK, HoldBounded, LoadFails, jobVars, procVars, clocks
<1>4. CASE Disarm(j)
  BY <1>4 DEF Types, TypeOK, HoldBounded, Disarm, procVars, clocks
<1>5. CASE PostOk(j)
  BY <1>5 DEF Types, TypeOK, HoldBounded, PostOk, jobVars, procVars, clocks
<1>6. CASE PostFails(j)
  BY <1>6 DEF Types, TypeOK, HoldBounded, PostFails, procVars, clocks
<1>7. CASE Insert(j)
  BY <1>7 DEF Types, TypeOK, HoldBounded, Insert, clocks
<1>8. QED
  BY <1>1, <1>2, <1>3, <1>4, <1>5, <1>6, <1>7 DEF Make

LEMMA LookType ==
  ASSUME Types, NEW p \in Procs, Look(p) PROVE Types'
<1>1. CASE CheckLost(p)
  <2>1. on[p] \in Jobs /\ maker[on[p]] = "made" /\ pc[p] = "check"
    BY <1>1 DEF Types, TypeOK, CheckLost
  <2>2. UNCHANGED <<engine, clip, makerVars, last, lost, timer, gone, released, clocks>>
    BY <1>1 DEF CheckLost
  <2>3. CASE UNCHANGED <<table, ended>> /\ (Goto(p, "ask") \/ Goto(p, "lose"))
    BY <2>1, <2>2, <2>3 DEF Types, TypeOK, HoldBounded, Goto, Heard, makerVars, clocks
  <2>4. CASE UNCHANGED <<table, ended>> /\ Leave(p)
    BY <2>1, <2>2, <2>4 DEF Types, TypeOK, HoldBounded, Leave, makerVars, clocks
  <2>5. CASE Leave(p) /\ End(on[p])
    <3>1. /\ table' \in SUBSET Jobs /\ ended' \in SUBSET Jobs /\ gone' \in SUBSET ended'
          /\ HoldBounded'
      BY <2>1, <2>2, <2>5, EndType DEF clocks
    <3>2. QED
      BY <2>1, <2>2, <2>5, <3>1 DEF Types, TypeOK, Leave, makerVars, clocks
  <2>6. QED
    BY <1>1, <2>3, <2>4, <2>5 DEF CheckLost
<1>2. CASE Answered(p)
  BY <1>2 DEF Types, TypeOK, HoldBounded, Answered, Heard, EngineSays, makerVars, jobVars, clocks
<1>3. CASE Unanswered(p)
  <2>1. PICK r \in {"error", "refused"} : Heard(p, "reply", r)
    BY <1>3 DEF Unanswered
  <2>2. QED
    BY <1>3, <2>1 DEF Types, TypeOK, HoldBounded, Unanswered, Heard, makerVars, jobVars, clocks
<1>4. CASE Store(p)
  BY <1>4 DEF Types, TypeOK, HoldBounded, Store, Goto, Heard, makerVars, clocks
<1>5. CASE NoAnswer(p)
  BY <1>5 DEF Types, TypeOK, HoldBounded, NoAnswer, Goto, Heard, makerVars, jobVars, clocks
<1>6. CASE Lose(p)
  BY <1>6 DEF Types, TypeOK, HoldBounded, Lose, Heard, makerVars, clocks
<1>7. CASE LoseReleases(p)
  <2>1. on[p] \in Jobs /\ maker[on[p]] = "made" /\ pc[p] = "losing"
    BY <1>7 DEF Types, TypeOK, LoseReleases
  <2>2. /\ timer' \in [Jobs -> 0 .. NoTimer]
        /\ heldFor' \in [Jobs -> 0 .. Never] /\ sinceFetch' \in [Jobs -> 0 .. Never]
        /\ HoldBounded'
    BY <1>7, <2>1, EndAfterHolds DEF LoseReleases
  <2>3. QED
    BY <1>7, <2>1, <2>2 DEF Types, TypeOK, LoseReleases, Goto, Heard, makerVars
<1>8. QED
  BY <1>1, <1>2, <1>3, <1>4, <1>5, <1>6, <1>7 DEF Look

\* What a step of watch or of a handler does to its job: nothing, or one of
\* the two ways to end it.
LEMMA LeaveType ==
  ASSUME Types, NEW p \in Procs, NEW j \in Jobs, Leave(p) \/ Goto(p, "tick"), on[p] \in Jobs, maker[on[p]] = "made",
         UNCHANGED <<engine, clip, makerVars, last, lost, gone, released>>,
         \/ UNCHANGED <<table, ended, timer, clocks>>
         \/ End(j) /\ UNCHANGED <<timer, clocks>>
         \/ EndAfter(j, Keep) /\ UNCHANGED <<table, ended, sinceFetch>>
  PROVE  Types'
<1>1. /\ timer' \in [Jobs -> 0 .. NoTimer]
      /\ heldFor' \in [Jobs -> 0 .. Never] /\ sinceFetch' \in [Jobs -> 0 .. Never]
      /\ table' \in SUBSET Jobs /\ ended' \in SUBSET Jobs /\ gone' \in SUBSET ended'
      /\ HoldBounded'
  <2>1. CASE UNCHANGED <<table, ended, timer, clocks>>
    BY <2>1 DEF Types, TypeOK, HoldBounded, clocks
  <2>2. CASE End(j) /\ UNCHANGED <<timer, clocks>>
    BY <2>2, EndType DEF Types, TypeOK, clocks
  <2>3. CASE EndAfter(j, Keep) /\ UNCHANGED <<table, ended, sinceFetch>>
    BY <2>3, EndAfterHolds DEF Types, TypeOK
  <2>4. QED
    BY <2>1, <2>2, <2>3
<1>2. CASE Leave(p)
  BY <1>1, <1>2 DEF Types, TypeOK, Leave, makerVars
<1>3. CASE Goto(p, "tick")
  BY <1>1, <1>3 DEF Types, TypeOK, Goto, Heard, makerVars
<1>4. QED
  BY <1>2, <1>3

LEMMA WatchType ==
  ASSUME Types, NEW j \in Jobs, Watch(j) PROVE Types'
<1>1. CASE Poll(j)
  <2>1. on[j] \in Jobs /\ maker[on[j]] = "made"
    BY <1>1 DEF Types, TypeOK, Poll
  <2>2. CASE Goto(j, "check")
    BY <1>1, <2>1, <2>2 DEF Types, TypeOK, HoldBounded, Poll, Goto, Heard, makerVars, jobVars, clocks
  <2>3. CASE Leave(j)
    BY <1>1, <2>1, <2>3, LeaveType DEF Poll, jobVars
  <2>4. QED
    BY <1>1, <2>2, <2>3 DEF Poll
<1>2. CASE WatchDecides(j)
  <2>1. on[j] \in Jobs /\ maker[on[j]] = "made"
    BY <1>2 DEF Types, TypeOK, WatchDecides
  <2>2. UNCHANGED <<engine, clip, makerVars, last, lost, gone, released, sinceFetch>>
    BY <1>2 DEF WatchDecides
  <2>3. \/ End(j) /\ Leave(j) /\ UNCHANGED <<timer, heldFor>>
        \/ Leave(j) /\ UNCHANGED <<table, ended, timer, heldFor>>
        \/ EndAfter(j, Keep) /\ Leave(j) /\ UNCHANGED <<table, ended>>
        \/ Goto(j, "tick") /\ UNCHANGED <<table, ended, timer, heldFor>>
    BY <1>2 DEF WatchDecides
  <2>4. QED
    BY <2>1, <2>2, <2>3, LeaveType DEF clocks
<1>3. QED
  BY <1>1, <1>2, LookType DEF Watch

LEMMA HandleType ==
  ASSUME Types, NEW q \in Requests, Handle(q) PROVE Types'
<1>1. CASE GetAnswers(q)
  <2>1. on[q] \in Jobs /\ maker[on[q]] = "made"
    BY <1>1 DEF Types, TypeOK, GetAnswers
  <2>2. UNCHANGED <<engine, clip, makerVars, last, lost, gone, released, sinceFetch>> /\ Leave(q)
    BY <1>1 DEF GetAnswers
  <2>3. \/ End(on[q]) /\ UNCHANGED <<timer, heldFor>>
        \/ EndAfter(on[q], Keep) /\ UNCHANGED <<table, ended>>
        \/ UNCHANGED <<table, ended, timer, heldFor>>
    BY <1>1 DEF GetAnswers
  <2>4. QED
    BY <2>1, <2>2, <2>3, LeaveType DEF clocks
<1>2. CASE ContentSent(q)
  <2>1. on[q] \in Jobs /\ maker[on[q]] = "made"
    BY <1>2 DEF Types, TypeOK, ContentSent
  <2>2. UNCHANGED <<engine, clip, makerVars, table, last, lost, ended, gone, released>> /\ Leave(q)
    BY <1>2 DEF ContentSent
  <2>3. /\ timer' \in [Jobs -> 0 .. NoTimer]
        /\ heldFor' \in [Jobs -> 0 .. Never] /\ sinceFetch' \in [Jobs -> 0 .. Never]
        /\ HoldBounded'
    <3>1. CASE reply[q] = "sent"
      <4>1. EndAfter(on[q], Fetched) /\ sinceFetch' = [sinceFetch EXCEPT ![on[q]] = IF @ = Never THEN 0 ELSE @]
        BY <1>2, <3>1 DEF ContentSent
      <4>2. QED
        BY <2>1, <2>2, <4>1, EndAfterHolds
    <3>2. CASE reply[q] # "sent"
      BY <1>2, <2>2, <3>2 DEF ContentSent, Types, TypeOK, HoldBounded, clocks
    <3>3. QED
      BY <3>1, <3>2
  <2>4. QED
    BY <2>1, <2>2, <2>3 DEF Types, TypeOK, Leave, makerVars
<1>3. CASE Deleted(q)
  <2>1. on[q] \in Jobs /\ maker[on[q]] = "made"
    BY <1>3 DEF Types, TypeOK, Deleted
  <2>2. QED
    BY <1>3, <2>1, LeaveType DEF Deleted
<1>4. QED
  BY <1>1, <1>2, <1>3, LookType DEF Handle

\* The jobs in the table are those whose create was done.
Entered == \A j \in table : maker[j] = "made"

LEMMA EnteredNext ==
  ASSUME TypeOK, Entered, [Next]_vars PROVE Entered'
<1>1. ASSUME NEW j \in Jobs, Make(j) PROVE Entered'
  <2>1. CASE Insert(j)
    BY <2>1 DEF Insert, TypeOK, Entered
  <2>2. CASE ~Insert(j)
    <3>1. table' = table /\ maker[j] # "made" /\ \A i \in Jobs : i # j => maker'[i] = maker[i]
      BY <1>1, <2>2 DEF Make, Create, LoadOk, LoadFails, Disarm, PostOk, PostFails, jobVars, TypeOK
    <3>2. QED
      BY <3>1 DEF Entered, TypeOK
  <2>3. QED
    BY <2>1, <2>2
<1>2. ASSUME NEW p \in Procs, Look(p) PROVE table' \subseteq table /\ maker' = maker
  BY <1>2
     DEF Look, CheckLost, Answered, Unanswered, Store, NoAnswer, Lose, LoseReleases, End, makerVars, jobVars
<1>3. ASSUME NEW j \in Jobs, Watch(j) PROVE table' \subseteq table /\ maker' = maker
  BY <1>2, <1>3 DEF Watch, Poll, WatchDecides, End, makerVars, jobVars
<1>4. ASSUME NEW q \in Requests, Arrive(q) \/ Handle(q) PROVE table' \subseteq table /\ maker' = maker
  BY <1>2, <1>4 DEF Arrive, Handle, GetAnswers, ContentSent, Deleted, End, makerVars, jobVars
<1>5. ASSUME NEW j \in Jobs,
             ClientLeaves(j) \/ EndReleases(j) \/ TimerFires(j) \/ ClipFinished(j) \/ ClipDropped(j)
      PROVE  table' \subseteq table /\ maker' = maker
  BY <1>5 DEF ClientLeaves, EndReleases, TimerFires, ClipFinished, ClipDropped, End, makerVars, jobVars
<1>6. ASSUME NEW e \in Engines, EngineExits(e) \/ Unload(e) PROVE table' \subseteq table /\ maker' = maker
  BY <1>6 DEF EngineExits, Unload, makerVars, jobVars
<1>7. Tick \/ UNCHANGED vars => table' \subseteq table /\ maker' = maker
  BY DEF Tick, vars, makerVars, jobVars
<1>8. table' \subseteq table /\ maker' = maker => Entered'
  BY DEF Entered
<1>9. QED
  BY <1>1, <1>3, <1>4, <1>5, <1>6, <1>7, <1>8 DEF Next

LEMMA TypesNext == Types /\ Entered /\ [Next]_vars => Types' /\ Entered'
<1> SUFFICES ASSUME Types, Entered, [Next]_vars PROVE Types'
  BY EnteredNext DEF Types
<1>1. ASSUME NEW j \in Jobs, ClientLeaves(j) PROVE Types'
  BY <1>1 DEF Types, TypeOK, HoldBounded, ClientLeaves, procVars, clocks
<1>2. ASSUME NEW j \in Jobs, EndReleases(j) PROVE Types'
  BY <1>2 DEF Types, TypeOK, HoldBounded, EndReleases, makerVars, procVars, clocks
<1>3. ASSUME NEW j \in Jobs, TimerFires(j) PROVE Types'
  BY <1>3 DEF Types, TypeOK, HoldBounded, TimerFires, End, makerVars, procVars, clocks
<1>4. ASSUME NEW j \in Jobs, ClipFinished(j) PROVE Types'
  BY <1>4 DEF Types, TypeOK, HoldBounded, ClipFinished, makerVars, jobVars, procVars, clocks
<1>5. ASSUME NEW j \in Jobs, ClipDropped(j) PROVE Types'
  BY <1>5 DEF Types, TypeOK, HoldBounded, ClipDropped, makerVars, jobVars, procVars, clocks
<1>6. ASSUME NEW q \in Requests, Arrive(q) PROVE Types'
  <2>1. PICK j \in table, k \in {"get", "content", "delete"} :
          on' = [on EXCEPT ![q] = j] /\ kind' = [kind EXCEPT ![q] = k]
    BY <1>6 DEF Arrive
  <2>2. QED
    BY <1>6, <2>1 DEF Types, TypeOK, HoldBounded, Entered, Arrive, makerVars, jobVars, clocks
<1>7. ASSUME NEW e \in Engines, EngineExits(e) \/ Unload(e) PROVE Types'
  BY <1>7 DEF Types, TypeOK, HoldBounded, EngineExits, Unload, makerVars, jobVars, procVars, clocks
<1>8. CASE Tick
  <2>1. timer' \in [Jobs -> 0 .. NoTimer]
    BY <1>8 DEF Types, TypeOK, Tick
  <2>2. ASSUME NEW i \in Jobs
        PROVE  /\ heldFor'[i] \in 0 .. Never /\ sinceFetch'[i] \in 0 .. Never
               /\ heldFor'[i] # Never /\ i \notin ended => heldFor'[i] + timer'[i] <= Keep
               /\ sinceFetch'[i] # Never /\ i \notin ended => sinceFetch'[i] + timer'[i] <= Fetched
    <3>1. CASE i \in ended
      BY <1>8, <3>1 DEF Types, TypeOK, Tick
    <3>2. CASE i \notin ended
      <4>1. timer[i] \in 1 .. NoTimer /\ timer'[i] = IF timer[i] = NoTimer THEN timer[i] ELSE timer[i] - 1
        BY <1>8, <3>2 DEF Types, TypeOK, Tick
      <4>2. heldFor[i] \in 0 .. Never /\ heldFor'[i] = IF heldFor[i] = Never THEN heldFor[i] ELSE heldFor[i] + 1
        BY <1>8, <3>2 DEF Types, TypeOK, Tick
      <4>3. sinceFetch[i] \in 0 .. Never /\ sinceFetch'[i] = IF sinceFetch[i] = Never THEN sinceFetch[i] ELSE sinceFetch[i] + 1
        BY <1>8, <3>2 DEF Types, TypeOK, Tick
      <4>4. /\ heldFor[i] # Never => heldFor[i] + timer[i] <= Keep
            /\ sinceFetch[i] # Never => sinceFetch[i] + timer[i] <= Fetched
        BY <3>2 DEF Types, HoldBounded
      <4>5. QED
        BY <4>1, <4>2, <4>3, <4>4
    <3>3. QED
      BY <3>1, <3>2
  <2>3. heldFor' \in [Jobs -> 0 .. Never] /\ sinceFetch' \in [Jobs -> 0 .. Never]
    BY <1>8, <2>2 DEF Tick
  <2>4. HoldBounded'
    BY <1>8, <2>2 DEF Tick, HoldBounded
  <2>5. QED
    BY <1>8, <2>1, <2>3, <2>4 DEF Types, TypeOK, Tick, makerVars, procVars
<1>9. CASE UNCHANGED vars
  BY <1>9 DEF Types, TypeOK, HoldBounded, vars, makerVars, jobVars, procVars, clocks
<1>10. QED
  BY <1>1, <1>2, <1>3, <1>4, <1>5, <1>6, <1>7, <1>8, <1>9, MakeType, WatchType, HandleType DEF Next

LEMMA TypesInit == Init => Types /\ Entered
BY DEF Init, Types, TypeOK, HoldBounded, Entered

\* Every variable has its type, and whoever looks at a job looks at one whose
\* create was done.
THEOREM TypeCorrect == Spec => []TypeOK
<1>1. Types => TypeOK
  BY DEF Types
<1>2. QED
  BY <1>1, TypesInit, TypesNext, PTL DEF Spec

\* However often and by whomever a finished clip is polled, it holds its
\* engine for videoKeep at most, and for videoFetched once it was fetched.
THEOREM HoldsEnd == Spec => []HoldBounded
<1>1. Types => HoldBounded
  BY DEF Types
<1>2. QED
  BY <1>1, TypesInit, TypesNext, PTL DEF Spec

-----------------------------------------------------------------------------
(* The reference of a job, from the create to its end.                        *)

\* Who has the reference at each place of the create, and which jobs may be
\* told to end.
Referenced(j) ==
  /\ maker[j] = "none" => j \notin clientGone
  /\ maker[j] \in {"none", "loading", "granted", "refused"} /\ j \notin clientGone => j \notin released
  /\ maker[j] \in {"asking", "accepted"} => j \notin released
  /\ maker[j] \in {"granted", "asking", "accepted", "made"} /\ j \notin released
       => engine[runner[j]] # "unloaded"
  /\ j \in armed => maker[j] \in {"loading", "granted", "refused"}
  /\ j \in table => j \notin ended /\ (j \in lost \/ j \notin released)
  /\ j \in ended \/ timer[j] # NoTimer => maker[j] = "made"
  /\ maker[j] = "over" \/ j \in gone => j \in released

References == \A j \in Jobs : Referenced(j)

\* lose marks the job before it gives the reference back; a watch looks at its
\* own job.
LosingLost ==
  /\ \A p \in Procs : pc[p] = "losing" => on[p] \in lost
  /\ \A j \in Jobs : pc[j] \notin {"idle", "over"} => on[j] = j

Held == References /\ LosingLost

\* A step that concerns one job leaves the references of the others.
LEMMA OthersReferenced ==
  ASSUME References, NEW j \in Jobs, Referenced(j)',
         UNCHANGED <<engine, runner, table, lost, ended, timer, gone>>,
         \A i \in Jobs \ {j} :
           /\ maker'[i] = maker[i] /\ (i \in clientGone' <=> i \in clientGone)
           /\ (i \in armed' <=> i \in armed) /\ (i \in released' <=> i \in released)
  PROVE  References'
<1>1. ASSUME NEW i \in Jobs, i # j PROVE Referenced(i)'
  <2>1. Referenced(i)
    BY DEF References
  <2>2. QED
    BY <1>1, <2>1 DEF Referenced
<1>2. QED
  BY <1>1 DEF References

LEMMA MakeHeld ==
  ASSUME Types, Types', Entered, Held, NEW j \in Jobs, Make(j) PROVE Held'
<1>1. TypeOK /\ TypeOK' /\ References /\ LosingLost
  BY DEF Types, Held
<1>2. CASE Create(j)
  BY <1>1, <1>2 DEF TypeOK, Held, References, Referenced, LosingLost, Create, jobVars, procVars
<1>3. CASE LoadOk(j)
  <2>1. PICK e \in Engines :
          /\ engine[e] \in {"up", "off"}
          /\ engine' = [engine EXCEPT ![e] = "up"] /\ runner' = [runner EXCEPT ![j] = e]
    BY <1>3 DEF LoadOk
  <2>2. maker[j] = "loading" /\ maker' = [maker EXCEPT ![j] = "granted"]
        /\ UNCHANGED <<clientGone, armed, table, lost, timer, ended, gone, released, pc, on>>
    BY <1>3 DEF LoadOk, jobVars, procVars
  <2>3. QED
    BY <1>1, <2>1, <2>2 DEF TypeOK, Held, References, Referenced, LosingLost
<1>4. CASE LoadFails(j)
  BY <1>1, <1>4 DEF TypeOK, Held, References, Referenced, LosingLost, LoadFails, jobVars, procVars
<1>5. CASE Disarm(j)
  <2>1. LosingLost' /\ UNCHANGED <<engine, runner, clientGone, table, lost, ended, timer, gone>>
    BY <1>1, <1>5 DEF TypeOK, LosingLost, Disarm, procVars
  <2>2. Referenced(j)
    BY <1>1 DEF References
  <2>3. Referenced(j)'
    BY <1>1, <1>5, <2>1, <2>2 DEF TypeOK, Entered, Referenced, Disarm
  <2>4. \A i \in Jobs \ {j} :
          maker'[i] = maker[i] /\ (i \in armed' <=> i \in armed) /\ (i \in released' <=> i \in released)
    BY <1>1, <1>5 DEF TypeOK, Disarm
  <2>5. QED
    BY <1>1, <2>1, <2>3, <2>4, OthersReferenced DEF Held
<1>6. CASE PostOk(j)
  BY <1>1, <1>6 DEF TypeOK, Held, References, Referenced, LosingLost, PostOk, jobVars, procVars
<1>7. CASE PostFails(j)
  <2>1. LosingLost' /\ UNCHANGED <<engine, runner, armed, clientGone, table, lost, ended, timer, gone>>
    BY <1>1, <1>7 DEF TypeOK, LosingLost, PostFails, procVars
  <2>2. Referenced(j)
    BY <1>1 DEF References
  <2>3. maker[j] = "asking" /\ maker' = [maker EXCEPT ![j] = "over"] /\ released' = released \cup {j}
    BY <1>7 DEF PostFails
  <2>4. Referenced(j)'
    BY <1>1, <2>1, <2>2, <2>3 DEF TypeOK, Entered, Referenced
  <2>5. QED
    BY <1>1, <2>1, <2>3, <2>4, OthersReferenced DEF Held, TypeOK
<1>8. CASE Insert(j)
  BY <1>1, <1>8 DEF TypeOK, Held, References, Referenced, LosingLost, Insert
<1>9. QED
  BY <1>2, <1>3, <1>4, <1>5, <1>6, <1>7, <1>8 DEF Make

\* A job is told to end, now or by its timer.
LEMMA EndsHeld ==
  ASSUME Types, References, NEW j \in Jobs, maker[j] = "made",
         UNCHANGED <<engine, makerVars, lost, gone, released>>,
         \/ UNCHANGED <<table, ended, timer>>
         \/ End(j) /\ UNCHANGED timer
         \/ (\E d \in 0 .. Keep : EndAfter(j, d)) /\ UNCHANGED <<table, ended>>
  PROVE  References'
<1>1. CASE UNCHANGED <<table, ended, timer>>
  BY <1>1 DEF References, Referenced, makerVars
<1>2. CASE End(j) /\ UNCHANGED timer
  BY <1>2 DEF Types, TypeOK, References, Referenced, makerVars, End
<1>3. CASE (\E d \in 0 .. Keep : EndAfter(j, d)) /\ UNCHANGED <<table, ended>>
  BY <1>3 DEF Types, TypeOK, References, Referenced, makerVars, EndAfter
<1>4. QED
  BY <1>1, <1>2, <1>3

\* Whoever looks at a job goes on to a place that is not the end of lose, or
\* leaves.
LEMMA LosingKept ==
  ASSUME TypeOK, LosingLost, NEW p \in Procs, lost' = lost,
         Leave(p) \/ (pc[p] \notin {"idle", "over"} /\ \E l \in {"tick", "check", "ask", "lose"} : Goto(p, l))
  PROVE  LosingLost'
<1>1. CASE Leave(p)
  <2>1. \A q \in Procs : q # p => pc'[q] = pc[q] /\ on'[q] = on[q]
    BY <1>1 DEF Leave, TypeOK
  <2>2. pc'[p] \in {"idle", "over"}
    BY <1>1 DEF Leave, TypeOK
  <2>3. QED
    BY <2>1, <2>2 DEF LosingLost
<1>2. ASSUME pc[p] \notin {"idle", "over"}, NEW l \in {"tick", "check", "ask", "lose"}, Goto(p, l)
      PROVE  LosingLost'
  BY <1>2 DEF TypeOK, LosingLost, Goto, Heard
<1>3. QED
  BY <1>1, <1>2

LEMMA LookHeld ==
  ASSUME Types, Held, NEW p \in Procs, Look(p) PROVE Held'
<1>1. TypeOK /\ References /\ LosingLost
  BY DEF Types, Held
<1>2. CASE CheckLost(p)
  <2>1. on[p] \in Jobs /\ maker[on[p]] = "made" /\ pc[p] = "check"
    BY <1>1, <1>2 DEF TypeOK, CheckLost
  <2>2. UNCHANGED <<engine, clip, makerVars, last, lost, timer, gone, released, clocks>>
    BY <1>2 DEF CheckLost
  <2>3. UNCHANGED <<table, ended>> \/ End(on[p])
    BY <1>2 DEF CheckLost
  <2>4. References'
    BY <1>1, <2>1, <2>2, <2>3, EndsHeld
  <2>5. Goto(p, "ask") \/ Goto(p, "lose") \/ Leave(p)
    BY <1>2 DEF CheckLost
  <2>6. LosingLost'
    BY <1>1, <2>1, <2>2, <2>5, LosingKept
  <2>7. QED
    BY <2>4, <2>6 DEF Held
<1>3. CASE Answered(p)
  BY <1>1, <1>3 DEF TypeOK, Held, References, Referenced, LosingLost, Answered, Heard, makerVars, jobVars
<1>4. CASE Unanswered(p)
  <2>1. PICK r \in {"error", "refused"} : Heard(p, "reply", r)
    BY <1>4 DEF Unanswered
  <2>2. QED
    BY <1>1, <1>4, <2>1 DEF TypeOK, Held, References, Referenced, LosingLost, Unanswered, Heard, makerVars, jobVars
<1>5. CASE Store(p)
  BY <1>1, <1>5 DEF TypeOK, Held, References, Referenced, LosingLost, Store, Goto, Heard, makerVars
<1>6. CASE NoAnswer(p)
  BY <1>1, <1>6 DEF TypeOK, Held, References, Referenced, LosingLost, NoAnswer, Goto, Heard, makerVars, jobVars
<1>7. CASE Lose(p)
  BY <1>1, <1>7 DEF TypeOK, Held, References, Referenced, LosingLost, Lose, Heard, makerVars
<1>8. CASE LoseReleases(p)
  <2>1. on[p] \in Jobs /\ maker[on[p]] = "made" /\ on[p] \in lost
    BY <1>1, <1>8 DEF TypeOK, LoseReleases, LosingLost
  <2>2. References'
    BY <1>1, <1>8, <2>1 DEF TypeOK, References, Referenced, LoseReleases, EndAfter, makerVars
  <2>3. LosingLost'
    BY <1>1, <1>8 DEF TypeOK, LosingLost, LoseReleases, Goto, Heard
  <2>4. QED
    BY <2>2, <2>3 DEF Held
<1>9. QED
  BY <1>2, <1>3, <1>4, <1>5, <1>6, <1>7, <1>8 DEF Look

LEMMA HeldNext == Types /\ Types' /\ Entered /\ Held /\ [Next]_vars => Held'
<1> SUFFICES ASSUME Types, Types', Entered, Held, [Next]_vars PROVE Held'
  OBVIOUS
<1>1. TypeOK /\ TypeOK' /\ References /\ LosingLost
  BY DEF Types, Held
<1>2. ASSUME NEW j \in Jobs, ClientLeaves(j) PROVE Held'
  <2>1. LosingLost' /\ UNCHANGED <<engine, maker, runner, armed, table, lost, ended, timer, gone>>
    BY <1>1, <1>2 DEF TypeOK, LosingLost, ClientLeaves, procVars
  <2>2. Referenced(j)
    BY <1>1 DEF References
  <2>3. Referenced(j)'
    BY <1>1, <1>2, <2>1, <2>2 DEF TypeOK, Entered, Referenced, ClientLeaves
  <2>4. \A i \in Jobs \ {j} :
          (i \in clientGone' <=> i \in clientGone) /\ (i \in released' <=> i \in released)
    BY <1>2 DEF ClientLeaves
  <2>5. QED
    BY <1>1, <2>1, <2>3, <2>4, OthersReferenced DEF Held
<1>3. ASSUME NEW j \in Jobs, EndReleases(j) PROVE Held'
  BY <1>1, <1>3 DEF TypeOK, Held, References, Referenced, LosingLost, EndReleases, makerVars, procVars
<1>4. ASSUME NEW j \in Jobs, TimerFires(j) PROVE Held'
  <2>1. maker[j] = "made"
    BY <1>1, <1>4 DEF References, Referenced, TimerFires
  <2>2. QED
    BY <1>1, <1>4, <2>1, EndsHeld DEF Held, LosingLost, TimerFires, procVars
<1>5. ASSUME NEW j \in Jobs, ClipFinished(j) \/ ClipDropped(j) PROVE Held'
  BY <1>1, <1>5 DEF Held, References, Referenced, LosingLost, ClipFinished, ClipDropped, makerVars, jobVars, procVars
<1>6. ASSUME NEW p \in Procs, pc[p] \notin {"idle", "over"}, NEW j \in Jobs, on[p] = j, maker[j] = "made",
             Leave(p) \/ Goto(p, "tick") \/ Goto(p, "check"),
             UNCHANGED <<engine, makerVars, lost, gone, released>>,
             \/ UNCHANGED <<table, ended, timer>>
             \/ End(j) /\ UNCHANGED timer
             \/ (\E d \in 0 .. Keep : EndAfter(j, d)) /\ UNCHANGED <<table, ended>>
      PROVE  Held'
  <2>1. References'
    BY <1>1, <1>6, EndsHeld
  <2>2. LosingLost'
    BY <1>1, <1>6, LosingKept
  <2>3. QED
    BY <2>1, <2>2 DEF Held
<1>7. ASSUME NEW j \in Jobs, Poll(j) PROVE Held'
  <2>1. on[j] \in Jobs /\ maker[on[j]] = "made"
    BY <1>1, <1>7 DEF TypeOK, Poll
  <2>2. QED
    BY <1>6, <1>7, <2>1 DEF Poll, jobVars
<1>8. ASSUME NEW j \in Jobs, WatchDecides(j) PROVE Held'
  <2>1. on[j] \in Jobs /\ maker[on[j]] = "made" /\ on[j] = j
    BY <1>1, <1>8 DEF TypeOK, LosingLost, WatchDecides
  <2>2. QED
    BY <1>6, <1>8, <2>1 DEF WatchDecides
<1>9. ASSUME NEW q \in Requests, GetAnswers(q) PROVE Held'
  <2>1. on[q] \in Jobs /\ maker[on[q]] = "made"
    BY <1>1, <1>9 DEF TypeOK, GetAnswers
  <2>2. \/ UNCHANGED <<table, ended, timer>>
        \/ End(on[q]) /\ UNCHANGED timer
        \/ EndAfter(on[q], Keep) /\ UNCHANGED <<table, ended>>
    BY <1>9 DEF GetAnswers
  <2>3. QED
    BY <1>6, <1>9, <2>1, <2>2 DEF GetAnswers
<1>10. ASSUME NEW q \in Requests, ContentSent(q) PROVE Held'
  <2>1. on[q] \in Jobs /\ maker[on[q]] = "made"
    BY <1>1, <1>10 DEF TypeOK, ContentSent
  <2>2. UNCHANGED timer \/ EndAfter(on[q], Fetched)
    BY <1>10 DEF ContentSent
  <2>3. QED
    BY <1>6, <1>10, <2>1, <2>2 DEF ContentSent
<1>11. ASSUME NEW q \in Requests, Deleted(q) PROVE Held'
  <2>1. on[q] \in Jobs /\ maker[on[q]] = "made"
    BY <1>1, <1>11 DEF TypeOK, Deleted
  <2>2. QED
    BY <1>6, <1>11, <2>1 DEF Deleted
<1>12. ASSUME NEW q \in Requests, Arrive(q) PROVE Held'
  BY <1>1, <1>12 DEF TypeOK, Held, References, Referenced, LosingLost, Arrive, makerVars, jobVars
<1>13. ASSUME NEW e \in Engines, EngineExits(e) \/ Unload(e) PROVE Held'
  BY <1>1, <1>13 DEF TypeOK, Held, References, Referenced, LosingLost, EngineExits, Unload, makerVars, jobVars, procVars
<1>14. CASE Tick
  <2>1. \A i \in Jobs : timer'[i] # NoTimer => timer[i] # NoTimer
    BY <1>1, <1>14 DEF Tick, TypeOK
  <2>2. QED
    BY <1>1, <1>14, <2>1 DEF Held, References, Referenced, LosingLost, Tick, makerVars, procVars
<1>15. CASE UNCHANGED vars
  BY <1>1, <1>15 DEF Held, References, Referenced, LosingLost, vars, makerVars, jobVars, procVars
<1>16. QED
  BY <1>2, <1>3, <1>4, <1>5, <1>7, <1>8, <1>9, <1>10, <1>11, <1>12, <1>13, <1>14, <1>15, MakeHeld, LookHeld
     DEF Next, Watch, Handle

\* The engine is never unloaded under a clip, and a create that made no job, or
\* a job that ended, keeps no reference.
THEOREM EngineHeldAlways == Spec => []EngineHeld
<1>1. Init => Held
  BY DEF Init, Held, References, Referenced, LosingLost
<1>2. Types /\ Entered /\ Held /\ [Next]_vars => Types' /\ Entered' /\ Held'
  BY TypesNext, HeldNext
<1>3. Types /\ Entered /\ Held => EngineHeld
  BY DEF Types, TypeOK, Entered, Held, References, Referenced, EngineHeld
<1>4. QED
  BY <1>1, <1>2, <1>3, TypesInit, PTL DEF Spec

-----------------------------------------------------------------------------
(* Why a job ends.  Its clip is over, or its engine is gone; once that is so  *)
(* it stays so, whoever heard of it acts on it at last.                       *)

Settled(j) == clip[j] = "making" => HasExited(runner[j])

\* An engine that is gone stays gone, and a clip is made once.
LEMMA SettledStays ==
  ASSUME TypeOK, [Next]_vars, NEW j \in Jobs, maker[j] = "made"
  PROVE  /\ maker'[j] = "made"
         /\ HasExited(runner[j]) => HasExited(runner[j])'
         /\ Settled(j) => Settled(j)'
<1> DEFINE Stays == /\ maker'[j] = "made" /\ runner'[j] = runner[j]
                    /\ clip'[j] = "making" => clip[j] = "making"
                    /\ \A e \in Engines :
                         engine[e] \in {"exited", "unloaded"} => engine'[e] \in {"exited", "unloaded"}
<1>1. Stays
  <2>1. ASSUME NEW i \in Jobs, Make(i) PROVE Stays
    <3>1. maker[i] # "made" /\ i # j /\ TypeOK
      BY <2>1 DEF Make, Create, LoadOk, LoadFails, Disarm, PostOk, PostFails, Insert
    <3>2. CASE LoadOk(i)
      <4>1. PICK e \in Engines :
              /\ engine[e] \in {"up", "off"}
              /\ engine' = [engine EXCEPT ![e] = "up"] /\ runner' = [runner EXCEPT ![i] = e]
        BY <3>2 DEF LoadOk
      <4>2. QED
        BY <3>1, <3>2, <4>1 DEF LoadOk, TypeOK
    <3>3. CASE Create(i) \/ LoadFails(i) \/ Disarm(i) \/ Insert(i)
      BY <3>1, <3>3 DEF Create, LoadFails, Disarm, Insert, TypeOK
    <3>4. CASE PostOk(i) \/ PostFails(i)
      BY <3>1, <3>4 DEF PostOk, PostFails, TypeOK
    <3>5. QED
      BY <2>1, <3>2, <3>3, <3>4 DEF Make
  <2>2. ASSUME NEW p \in Procs, Look(p) PROVE Stays
    <3>1. engine' = engine /\ UNCHANGED makerVars
      BY <2>2 DEF Look, CheckLost, Answered, Unanswered, Store, NoAnswer, Lose, LoseReleases
    <3>2. clip' = clip \/ \E i \in Jobs : clip' = [clip EXCEPT ![i] = "dropped"]
      BY <2>2
         DEF Look, CheckLost, Answered, Unanswered, Store, NoAnswer, Lose, LoseReleases, TypeOK
    <3>3. QED
      BY <3>1, <3>2 DEF makerVars, TypeOK
  <2>3. ASSUME NEW i \in Jobs, Poll(i) \/ WatchDecides(i) PROVE Stays
    BY <2>3 DEF Poll, WatchDecides, makerVars
  <2>4. ASSUME NEW q \in Requests, Arrive(q) \/ GetAnswers(q) \/ ContentSent(q) \/ Deleted(q) PROVE Stays
    BY <2>4 DEF Arrive, GetAnswers, ContentSent, Deleted, makerVars
  <2>5. ASSUME NEW i \in Jobs, ClientLeaves(i) \/ EndReleases(i) \/ TimerFires(i) PROVE Stays
    BY <2>5 DEF ClientLeaves, EndReleases, TimerFires, makerVars
  <2>6. ASSUME NEW i \in Jobs, ClipFinished(i) \/ ClipDropped(i) PROVE Stays
    <3>1. PICK w \in Done \cup {"dropped"} : clip' = [clip EXCEPT ![i] = w]
      BY <2>6 DEF ClipFinished, ClipDropped
    <3>2. UNCHANGED <<engine, makerVars>>
      BY <2>6 DEF ClipFinished, ClipDropped
    <3>3. QED
      BY <3>1, <3>2 DEF makerVars, TypeOK
  <2>7. ASSUME NEW e \in Engines, EngineExits(e) \/ Unload(e) PROVE Stays
    BY <2>7 DEF EngineExits, Unload, makerVars, TypeOK
  <2>8. Tick \/ UNCHANGED vars => Stays
    BY DEF Tick, vars, makerVars
  <2>9. QED
    BY <2>1, <2>2, <2>3, <2>4, <2>5, <2>6, <2>7, <2>8 DEF Next, Watch, Handle
<1>2. QED
  BY <1>1 DEF Settled, HasExited

\* A job ends for a reason, is lost for a reason, and what was heard of it is
\* a reason.
EndedSettled == \A j \in Jobs : j \in ended \/ timer[j] # NoTimer => Settled(j)
LostExited == \A j \in lost : maker[j] = "made" /\ HasExited(runner[j])
HeardTrue(p) ==
  /\ pc[p] = "lose" => HasExited(runner[on[p]])
  /\ pc[p] \in {"reply", "after"} /\ reply[p] \in Done \cup {"sent", "dropped"} => Settled(on[p])
  /\ pc[p] = "reply" /\ kind[p] = "delete" /\ reply[p] = "making" => Settled(on[p])

Kept == EndedSettled /\ LostExited /\ \A p \in Procs : HeardTrue(p)

\* What a step has to show: its own reasons.
LEMMA KeptBy ==
  ASSUME Types, Types', Held, Kept, [Next]_vars,
         \A j \in Jobs : j \in ended' \/ timer'[j] # NoTimer =>
           j \in ended \/ timer[j] # NoTimer \/ (maker[j] = "made" /\ Settled(j)),
         \A j \in lost' : j \in lost \/ (maker[j] = "made" /\ HasExited(runner[j])),
         \A p \in Procs :
           \/ HeardTrue(p)'
           \/ pc'[p] = pc[p] /\ on'[p] = on[p] /\ kind'[p] = kind[p] /\ reply'[p] = reply[p]
           \/ pc'[p] \in {"idle", "over", "tick", "check", "ask", "losing"}
  PROVE  Kept'
<1>1. TypeOK /\ TypeOK' /\ References
  BY DEF Types, Held
<1>2. EndedSettled'
  <2>1. ASSUME NEW j \in Jobs, j \in ended' \/ timer'[j] # NoTimer PROVE maker[j] = "made" /\ Settled(j)
    BY <2>1 DEF Kept, EndedSettled, Held, References, Referenced
  <2>2. QED
    BY <1>1, <2>1, SettledStays DEF EndedSettled
<1>3. LostExited'
  <2>1. ASSUME NEW j \in lost' PROVE j \in Jobs /\ maker[j] = "made" /\ HasExited(runner[j])
    BY <1>1, <2>1 DEF Kept, LostExited, TypeOK
  <2>2. QED
    BY <1>1, <2>1, SettledStays DEF LostExited
<1>4. ASSUME NEW p \in Procs PROVE HeardTrue(p)'
  <2>1. CASE pc'[p] = pc[p] /\ on'[p] = on[p] /\ kind'[p] = kind[p] /\ reply'[p] = reply[p]
    <3>1. CASE pc[p] \notin {"idle", "over"}
      <4>1. on[p] \in Jobs /\ maker[on[p]] = "made" /\ HeardTrue(p)
        BY <1>1, <3>1 DEF TypeOK, Kept
      <4>2. PICK j \in Jobs : j = on[p]
        BY <4>1
      <4>3. /\ HasExited(runner[j]) => HasExited(runner[j])'
            /\ Settled(j) => Settled(j)'
        BY <1>1, <4>1, <4>2, SettledStays
      <4>4. QED
        BY <2>1, <4>1, <4>2, <4>3 DEF HeardTrue, Settled
    <3>2. CASE pc[p] \in {"idle", "over"}
      BY <2>1, <3>2 DEF HeardTrue
    <3>3. QED
      BY <3>1, <3>2
  <2>2. CASE pc'[p] \in {"idle", "over", "tick", "check", "ask", "losing"}
    BY <2>2 DEF HeardTrue
  <2>3. QED
    BY <2>1, <2>2
<1>5. QED
  BY <1>2, <1>3, <1>4 DEF Kept

\* Nothing is heard of a job and none ends.
LEMMA KeptQuietly ==
  ASSUME Types, Types', Held, Kept, [Next]_vars, ended' = ended, lost' = lost,
         \A j \in Jobs : timer'[j] # NoTimer => timer[j] # NoTimer,
         \A p \in Procs :
           \/ pc'[p] = pc[p] /\ on'[p] = on[p] /\ kind'[p] = kind[p] /\ reply'[p] = reply[p]
           \/ pc'[p] \in {"idle", "over", "tick", "check", "ask", "losing"}
  PROVE  Kept'
BY KeptBy

\* Who leaves, or says something true, concerns nobody else.
LEMMA OneHeard ==
  ASSUME TypeOK, NEW p \in Procs,
         \/ Leave(p)
         \/ \E l \in {"tick", "check", "ask", "losing"}, r \in {reply[p]} \cup {last'[on[p]]} : Heard(p, l, r)
         \/ HeardTrue(p)' /\ \E l, r : Heard(p, l, r)
  PROVE  \A q \in Procs :
           \/ HeardTrue(q)'
           \/ pc'[q] = pc[q] /\ on'[q] = on[q] /\ kind'[q] = kind[q] /\ reply'[q] = reply[q]
           \/ pc'[q] \in {"idle", "over", "tick", "check", "ask", "losing"}
<1>1. CASE Leave(p)
  BY <1>1 DEF Leave, TypeOK
<1>2. ASSUME NEW l \in {"tick", "check", "ask", "losing"}, NEW r, Heard(p, l, r)
      PROVE  \A q \in Procs :
               \/ pc'[q] = pc[q] /\ on'[q] = on[q] /\ kind'[q] = kind[q] /\ reply'[q] = reply[q]
               \/ pc'[q] \in {"idle", "over", "tick", "check", "ask", "losing"}
  BY <1>2 DEF Heard, TypeOK
<1>3. ASSUME HeardTrue(p)', NEW l, NEW r, Heard(p, l, r)
      PROVE  \A q \in Procs :
               \/ HeardTrue(q)'
               \/ pc'[q] = pc[q] /\ on'[q] = on[q] /\ kind'[q] = kind[q] /\ reply'[q] = reply[q]
  <2>1. ASSUME NEW q \in Procs, q # p
        PROVE  pc'[q] = pc[q] /\ on'[q] = on[q] /\ kind'[q] = kind[q] /\ reply'[q] = reply[q]
    BY <1>3, <2>1 DEF Heard, TypeOK
  <2>2. QED
    BY <1>3, <2>1
<1>4. QED
  BY <1>1, <1>2, <1>3

\* What a job is told: nothing, to end, or when to.
ToldToEnd(j) ==
  \/ UNCHANGED <<ended, timer>>
  \/ End(j) /\ UNCHANGED timer
  \/ (\E d \in 0 .. Keep : EndAfter(j, d)) /\ UNCHANGED ended

LEMMA ToldRightly ==
  ASSUME Types, NEW j \in Jobs, maker[j] = "made", ToldToEnd(j), UNCHANGED <<ended, timer>> \/ Settled(j)
  PROVE  \A i \in Jobs : i \in ended' \/ timer'[i] # NoTimer =>
           i \in ended \/ timer[i] # NoTimer \/ (maker[i] = "made" /\ Settled(i))
<1>1. ASSUME NEW i \in Jobs, i # j PROVE (i \in ended' => i \in ended) /\ timer'[i] = timer[i]
  BY <1>1 DEF ToldToEnd, End, EndAfter, Types, TypeOK
<1>2. QED
  BY <1>1

LEMMA LookKept ==
  ASSUME Types, Types', Held, Kept, [Next]_vars, NEW p \in Procs, Look(p) PROVE Kept'
<1>1. TypeOK /\ TypeOK' /\ LosingLost /\ LostExited /\ HeardTrue(p)
  BY DEF Types, Held, Kept
<1>2. on[p] \in Jobs /\ maker[on[p]] = "made"
  BY <1>1 DEF Look, CheckLost, Answered, Unanswered, Store, NoAnswer, Lose, LoseReleases, TypeOK
<1>3. PICK j \in Jobs : j = on[p] /\ maker[j] = "made"
  BY <1>2
<1>4. /\ HasExited(runner[j]) => HasExited(runner[j])'
      /\ Settled(j) => Settled(j)'
  BY <1>1, <1>3, SettledStays
<1>5. j \in lost => HasExited(runner[j]) /\ Settled(j)
  BY <1>1, <1>3 DEF LostExited, Settled
<1>6. CASE CheckLost(p)
  <2>1. /\ lost' = lost /\ timer' = timer
        /\ ended' = ended \/ (j \in lost /\ End(j))
        /\ Goto(p, "ask") \/ Leave(p) \/ (Goto(p, "lose") /\ j \in lost)
    BY <1>3, <1>6 DEF CheckLost
  <2>2. Goto(p, "lose") /\ j \in lost => HeardTrue(p)'
    BY <1>1, <1>3, <1>4, <1>5 DEF HeardTrue, Goto, Heard, TypeOK
  <2>3. ToldToEnd(j) /\ (UNCHANGED <<ended, timer>> \/ Settled(j))
    BY <1>5, <2>1 DEF ToldToEnd
  <2>4. \A q \in Procs :
           \/ HeardTrue(q)'
           \/ pc'[q] = pc[q] /\ on'[q] = on[q] /\ kind'[q] = kind[q] /\ reply'[q] = reply[q]
           \/ pc'[q] \in {"idle", "over", "tick", "check", "ask", "losing"}
    BY <1>1, <2>1, <2>2, OneHeard DEF Goto
  <2>5. QED
    BY <1>3, <2>1, <2>3, <2>4, ToldRightly, KeptBy
<1>7. CASE Answered(p)
  <2>1. Heard(p, "reply", EngineSays(p)) /\ UNCHANGED <<lost, ended, timer>>
    BY <1>7 DEF Answered, jobVars
  <2>2. clip[j] \in Done \cup {"dropped"} => Settled(j)'
    BY <1>4 DEF Settled
  <2>3. kind[p] = "delete" => Settled(j)'
    BY <1>1, <1>3, <1>7 DEF Answered, Settled, TypeOK
  <2>4. on'[p] = on[p] /\ kind'[p] = kind[p] /\ pc'[p] = "reply" /\ reply'[p] = EngineSays(p)
    BY <1>1, <2>1 DEF Heard, TypeOK
  <2>5. reply'[p] \in Done \cup {"sent", "dropped"} => clip[j] \in Done \cup {"dropped"}
    BY <1>1, <1>3, <2>4 DEF EngineSays, TypeOK
  <2>6. HeardTrue(p)'
    BY <1>3, <2>2, <2>3, <2>4, <2>5 DEF HeardTrue, Settled
  <2>7. QED
    BY <1>1, <2>1, <2>6, OneHeard, KeptBy
<1>8. CASE Unanswered(p)
  <2>1. PICK r \in {"error", "refused"} : Heard(p, "reply", r)
    BY <1>8 DEF Unanswered
  <2>2. UNCHANGED <<lost, ended, timer>>
    BY <1>8 DEF Unanswered, jobVars
  <2>3. HeardTrue(p)'
    BY <1>1, <2>1 DEF Heard, HeardTrue, TypeOK
  <2>4. QED
    BY <1>1, <2>1, <2>2, <2>3, OneHeard, KeptBy
<1>9. CASE Store(p)
  <2>1. Heard(p, "after", reply[p]) /\ UNCHANGED <<lost, ended, timer>> /\ pc[p] = "reply"
    BY <1>9 DEF Store, Goto
  <2>2. HeardTrue(p)'
    BY <1>1, <1>3, <1>4, <2>1 DEF Heard, HeardTrue, TypeOK, Settled
  <2>3. QED
    BY <1>1, <2>1, <2>2, OneHeard, KeptBy
<1>10. CASE NoAnswer(p)
  <2>1. UNCHANGED <<lost, ended, timer>> /\ pc[p] = "reply"
    BY <1>10 DEF NoAnswer, jobVars
  <2>2. CASE Heard(p, "after", reply[p])
    <3>1. HeardTrue(p)'
      BY <1>1, <1>3, <1>4, <2>1, <2>2 DEF Heard, HeardTrue, TypeOK, Settled
    <3>2. QED
      BY <1>1, <2>1, <2>2, <3>1, OneHeard, KeptBy
  <2>3. CASE Heard(p, "lose", reply[p]) /\ HasExited(runner[j])
    <3>1. HeardTrue(p)'
      BY <1>1, <1>3, <1>4, <2>3 DEF Heard, HeardTrue, TypeOK
    <3>2. QED
      BY <1>1, <2>1, <2>3, <3>1, OneHeard, KeptBy
  <2>4. QED
    BY <1>3, <1>10, <2>2, <2>3 DEF NoAnswer, Goto
<1>11. CASE Lose(p)
  <2>1. /\ Heard(p, "losing", last'[on[p]]) /\ UNCHANGED <<ended, timer>>
        /\ lost' = lost \cup {j} /\ pc[p] = "lose"
    BY <1>3, <1>11 DEF Lose
  <2>2. HasExited(runner[j])
    BY <1>1, <1>3, <2>1 DEF HeardTrue
  <2>3. QED
    BY <1>1, <1>3, <2>1, <2>2, OneHeard, KeptBy
<1>12. CASE LoseReleases(p)
  <2>1. /\ Heard(p, "after", reply[p]) /\ EndAfter(j, Keep) /\ UNCHANGED <<lost, ended>>
        /\ pc[p] = "losing"
    BY <1>3, <1>12 DEF LoseReleases, Goto
  <2>2. j \in lost
    BY <1>1, <1>3, <2>1 DEF LosingLost
  <2>3. HeardTrue(p)'
    BY <1>1, <1>3, <1>4, <1>5, <2>1, <2>2 DEF Heard, HeardTrue, TypeOK, Settled
  <2>4. ToldToEnd(j)
    BY <2>1 DEF ToldToEnd
  <2>5. QED
    BY <1>1, <1>3, <1>5, <2>1, <2>2, <2>3, <2>4, OneHeard, ToldRightly, KeptBy
<1>13. QED
  BY <1>6, <1>7, <1>8, <1>9, <1>10, <1>11, <1>12 DEF Look

LEMMA KeptNext == Types /\ Types' /\ Entered /\ Held /\ Kept /\ [Next]_vars => Kept'
<1> SUFFICES ASSUME Types, Types', Entered, Held, Kept, [Next]_vars PROVE Kept'
  OBVIOUS
<1>1. TypeOK /\ References /\ LosingLost /\ EndedSettled /\ LostExited
  BY DEF Types, Held, Kept
<1>2. ASSUME NEW j \in Jobs, Make(j) PROVE Kept'
  <2>1. CASE Insert(j)
    BY <1>1, <2>1, KeptQuietly DEF Insert, TypeOK
  <2>2. CASE ~Insert(j)
    <3>1. UNCHANGED <<lost, ended, timer, procVars>>
      BY <1>2, <2>2 DEF Make, Create, LoadOk, LoadFails, Disarm, PostOk, PostFails, jobVars
    <3>2. QED
      BY <3>1, KeptQuietly DEF procVars
  <2>3. QED
    BY <2>1, <2>2
<1>3. ASSUME NEW j \in Jobs, ClientLeaves(j) \/ EndReleases(j) \/ ClipFinished(j) \/ ClipDropped(j) PROVE Kept'
  <2>1. UNCHANGED <<lost, ended, timer, procVars>>
    BY <1>3 DEF ClientLeaves, EndReleases, ClipFinished, ClipDropped, jobVars
  <2>2. QED
    BY <2>1, KeptQuietly DEF procVars
<1>4. ASSUME NEW j \in Jobs, TimerFires(j) PROVE Kept'
  <2>1. timer[j] # NoTimer
    BY <1>4 DEF TimerFires
  <2>2. \A i \in Jobs : i \in ended' \/ timer'[i] # NoTimer => i \in ended \/ timer[i] # NoTimer
    BY <1>4, <2>1 DEF TimerFires, End
  <2>3. QED
    BY <1>4, <2>2, KeptBy DEF TimerFires, procVars
<1>5. ASSUME NEW q \in Requests, Arrive(q) PROVE Kept'
  <2>1. PICK j \in table, k \in {"get", "content", "delete"} :
          on' = [on EXCEPT ![q] = j] /\ kind' = [kind EXCEPT ![q] = k]
    BY <1>5 DEF Arrive
  <2>2. UNCHANGED <<lost, ended, timer>> /\ reply' = reply /\ pc' = [pc EXCEPT ![q] = "check"]
    BY <1>5 DEF Arrive, jobVars
  <2>3. QED
    BY <1>1, <2>1, <2>2, KeptQuietly DEF TypeOK
<1>6. ASSUME NEW e \in Engines, EngineExits(e) \/ Unload(e) PROVE Kept'
  <2>1. UNCHANGED <<lost, ended, timer, procVars>>
    BY <1>6 DEF EngineExits, Unload, jobVars
  <2>2. QED
    BY <2>1, KeptQuietly DEF procVars
<1>7. CASE Tick
  <2>1. \A i \in Jobs : timer'[i] # NoTimer => timer[i] # NoTimer
    BY <1>1, <1>7 DEF Tick, TypeOK
  <2>2. QED
    BY <1>7, <2>1, KeptQuietly DEF Tick, procVars
<1>8. CASE UNCHANGED vars
  BY <1>8, KeptQuietly DEF vars, jobVars, procVars
<1>9. ASSUME NEW p \in Procs, Leave(p) \/ Goto(p, "tick") \/ Goto(p, "check"), NEW j \in Jobs, maker[j] = "made",
             lost' = lost, ToldToEnd(j), UNCHANGED <<ended, timer>> \/ Settled(j)
      PROVE  Kept'
  <2>1. \A q \in Procs :
           \/ HeardTrue(q)'
           \/ pc'[q] = pc[q] /\ on'[q] = on[q] /\ kind'[q] = kind[q] /\ reply'[q] = reply[q]
           \/ pc'[q] \in {"idle", "over", "tick", "check", "ask", "losing"}
    BY <1>1, <1>9, OneHeard DEF Goto
  <2>2. QED
    BY <1>9, <2>1, ToldRightly, KeptBy
<1>10. ASSUME NEW p \in Procs, pc[p] \in {"tick", "reply", "after"}
       PROVE  on[p] \in Jobs /\ maker[on[p]] = "made" /\ HeardTrue(p)
  BY <1>1, <1>10 DEF TypeOK, Kept
<1>11. ASSUME NEW j \in Jobs, Poll(j) PROVE Kept'
  BY <1>9, <1>10, <1>11 DEF Poll, jobVars, ToldToEnd
<1>12. ASSUME NEW j \in Jobs, WatchDecides(j) PROVE Kept'
  <2>1. on[j] = j /\ maker[j] = "made" /\ HeardTrue(j) /\ pc[j] = "after" /\ lost' = lost
    BY <1>1, <1>10, <1>12 DEF WatchDecides, LosingLost
  <2>2. CASE reply[j] \in Done \cup {"dropped"}
    <3>1. Settled(j)
      BY <2>1, <2>2 DEF HeardTrue
    <3>2. Leave(j) /\ ToldToEnd(j)
      BY <1>12, <2>2 DEF WatchDecides, ToldToEnd
    <3>3. QED
      BY <1>9, <2>1, <3>1, <3>2
  <2>3. CASE reply[j] \notin Done \cup {"dropped"}
    <3>1. (Leave(j) \/ Goto(j, "tick")) /\ UNCHANGED <<ended, timer>>
      BY <1>12, <2>3 DEF WatchDecides
    <3>2. QED
      BY <1>9, <2>1, <3>1 DEF ToldToEnd
  <2>4. QED
    BY <2>2, <2>3
<1>13. ASSUME NEW q \in Requests, GetAnswers(q) PROVE Kept'
  <2>1. on[q] \in Jobs /\ maker[on[q]] = "made" /\ HeardTrue(q) /\ pc[q] = "after" /\ lost' = lost /\ Leave(q)
    BY <1>10, <1>13 DEF GetAnswers
  <2>2. CASE reply[q] \in Done \cup {"dropped"}
    <3>1. Settled(on[q])
      BY <2>1, <2>2 DEF HeardTrue
    <3>2. ToldToEnd(on[q])
      BY <1>13, <2>2 DEF GetAnswers, ToldToEnd
    <3>3. QED
      BY <1>9, <2>1, <3>1, <3>2
  <2>3. CASE reply[q] \notin Done \cup {"dropped"}
    <3>1. UNCHANGED <<ended, timer>>
      BY <1>13, <2>3 DEF GetAnswers
    <3>2. QED
      BY <1>9, <2>1, <3>1 DEF ToldToEnd
  <2>4. QED
    BY <2>2, <2>3
<1>14. ASSUME NEW q \in Requests, ContentSent(q) PROVE Kept'
  <2>1. on[q] \in Jobs /\ maker[on[q]] = "made" /\ HeardTrue(q) /\ pc[q] = "reply" /\ UNCHANGED <<lost, ended>> /\ Leave(q)
    BY <1>10, <1>14 DEF ContentSent
  <2>2. CASE reply[q] = "sent"
    <3>1. Settled(on[q])
      BY <2>1, <2>2 DEF HeardTrue
    <3>2. ToldToEnd(on[q])
      BY <1>14, <2>1, <2>2 DEF ContentSent, ToldToEnd
    <3>3. QED
      BY <1>9, <2>1, <3>1, <3>2
  <2>3. CASE reply[q] # "sent"
    BY <1>9, <1>14, <2>1, <2>3 DEF ContentSent, ToldToEnd
  <2>4. QED
    BY <2>2, <2>3
<1>15. ASSUME NEW q \in Requests, Deleted(q) PROVE Kept'
  <2>1. on[q] \in Jobs /\ maker[on[q]] = "made" /\ HeardTrue(q) /\ pc[q] = "reply" /\ kind[q] = "delete"
        /\ UNCHANGED <<lost, timer>> /\ Leave(q)
    BY <1>10, <1>15 DEF Deleted
  <2>2. CASE reply[q] \in {"making"} \cup Done
    <3>1. Settled(on[q])
      BY <2>1, <2>2 DEF HeardTrue
    <3>2. ToldToEnd(on[q])
      BY <1>15, <2>1, <2>2 DEF Deleted, ToldToEnd
    <3>3. QED
      BY <1>9, <2>1, <3>1, <3>2
  <2>3. CASE reply[q] \notin {"making"} \cup Done
    BY <1>9, <1>15, <2>1, <2>3 DEF Deleted, ToldToEnd
  <2>4. QED
    BY <2>2, <2>3
<1>16. QED
  BY <1>2, <1>3, <1>4, <1>5, <1>6, <1>7, <1>8, <1>11, <1>12, <1>13, <1>14, <1>15, LookKept
     DEF Next, Watch, Handle

\* No failed or lost poll, and no other request, ends the job of a clip that is
\* still being made, while its engine runs.
THEOREM RunningClipsKept == Spec => []RunningClipKept
<1>1. Init => Held
  BY DEF Init, Held, References, Referenced, LosingLost
<1>2. Init => Kept
  BY DEF Init, Kept, EndedSettled, LostExited, HeardTrue
<1>3. Types /\ Entered /\ Held /\ Kept /\ [Next]_vars => Types' /\ Entered' /\ Held' /\ Kept'
  BY TypesNext, HeldNext, KeptNext
<1>4. Types /\ Kept => RunningClipKept
  BY DEF Types, TypeOK, Kept, EndedSettled, Settled, RunningClipKept
<1>5. QED
  BY <1>1, <1>2, <1>3, <1>4, TypesInit, PTL DEF Spec
===============================================================================
