--------------------------- MODULE MlxThreadProofs ---------------------------
(* Machine-checked proofs about MlxThread, for any calls and cancellations.  *)
EXTENDS MlxThread, TLAPS

-----------------------------------------------------------------------------
(* The inductive invariant.                                                *)

\* Where a call is when its function has started, and where it is not.
CallInv(c) ==
  /\ c \in ran => pc[c] \in {"receive", "wait", "returned"} /\ returned[c] # "stopped"
  /\ c \notin ran => pc[c] # "receive" /\ result[c] = "none" /\ returned[c] # "panic"
  /\ pc[c] # "returned" => returned[c] = "none"
  /\ job = c => pc[c] = "receive" /\ c \in ran /\ result[c] = "none"
  /\ c \in Dos => /\ pc[c] \notin {"reset", "wait"}
                  /\ c \in ran => returned[c] # "ctx"
                  /\ returned[c] = "ok" => c \in ran

\* The cleanup and the end of the worker go together.
WorkerInv ==
  /\ ~Started => ran = {} /\ \A c \in Calls : pc[c] = "new"
  /\ done <=> worker \in {"failed", "exited"}
  /\ ran \cap Stops # {} <=> job \in Stops \/ worker \in {"closing", "exited"}

IInv == TypeOK /\ WorkerInv /\ \A c \in Calls : CallInv(c)

LEMMA Disjoint ==
  /\ \A c \in Calls : c \in Dos <=> c \notin Stops
  /\ NoCall \notin Calls
BY CallsAssumption DEF CallsAssumption, Calls

LEMMA IInvInit == Init => IInv
BY Disjoint DEF Init, IInv, TypeOK, WorkerInv, CallInv, Started, Labels, Calls

LEMMA IInvNext == IInv /\ [Next]_vars => IInv'
<1> SUFFICES ASSUME IInv, [Next]_vars PROVE IInv'
  OBVIOUS
<1>1. TypeOK /\ WorkerInv /\ \A c \in Calls : CallInv(c)
  BY DEF IInv
<1>2. ASSUME NEW c \in Dos, DoStep(c) PROVE IInv'
  <2>1. c \in Calls
    BY DEF Calls
  <2>2. CASE CallDo(c)
    BY <1>1, <2>1, <2>2, Disjoint
       DEF IInv, CallDo, GoTo, workerVars, TypeOK, WorkerInv, CallInv, Started, Labels, Calls
  <2>3. CASE CheckStopping(c)
    BY <1>1, <2>1, <2>3, Disjoint
       DEF IInv, CheckStopping, Fail, Return, GoTo, workerVars, TypeOK, WorkerInv, CallInv, Started,
           Labels, Calls
  <2>4. QED
    BY <1>2, <2>2, <2>3 DEF DoStep
<1>3. ASSUME NEW s \in Stops, StopStep(s) PROVE IInv'
  <2>1. s \in Calls
    BY DEF Calls
  <2>2. CASE CallStop(s)
    BY <1>1, <2>1, <2>2, Disjoint
       DEF IInv, CallStop, GoTo, workerVars, TypeOK, WorkerInv, CallInv, Started, Labels, Calls
  <2>3. CASE Reset(s)
    BY <1>1, <2>1, <2>3, Disjoint
       DEF IInv, Reset, Return, workerVars, TypeOK, WorkerInv, CallInv, Started, Labels, Calls
  <2>4. CASE WaitDone(s)
    BY <1>1, <2>1, <2>4, Disjoint
       DEF IInv, WaitDone, Return, workerVars, TypeOK, WorkerInv, CallInv, Started, Labels, Calls
  <2>5. QED
    BY <1>3, <2>2, <2>3, <2>4 DEF StopStep
<1>4. ASSUME NEW c \in Calls, CallStep(c) PROVE IInv'
  <2>1. CASE Enqueue(c)
    BY <1>1, <2>1, Disjoint
       DEF IInv, Enqueue, Fail, Return, GoTo, workerVars, TypeOK, WorkerInv, CallInv, Started,
           Labels, Calls
  <2>2. CASE SelectCtx(c) \/ SelectDone(c)
    BY <1>1, <2>2, Disjoint
       DEF IInv, SelectCtx, SelectDone, Fail, Return, GoTo, workerVars, TypeOK, WorkerInv, CallInv,
           Started, Labels, Calls
  <2>3. CASE Send(c)
    BY <1>1, <2>3, Disjoint
       DEF IInv, Send, GoTo, TypeOK, WorkerInv, CallInv, Started, Labels, Calls
  <2>4. CASE Receive(c)
    BY <1>1, <2>4, Disjoint
       DEF IInv, Receive, Return, GoTo, workerVars, TypeOK, WorkerInv, CallInv, Started, Labels,
           Calls
  <2>5. CASE Cancel(c)
    BY <1>1, <2>5, Disjoint
       DEF IInv, Cancel, workerVars, TypeOK, WorkerInv, CallInv, Started, Labels, Calls
  <2>6. QED
    BY <1>4, <2>1, <2>2, <2>3, <2>4, <2>5 DEF CallStep, Select
<1>5. CASE WorkerStep
  <2>1. CASE InitRuns \/ InitFails \/ CloseDone
    <3>1. UNCHANGED <<pc, ctxDone, result, returned, stopping, job, ran>>
      BY <2>1 DEF InitRuns, InitFails, CloseDone
    <3>2. /\ worker \in {"init", "closing"} /\ (worker = "init" => worker' \in {"idle", "failed"})
          /\ worker = "closing" => worker' = "exited"
      BY <2>1 DEF InitRuns, InitFails, CloseDone
    <3>3. done' \in BOOLEAN /\ (done' <=> worker' \in {"failed", "exited"})
      <4>1. CASE InitRuns
        <5>1. UNCHANGED done /\ worker = "init" /\ worker' = "idle"
          BY <4>1 DEF InitRuns
        <5>2. ~done /\ done \in BOOLEAN
          BY <1>1, <5>1 DEF WorkerInv, TypeOK
        <5>3. QED
          BY <5>1, <5>2
      <4>2. CASE InitFails \/ CloseDone
        BY <4>2 DEF InitFails, CloseDone
      <4>3. QED
        BY <2>1, <4>1, <4>2
    <3>4. TypeOK' /\ \A c \in Calls : CallInv(c)'
      BY <1>1, <3>1, <3>2, <3>3 DEF TypeOK, CallInv
    <3>5. WorkerInv'
      BY <1>1, <3>1, <3>2, <3>3 DEF WorkerInv, Started
    <3>6. QED
      BY <3>4, <3>5 DEF IInv, Calls
  <2>2. CASE RunEnds
    BY <1>1, <2>2, Disjoint
       DEF IInv, RunEnds, TypeOK, WorkerInv, CallInv, Started, Labels, Calls
  <2>3. QED
    BY <1>5, <2>1, <2>2 DEF WorkerStep
<1>6. CASE UNCHANGED vars
  BY <1>1, <1>6 DEF IInv, vars, TypeOK, WorkerInv, CallInv, Started, Labels, Calls
<1>7. QED
  BY <1>2, <1>3, <1>4, <1>5, <1>6 DEF Next

LEMMA InvariantHolds == Spec => []IInv
BY IInvInit, IInvNext, PTL DEF Spec

-----------------------------------------------------------------------------
(* The properties that follow.                                             *)

\* Every variable has its type, and the worker a job while it runs one.
THEOREM TypeCorrect == Spec => []TypeOK
<1>1. IInv => TypeOK
  BY DEF IInv
<1>2. QED
  BY <1>1, InvariantHolds, PTL

\* A call that was refused never runs its function.
THEOREM RefusalsHold == Spec => []RefusedNeverRan
<1>1. IInv => RefusedNeverRan
  BY DEF IInv, CallInv, RefusedNeverRan, Refused, Calls
<1>2. QED
  BY <1>1, InvariantHolds, PTL

\* Nothing is started after a cleanup.
THEOREM CleanupIsLast == Spec => CleanupLast
<1>1. ASSUME IInv, [Next]_vars, NEW c \in Calls, c \in ran' \ ran PROVE ran \cap Stops = {}
  <2>1. worker = "idle"
    <3>1. Send(c)
      BY <1>1 DEF Next, DoStep, StopStep, CallStep, Select, WorkerStep, CallDo, CheckStopping,
                  CallStop, Reset, WaitDone, Enqueue, SelectCtx, SelectDone, Send, Receive, Cancel,
                  InitRuns, InitFails, RunEnds, CloseDone, workerVars, vars
    <3>2. QED
      BY <3>1 DEF Send
  <2>2. job \notin Stops
    BY <1>1, <2>1, Disjoint DEF IInv, TypeOK, Calls
  <2>3. QED
    BY <1>1, <2>1, <2>2 DEF IInv, WorkerInv
<1>2. IInv /\ [Next]_vars => [\A c \in Calls : c \in ran' \ ran => ran \cap Stops = {}]_vars
  BY <1>1
<1>3. QED
  BY <1>2, InvariantHolds, PTL DEF Spec, CleanupLast

\* A Stop that reports success left the thread closed behind a cleanup.
THEOREM StopsClose == Spec => []StopMeansClosed
<1>1. Init => StopMeansClosed
  BY Disjoint DEF Init, StopMeansClosed, Calls
<1>2. IInv /\ StopMeansClosed /\ [Next]_vars => StopMeansClosed'
  <2> SUFFICES ASSUME IInv, StopMeansClosed, [Next]_vars, NEW s \in Stops, returned'[s] = "ok"
               PROVE  done' /\ ran' \cap Stops # {}
    BY DEF StopMeansClosed
  <2>1. (done => done') /\ ran \subseteq ran'
    BY DEF Next, DoStep, StopStep, CallStep, Select, WorkerStep, CallDo, CheckStopping,
           CallStop, Reset, WaitDone, Enqueue, SelectCtx, SelectDone, Send, Receive, Cancel,
           InitRuns, InitFails, RunEnds, CloseDone, workerVars, vars
  <2>2. CASE returned[s] = "ok"
    BY <2>1, <2>2 DEF StopMeansClosed
  <2>3. CASE returned[s] # "ok"
    <3>1. returned \in [Calls -> {"none", "ok", "panic", "ctx", "stopped"}] /\ s \in Calls
      BY DEF IInv, TypeOK, Calls
    <3>2. pc[s] = "wait" /\ done
      BY <2>3, <3>1, Disjoint
         DEF Next, DoStep, StopStep, CallStep, Select, WorkerStep, CallDo, CheckStopping,
             CallStop, Reset, WaitDone, Enqueue, SelectCtx, SelectDone, Send, Receive, Cancel,
             InitRuns, InitFails, RunEnds, CloseDone, workerVars, vars, Fail, Return, GoTo
    <3>3. worker = "exited" /\ ran \cap Stops # {}
      BY <3>1, <3>2 DEF IInv, WorkerInv, Started
    <3>4. QED
      BY <2>1, <3>2, <3>3
  <2>4. QED
    BY <2>2, <2>3
<1>3. QED
  BY <1>1, <1>2, InvariantHolds, PTL DEF Spec

\* The flag that makes Do refuse work is set for a Stop on its way, or for
\* the end of the thread.
THEOREM FlagIsJustified == Spec => []RefusesForAReason
<1>1. Init => RefusesForAReason
  BY DEF Init, RefusesForAReason
<1>2. IInv /\ RefusesForAReason /\ [Next]_vars => RefusesForAReason'
  <2> SUFFICES ASSUME IInv, RefusesForAReason, [Next]_vars, stopping',
                      worker' \notin {"closing", "exited"}
               PROVE  \E s \in Stops : OnItsWay(s)'
    BY DEF RefusesForAReason
  <2>1. /\ pc \in [Calls -> Labels] /\ \A s \in Stops : s \in Calls
        /\ done => worker \in {"failed", "exited"}
        /\ \A s \in Stops : pc[s] # "new" => Started
        /\ job # NoCall <=> worker = "running"
    BY DEF IInv, TypeOK, WorkerInv, Calls
  <2>2. ASSUME NEW c \in Stops, CallStop(c), ~stopping PROVE OnItsWay(c)'
    BY <2>1, <2>2 DEF CallStop, GoTo, OnItsWay
  <2>3. CASE \E c \in Stops : CallStop(c) /\ ~stopping
    BY <2>2, <2>3
  <2>4. CASE ~\E c \in Stops : CallStop(c) /\ ~stopping
    <3>1. stopping
      BY <2>4 DEF Next, DoStep, StopStep, CallStep, Select, WorkerStep, CallDo, CheckStopping,
                  Reset, WaitDone, Enqueue, SelectCtx, SelectDone, Send, Receive, Cancel,
                  InitRuns, InitFails, RunEnds, CloseDone, workerVars, vars, CallStop
    <3>2. worker \notin {"closing", "exited"}
      BY DEF Next, DoStep, StopStep, CallStep, Select, WorkerStep, CallDo, CheckStopping,
             Reset, WaitDone, Enqueue, SelectCtx, SelectDone, Send, Receive, Cancel,
             InitRuns, InitFails, RunEnds, CloseDone, workerVars, vars, CallStop
    <3>3. PICK s \in Stops : OnItsWay(s)
      BY <3>1, <3>2 DEF RefusesForAReason
    <3>4. ~done
      BY <2>1, <3>2, <3>3 DEF OnItsWay, IInv, CallInv, TypeOK, Started
    <3>5. OnItsWay(s)'
      <4>1. ASSUME NEW c \in Dos, DoStep(c) PROVE OnItsWay(s)'
        BY <2>1, <3>3, <4>1, Disjoint
           DEF DoStep, CallDo, CheckStopping, Fail, Return, GoTo, workerVars, OnItsWay, Calls
      <4>2. ASSUME NEW c \in Stops, StopStep(c) PROVE OnItsWay(s)'
        BY <2>1, <3>3, <4>2
           DEF StopStep, CallStop, Reset, WaitDone, Return, GoTo, workerVars, OnItsWay
      <4>3. ASSUME NEW c \in Calls, CallStep(c) PROVE OnItsWay(s)'
        <5>1. CASE Enqueue(c) \/ SelectCtx(c) \/ Cancel(c)
          BY <2>1, <3>3, <5>1
             DEF Enqueue, SelectCtx, Cancel, Fail, Return, GoTo, workerVars, OnItsWay
        <5>2. CASE Send(c) \/ SelectDone(c)
          <6>1. Send(c) /\ job = NoCall
            BY <2>1, <3>4, <5>2 DEF SelectDone, Send
          <6>2. pc[s] \in {"enqueue", "select", "reset"}
            BY <2>1, <3>3, <6>1, Disjoint DEF OnItsWay
          <6>3. QED
            BY <2>1, <6>1, <6>2 DEF Send, GoTo, OnItsWay
        <5>3. CASE Receive(c)
          <6>1. c = s => job = s
            BY <3>3, <5>3 DEF Receive, OnItsWay
          <6>2. QED
            BY <2>1, <3>3, <5>3, <6>1 DEF Receive, Return, GoTo, workerVars, OnItsWay
        <5>4. QED
          BY <4>3, <5>1, <5>2, <5>3 DEF CallStep, Select
      <4>4. CASE WorkerStep
        <5>1. UNCHANGED pc
          BY <4>4 DEF WorkerStep, InitRuns, InitFails, RunEnds, CloseDone
        <5>2. job = s => UNCHANGED job
          BY <4>4 DEF WorkerStep, InitRuns, InitFails, RunEnds, CloseDone
        <5>3. QED
          BY <3>3, <5>1, <5>2 DEF OnItsWay
      <4>5. CASE UNCHANGED vars
        BY <3>3, <4>5 DEF vars, OnItsWay
      <4>6. QED
        BY <4>1, <4>2, <4>3, <4>4, <4>5 DEF Next
    <3>6. QED
      BY <3>5
  <2>5. QED
    BY <2>3, <2>4
<1>3. QED
  BY <1>1, <1>2, InvariantHolds, PTL DEF Spec

-----------------------------------------------------------------------------
(* The thread keeps the promise of SerialWorker.                           *)

Open == worker \in {"init", "idle", "running"}
Outcomes == [c \in Calls |-> Outcome(c)]

\* Nothing the promise speaks of has changed.
LEMMA Stutters ==
  ASSUME UNCHANGED <<returned, ran, job>>, Open' <=> Open
  PROVE  UNCHANGED Serial!vars
<1>1. Outcomes' = Outcomes
  BY DEF Outcomes, Outcome, Refused
<1>2. (worker \in {"init", "idle", "running"})' = (worker \in {"init", "idle", "running"})
  BY DEF Open
<1>3. QED
  BY <1>1, <1>2 DEF Serial!vars, Outcomes

\* A call returns: it was refused, it found the thread closed, or its
\* function has run.
LEMMA Returns ==
  ASSUME IInv, NEW c \in Calls, pc[c] # "returned", job # c, UNCHANGED <<ran, job, worker>>,
         NEW value, returned' = [returned EXCEPT ![c] = value],
         \/ value \in {"ok", "panic"} /\ c \in ran
         \/ value = "ok" /\ c \notin ran /\ c \in Stops /\ worker = "exited"
         \/ value = "stopped" /\ c \notin ran
         \/ value = "ctx" /\ (c \in ran => c \in Stops)
  PROVE  [Serial!Next]_(Serial!vars)
<1>1. /\ returned[c] = "none" /\ returned \in [Calls -> {"none", "ok", "panic", "ctx", "stopped"}]
      /\ NoCall \notin Calls
  BY Disjoint DEF IInv, TypeOK, CallInv
<1>2. \A d \in Calls \ {c} : Outcome(d)' = Outcome(d)
  BY <1>1 DEF Outcome, Refused
<1>3. Outcome(c) = IF c \in ran THEN "ran" ELSE "none"
  BY <1>1 DEF Outcome, Refused
<1>4. returned'[c] = value
  BY <1>1
<1>5. CASE c \in ran
  <2>1. Outcome(c)' = Outcome(c)
    BY <1>3, <1>4, <1>5, Disjoint DEF Outcome, Refused
  <2>2. Outcomes' = Outcomes
    BY <1>2, <2>1 DEF Outcomes
  <2>3. QED
    BY <2>2 DEF Serial!vars, Outcomes
<1>6. CASE c \notin ran /\ value = "ok"
  <2>1. Outcome(c)' = "joined" /\ Outcome(c) = "none"
    BY <1>3, <1>4, <1>6 DEF Outcome, Refused
  <2>2. Outcomes' = [Outcomes EXCEPT ![c] = "joined"]
    BY <1>2, <2>1 DEF Outcomes
  <2>3. Serial!Join(c)
    BY <1>6, <2>1, <2>2 DEF Serial!Join, Outcomes
  <2>4. QED
    BY <1>6, <2>3 DEF Serial!Next
<1>7. CASE c \notin ran /\ value \in {"ctx", "stopped"}
  <2>1. Outcome(c)' = "refused" /\ Outcome(c) = "none"
    BY <1>3, <1>4, <1>7 DEF Outcome, Refused
  <2>2. Outcomes' = [Outcomes EXCEPT ![c] = "refused"]
    BY <1>2, <2>1 DEF Outcomes
  <2>3. Serial!Refuse(c)
    BY <2>1, <2>2 DEF Serial!Refuse, Outcomes
  <2>4. QED
    BY <2>3 DEF Serial!Next, Serial!Calls, Calls
<1>8. QED
  BY <1>5, <1>6, <1>7

LEMMA StepImplements ==
  ASSUME IInv, [Next]_vars
  PROVE  [Serial!Next]_(Serial!vars)
<1>1. /\ TypeOK /\ WorkerInv /\ \A c \in Calls : CallInv(c)
      /\ \A c \in Calls : pc[c] # "new" => Started
  BY DEF IInv, WorkerInv
<1>2. ASSUME NEW c \in Dos, DoStep(c) PROVE [Serial!Next]_(Serial!vars)
  <2>1. c \in Calls /\ c \notin Stops
    BY Disjoint DEF Calls
  <2>2. CASE UNCHANGED returned
    BY <1>2, <2>2, Stutters DEF DoStep, CallDo, CheckStopping, workerVars, Open
  <2>3. CASE CheckStopping(c) /\ ~UNCHANGED returned
    <3>1. pc[c] = "check" /\ returned' = [returned EXCEPT ![c] = "stopped"]
          /\ UNCHANGED <<ran, job, worker>>
      BY <2>3 DEF CheckStopping, Fail, Return, workerVars
    <3>2. c \notin ran /\ job # c
      BY <1>1, <2>1, <3>1 DEF CallInv
    <3>3. QED
      BY <2>1, <3>1, <3>2, Returns
  <2>4. QED
    BY <1>2, <2>2, <2>3 DEF DoStep, CallDo
<1>3. ASSUME NEW s \in Stops, StopStep(s) PROVE [Serial!Next]_(Serial!vars)
  <2>1. s \in Calls
    BY DEF Calls
  <2>2. CASE CallStop(s)
    BY <2>2, Stutters DEF CallStop, workerVars, Open
  <2>3. CASE Reset(s)
    <3>1. pc[s] = "reset" /\ returned' = [returned EXCEPT ![s] = "ctx"]
          /\ UNCHANGED <<ran, job, worker>>
      BY <2>3 DEF Reset, Return, workerVars
    <3>2. job # s
      BY <1>1, <2>1, <3>1 DEF CallInv
    <3>3. QED
      BY <2>1, <3>1, <3>2, Returns
  <2>4. CASE WaitDone(s)
    <3>1. /\ pc[s] = "wait" /\ UNCHANGED <<ran, job, worker>>
          /\ \/ done /\ returned' = [returned EXCEPT ![s] = "ok"]
             \/ returned' = [returned EXCEPT ![s] = "ctx"]
      BY <2>4 DEF WaitDone, Return, workerVars
    <3>2. job # s /\ Started
      BY <1>1, <2>1, <3>1 DEF CallInv
    <3>3. done => worker = "exited"
      BY <1>1, <3>2 DEF WorkerInv, Started
    <3>4. QED
      BY <2>1, <3>1, <3>2, <3>3, Returns
  <2>5. QED
    BY <1>3, <2>2, <2>3, <2>4 DEF StopStep
<1>4. ASSUME NEW c \in Calls, CallStep(c) PROVE [Serial!Next]_(Serial!vars)
  <2>1. CASE Send(c)
    <3>1. /\ pc[c] = "select" /\ worker = "idle" /\ worker' = "running" /\ job' = c
          /\ ran' = ran \cup {c} /\ UNCHANGED returned
      BY <2>1 DEF Send
    <3>2. job = NoCall /\ c \notin ran /\ returned[c] = "none" /\ NoCall \notin Calls
      BY <1>1, <3>1, Disjoint DEF TypeOK, CallInv
    <3>3. \A d \in Calls : Outcome(d)' = Outcome(d)
      BY <3>1, <3>2 DEF Outcome, Refused
    <3>4. Outcome(c) = "none"
      BY <3>2 DEF Outcome, Refused
    <3>5. Serial!Run(c)
      BY <3>1, <3>2, <3>3, <3>4 DEF Serial!Run
    <3>6. QED
      BY <3>5 DEF Serial!Next, Serial!Calls, Calls
  <2>2. CASE UNCHANGED <<returned, worker, job, ran>>
    BY <2>2, Stutters DEF Open
  <2>3. CASE ~Send(c) /\ ~UNCHANGED <<returned, worker, job, ran>>
    <3>1. /\ pc[c] \in {"enqueue", "select", "receive"} /\ UNCHANGED <<worker, job, ran, result>>
          /\ \/ pc[c] # "receive" /\ returned' = [returned EXCEPT ![c] = "ctx"]
             \/ pc[c] # "receive" /\ returned' = [returned EXCEPT ![c] = "stopped"]
             \/ /\ pc[c] = "receive" /\ result[c] # "none"
                /\ returned' = [returned EXCEPT ![c] = result[c]]
      <4>1. CASE Enqueue(c)
        BY <2>3, <4>1 DEF Enqueue, Fail, Return, workerVars
      <4>2. CASE SelectCtx(c) \/ SelectDone(c)
        BY <2>3, <4>2 DEF SelectCtx, SelectDone, Fail, Return, workerVars
      <4>3. CASE Receive(c)
        BY <2>3, <4>3 DEF Receive, Return, workerVars
      <4>4. CASE Cancel(c)
        BY <2>3, <4>4 DEF Cancel, workerVars
      <4>5. QED
        BY <1>4, <2>3, <4>1, <4>2, <4>3, <4>4 DEF CallStep, Select
    <3>2. CASE pc[c] # "receive"
      <4>1. job # c /\ c \notin ran
        BY <1>1, <3>1, <3>2 DEF CallInv
      <4>2. QED
        BY <3>1, <3>2, <4>1, Returns
    <3>3. CASE pc[c] = "receive"
      <4>1. result[c] \in {"ok", "panic"} /\ job # c /\ c \in ran
        BY <1>1, <3>1, <3>3 DEF CallInv, TypeOK
      <4>2. QED
        BY <3>1, <3>3, <4>1, Returns
    <3>4. QED
      BY <3>2, <3>3
  <2>4. QED
    BY <2>1, <2>2, <2>3
<1>5. CASE WorkerStep
  <2>1. CASE InitRuns \/ CloseDone
    BY <2>1, Stutters DEF InitRuns, CloseDone, Open
  <2>2. CASE InitFails
    <3>1. worker = "init" /\ worker' = "failed" /\ UNCHANGED <<returned, ran, job>>
      BY <2>2 DEF InitFails
    <3>2. job = NoCall /\ ran = {} /\ \A c \in Calls : returned[c] = "none"
      BY <1>1, <3>1 DEF TypeOK, WorkerInv, CallInv, Started
    <3>3. \A c \in Calls : Outcome(c) = "none" /\ Outcome(c)' = "none"
      BY <3>1, <3>2 DEF Outcome, Refused
    <3>4. Serial!NeverStarts
      BY <3>1, <3>2, <3>3 DEF Serial!NeverStarts, Serial!Calls, Calls
    <3>5. QED
      BY <3>4 DEF Serial!Next
  <2>3. CASE RunEnds
    <3>1. /\ worker = "running" /\ worker' = IF job \in Stops THEN "closing" ELSE "idle"
          /\ job' = NoCall /\ UNCHANGED <<returned, ran>>
      BY <2>3 DEF RunEnds
    <3>2. /\ job \in Calls /\ job # NoCall /\ job \in ran /\ returned[job] = "none"
          /\ NoCall \notin Calls
      BY <1>1, <3>1, Disjoint DEF TypeOK, CallInv
    <3>3. Outcome(job) = "none" /\ \A d \in Calls : Outcome(d)' = IF d = job THEN "ran" ELSE Outcome(d)
      BY <3>1, <3>2 DEF Outcome, Refused
    <3>4. Outcomes' = [Outcomes EXCEPT ![job] = "ran"]
      BY <3>2, <3>3 DEF Outcomes
    <3>5. (worker \in {"init", "idle", "running"})' = (job \in Dos)
      BY <3>1, <3>2, Disjoint
    <3>6. Serial!Finish
      BY <3>1, <3>2, <3>4, <3>5 DEF Serial!Finish, Outcomes
    <3>7. QED
      BY <3>6 DEF Serial!Next
  <2>4. QED
    BY <1>5, <2>1, <2>2, <2>3 DEF WorkerStep
<1>6. CASE UNCHANGED vars
  BY <1>6, Stutters DEF vars, Open
<1>7. QED
  BY <1>2, <1>3, <1>4, <1>5, <1>6 DEF Next

\* One function at a time, each at most once, none after it was refused and
\* none after a cleanup: the promise of SerialWorker.
THEOREM Implements == Spec => ImplementsSerialWorker
<1>1. Init => Serial!Init
  <2> SUFFICES ASSUME Init PROVE Serial!Init
    OBVIOUS
  <2>1. \A c \in Calls : Outcome(c) = "none"
    BY DEF Init, Outcome, Refused
  <2>2. QED
    BY <2>1 DEF Init, Serial!Init, Serial!Calls, Calls
<1>2. IInv /\ [Next]_vars => [Serial!Next]_(Serial!vars)
  BY StepImplements
<1>3. QED
  BY <1>1, <1>2, InvariantHolds, PTL DEF Spec, Serial!Spec, ImplementsSerialWorker
=============================================================================
