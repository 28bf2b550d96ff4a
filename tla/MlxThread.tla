------------------------------ MODULE MlxThread ------------------------------
(* The MLX worker thread, mlx/mlxthread/thread.go: one goroutine locked to an *)
(* OS thread, callers that hand it functions over the unbuffered channel     *)
(* jobs, and Stop, which hands it a last one.                                *)
(*                                                                           *)
(* A call is one use of Do (Call is Do with a value) or of Stop, each with   *)
(* a context of its own.  What a function computes is left out; it returns   *)
(* or panics.                                                                *)
CONSTANTS
  Dos,          \* calls of Do
  Stops,        \* calls of Stop
  NoCall,       \* the worker has no job
  Cancellable   \* calls whose context may be cancelled

ASSUME CallsAssumption ==
  /\ Dos \cap Stops = {} /\ NoCall \notin Dos \cup Stops
  /\ Cancellable \subseteq Dos \cup Stops

VARIABLES
  pc,         \* where a call is
  ctxDone,    \* calls whose context is done
  result,     \* the buffered result channel of a call's job
  returned,   \* what a call returned: nil or its function's error, a panic,
              \* the context's error, ErrStopped
  stopping,   \* the flag of that name
  done,       \* whether the channel done is closed
  worker,     \* where loop is
  job,        \* the job it has taken
  ran         \* history: the calls whose function was started

vars == <<pc, ctxDone, result, returned, stopping, done, worker, job, ran>>
workerVars == <<done, worker, job, ran, result>>

Calls == Dos \cup Stops

-----------------------------------------------------------------------------
(* loop.                                                                   *)

\* run(init), and what Start returns: a thread, or nothing to call.
InitRuns ==
  /\ worker = "init"
  /\ worker' = "idle"
  /\ UNCHANGED <<pc, ctxDone, result, returned, stopping, done, job, ran>>

InitFails ==
  /\ worker = "init"
  /\ worker' = "failed" /\ done' = TRUE
  /\ UNCHANGED <<pc, ctxDone, result, returned, stopping, job, ran>>

Started == worker \notin {"init", "failed"}

\* Mutant of RunEnds: the worker takes other jobs after the last one.
RunEndsGoesOn ==
  /\ worker = "running"
  /\ \E res \in {"ok", "panic"} : result' = [result EXCEPT ![job] = res]
  /\ worker' = "idle"
  /\ job' = NoCall
  /\ UNCHANGED <<pc, ctxDone, returned, stopping, done, ran>>

\* The function returns or panics; run recovers, and the result is buffered.
RunEnds ==
  /\ worker = "running"
  /\ \E res \in {"ok", "panic"} : result' = [result EXCEPT ![job] = res]
  /\ worker' = IF job \in Stops THEN "closing" ELSE "idle"
  /\ job' = NoCall
  /\ UNCHANGED <<pc, ctxDone, returned, stopping, done, ran>>

\* The end of the loop: done is closed once and for all.
CloseDone ==
  /\ worker = "closing"
  /\ worker' = "exited" /\ done' = TRUE
  /\ UNCHANGED <<pc, ctxDone, result, returned, stopping, job, ran>>

-----------------------------------------------------------------------------
(* Do, Stop and enqueue, in the goroutine of the caller.                   *)

GoTo(c, label) == pc' = [pc EXCEPT ![c] = label]

Return(c, value) ==
  /\ pc' = [pc EXCEPT ![c] = "returned"]
  /\ returned' = [returned EXCEPT ![c] = value]

CallDo(c) ==
  /\ Started /\ pc[c] = "new"
  /\ GoTo(c, "enqueue")
  /\ UNCHANGED <<ctxDone, returned, stopping, workerVars>>

\* The compare-and-swap: the loser waits for the worker to end.
CallStop(s) ==
  /\ Started /\ pc[s] = "new"
  /\ stopping' = TRUE
  /\ GoTo(s, IF stopping THEN "wait" ELSE "enqueue")
  /\ UNCHANGED <<ctxDone, returned, workerVars>>

\* Mutant of Fail: a Stop that gave up leaves the flag set.
FailKeepsFlag(c, err) == Return(c, err)

\* enqueue returns an error: Do passes it on, Stop takes its flag back first
\* unless the thread is stopped.
Fail(c, err) ==
  IF c \in Stops /\ err # "stopped"
  THEN GoTo(c, "reset") /\ UNCHANGED returned
  ELSE Return(c, err)

Enqueue(c) ==
  /\ pc[c] = "enqueue"
  /\ IF c \in ctxDone THEN Fail(c, "ctx")
     ELSE GoTo(c, IF c \in Stops THEN "select" ELSE "check") /\ UNCHANGED returned
  /\ UNCHANGED <<ctxDone, stopping, workerVars>>

CheckStopping(c) ==
  /\ pc[c] = "check"
  /\ IF stopping THEN Fail(c, "stopped") ELSE GoTo(c, "select") /\ UNCHANGED returned
  /\ UNCHANGED <<ctxDone, stopping, workerVars>>

\* The select: the context ends, the thread is closed, or the worker takes
\* the job and starts its function.
SelectCtx(c) ==
  /\ pc[c] = "select" /\ c \in ctxDone
  /\ Fail(c, "ctx")
  /\ UNCHANGED <<ctxDone, stopping, workerVars>>

SelectDone(c) ==
  /\ pc[c] = "select" /\ done
  /\ Fail(c, "stopped")
  /\ UNCHANGED <<ctxDone, stopping, workerVars>>

Send(c) ==
  /\ pc[c] = "select" /\ worker = "idle"
  /\ worker' = "running" /\ job' = c /\ ran' = ran \cup {c}
  /\ GoTo(c, "receive")
  /\ UNCHANGED <<ctxDone, returned, stopping, done, result>>

\* Mutant of Receive: the wait for the result ends with the context too.
ReceiveOrCtx(c) ==
  /\ pc[c] = "receive"
  /\ \/ c \in ctxDone /\ Return(c, "ctx")
     \/ result[c] # "none" /\ Return(c, result[c])
  /\ UNCHANGED <<ctxDone, stopping, workerVars>>

\* The result; a panic is raised again, a Stop waits for the worker to end.
Receive(c) ==
  /\ pc[c] = "receive" /\ result[c] # "none"
  /\ IF c \in Stops /\ result[c] = "ok"
     THEN GoTo(c, "wait") /\ UNCHANGED returned
     ELSE Return(c, result[c])
  /\ UNCHANGED <<ctxDone, stopping, workerVars>>

Reset(s) ==
  /\ pc[s] = "reset"
  /\ stopping' = FALSE
  /\ Return(s, "ctx")
  /\ UNCHANGED <<ctxDone, workerVars>>

\* Mutant of WaitDone: an early return for a Stop that finds one under way.
WaitDoneNot(s) ==
  /\ pc[s] = "wait"
  /\ Return(s, "ok")
  /\ UNCHANGED <<ctxDone, stopping, workerVars>>

WaitDone(s) ==
  /\ pc[s] = "wait"
  /\ \/ done /\ Return(s, "ok")
     \/ s \in ctxDone /\ Return(s, "ctx")
  /\ UNCHANGED <<ctxDone, stopping, workerVars>>

Cancel(c) ==
  /\ c \in Cancellable \ ctxDone
  /\ ctxDone' = ctxDone \cup {c}
  /\ UNCHANGED <<pc, returned, stopping, workerVars>>

-----------------------------------------------------------------------------
Init ==
  /\ pc = [c \in Calls |-> "new"] /\ returned = [c \in Calls |-> "none"]
  /\ result = [c \in Calls |-> "none"]
  /\ ctxDone = {} /\ ran = {}
  /\ stopping = FALSE /\ done = FALSE /\ worker = "init" /\ job = NoCall

\* Mutant of Select: done is not among the cases.
SelectNoDone(c) == SelectCtx(c) \/ Send(c)

Select(c) == SelectCtx(c) \/ SelectDone(c) \/ Send(c)

DoStep(c) == CallDo(c) \/ CheckStopping(c)
StopStep(s) == CallStop(s) \/ Reset(s) \/ WaitDone(s)
CallStep(c) == Enqueue(c) \/ Select(c) \/ Receive(c) \/ Cancel(c)
WorkerStep == InitRuns \/ InitFails \/ RunEnds \/ CloseDone

Next ==
  \/ \E c \in Dos : DoStep(c)
  \/ \E s \in Stops : StopStep(s)
  \/ \E c \in Calls : CallStep(c)
  \/ WorkerStep

\* The worker and every call that was made go on when they can; a function
\* handed to the thread ends.  Nobody has to call or to cancel.
Fairness ==
  /\ WF_vars(WorkerStep)
  /\ \A c \in Calls : WF_vars(Enqueue(c)) /\ WF_vars(Select(c)) /\ WF_vars(Receive(c))
  /\ \A c \in Dos : WF_vars(CheckStopping(c))
  /\ \A s \in Stops : WF_vars(Reset(s)) /\ WF_vars(WaitDone(s))

Spec == Init /\ [][Next]_vars
FairSpec == Spec /\ Fairness

-----------------------------------------------------------------------------
(* Properties.                                                             *)

\* Every variable has its type; the worker has a job exactly while it runs
\* one.
Labels == {"new", "enqueue", "check", "select", "receive", "reset", "wait", "returned"}
TypeOK ==
  /\ pc \in [Calls -> Labels]
  /\ returned \in [Calls -> {"none", "ok", "panic", "ctx", "stopped"}]
  /\ result \in [Calls -> {"none", "ok", "panic"}]
  /\ ctxDone \subseteq Calls /\ ran \subseteq Calls
  /\ stopping \in BOOLEAN /\ done \in BOOLEAN
  /\ worker \in {"init", "failed", "idle", "running", "closing", "exited"}
  /\ job \in Calls \cup {NoCall}
  /\ job # NoCall <=> worker = "running"

\* thread.go:75 "Context cancellation only applies while the work is queued":
\* a Do that reports its context's error or ErrStopped did not run its
\* function and never will; nor did a Stop that reports ErrStopped.
Refused(c) == returned[c] = "stopped" \/ (c \in Dos /\ returned[c] = "ctx")
RefusedNeverRan == \A c \in Calls : Refused(c) => c \notin ran

\* A cleanup is the last function of the thread: after one has started no
\* other does, however many calls of Stop were made, lost or retried.
CleanupLast ==
  [][\A c \in Calls : c \in ran' \ ran => ran \cap Stops = {}]_vars

\* A Stop that reports success leaves the thread closed, with a cleanup run.
StopMeansClosed ==
  \A s \in Stops : returned[s] = "ok" => done /\ ran \cap Stops # {}

\* The flag that makes Do refuse work is set only while some Stop is still on
\* its way, or the thread is closing for good.
OnItsWay(s) == pc[s] \in {"enqueue", "select", "reset"} \/ job = s
RefusesForAReason ==
  stopping => worker \in {"closing", "exited"} \/ \E s \in Stops : OnItsWay(s)

\* Every call of Do returns, whoever stops the thread meanwhile.
DoReturns == \A c \in Dos : pc[c] = "enqueue" ~> pc[c] = "returned"

-----------------------------------------------------------------------------
(* The promise of SerialWorker.                                            *)

Outcome(c) ==
  IF Refused(c) \/ (returned[c] = "ctx" /\ c \notin ran) THEN "refused"
  ELSE IF c \in ran THEN (IF job = c THEN "none" ELSE "ran")
  ELSE IF returned[c] = "ok" THEN "joined" ELSE "none"
Serial == INSTANCE SerialWorker
  WITH open <- worker \in {"init", "idle", "running"},
       current <- job,
       outcome <- [c \in Calls |-> Outcome(c)]
ImplementsSerialWorker == Serial!Spec
=============================================================================
