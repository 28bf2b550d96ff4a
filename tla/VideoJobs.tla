------------------------------ MODULE VideoJobs ------------------------------
(* Video jobs, server/media_video.go: a clip is made by an engine process,   *)
(* the server keeps a table of the clips it was asked for, and each entry    *)
(* holds the engine's scheduler reference from the create to the end of the  *)
(* clip, past the request that made it.                                      *)
(*                                                                           *)
(* A job is one call of VideoCreateHandler; when that succeeds its goroutine *)
(* watch follows it, under the job's own name.  A request serves one later   *)
(* call after another: GET, GET content or DELETE of a job in the table.     *)
EXTENDS Naturals

CONSTANTS
  Jobs,       \* calls of VideoCreateHandler
  Requests,   \* goroutines of the other handlers
  Engines,    \* engine processes the scheduler can start
  NoEngine,   \* a job without a runner
  NoJob,      \* a request without a job
  Keep,       \* videoKeep, in ticks
  Fetched     \* videoFetched, in ticks

ASSUME JobsAssumption ==
  /\ Jobs \cap Requests = {}
  /\ NoEngine \notin Engines /\ NoJob \notin Jobs
  /\ Keep \in Nat /\ Fetched \in 0 .. Keep

VARIABLES
  engine,     \* what became of an engine process
  clip,       \* an engine's own record of a job's clip
  maker,      \* where the create handler of a job is
  clientGone, \* jobs whose create request is over or cancelled
  armed,      \* jobs whose context.AfterFunc(ctx, release) is not stopped
  runner,     \* videoJob.runner
  released,   \* jobs whose release was called: no scheduler reference
  table,      \* videoJobs.jobs
  last,       \* videoJob.last, its status
  lost,       \* jobs with videoJob.lost
  timer,      \* ticks until videoJob.timer fires, NoTimer if it is nil
  ended,      \* jobs whose once has started
  gone,       \* jobs whose channel gone is closed
  pc,         \* where a watch or a request is
  kind,       \* which of watch and the handlers it is
  on,         \* the job it looks at
  reply,      \* the engine's answer to it, then the status it answers
  heldFor,    \* history: ticks since a timer was first set
  sinceFetch  \* history: ticks since the content was first fetched

jobVars == <<table, last, lost, timer, ended, gone, released>>
makerVars == <<maker, clientGone, armed, runner>>
procVars == <<pc, kind, on, reply>>
clocks == <<heldFor, sinceFetch>>
vars == <<engine, clip, makerVars, jobVars, procVars, clocks>>

Procs == Jobs \cup Requests
NoTimer == Keep + 1
Never == Keep + 1                       \* a history clock that has not started
Done == {"completed", "failed"}         \* videoDone
HasExited(e) == e \in Engines /\ engine[e] \in {"exited", "unloaded"}

-----------------------------------------------------------------------------
(* VideoCreateHandler.                                                     *)

\* The handler up to mediaRunner: the reference hangs on the client until the
\* engine is there.
Create(j) ==
  /\ maker[j] = "none"
  /\ maker' = [maker EXCEPT ![j] = "loading"]
  /\ armed' = armed \cup {j}
  /\ UNCHANGED <<engine, clip, clientGone, runner, jobVars, procVars, clocks>>

\* The request's context ends: AfterFunc releases, if it was not stopped.
ClientLeaves(j) ==
  /\ maker[j] # "none" /\ j \notin clientGone
  /\ clientGone' = clientGone \cup {j}
  /\ released' = IF j \in armed THEN released \cup {j} ELSE released
  /\ UNCHANGED <<engine, clip, maker, armed, runner, table, last, lost, timer,
                 ended, gone, procVars, clocks>>

\* mediaRunner answers with a loaded engine, or one it loads.
LoadOk(j) ==
  /\ maker[j] = "loading"
  /\ \E e \in Engines :
       /\ engine[e] = "up" \/ (engine[e] = "off" /\ \A d \in Engines : engine[d] # "up")
       /\ engine' = [engine EXCEPT ![e] = "up"]
       /\ runner' = [runner EXCEPT ![j] = e]
  /\ maker' = [maker EXCEPT ![j] = "granted"]
  /\ UNCHANGED <<clip, clientGone, armed, jobVars, procVars, clocks>>

LoadFails(j) ==
  /\ maker[j] = "loading"
  /\ maker' = [maker EXCEPT ![j] = "refused"]
  /\ UNCHANGED <<engine, clip, clientGone, armed, runner, jobVars, procVars, clocks>>

\* stop() and the tests after it: a client that left, an error of mediaRunner.
Disarm(j) ==
  /\ maker[j] \in {"granted", "refused"}
  /\ armed' = armed \ {j}
  /\ IF j \in clientGone \/ maker[j] = "refused"
     THEN maker' = [maker EXCEPT ![j] = "over"] /\ released' = released \cup {j}
     ELSE maker' = [maker EXCEPT ![j] = "asking"] /\ UNCHANGED released
  /\ UNCHANGED <<engine, clip, clientGone, runner, table, last, lost, timer,
                 ended, gone, procVars, clocks>>

\* POST /v1/videos on the engine is accepted.
PostOk(j) ==
  /\ maker[j] = "asking" /\ engine[runner[j]] = "up"
  /\ clip' = [clip EXCEPT ![j] = "making"]
  /\ maker' = [maker EXCEPT ![j] = "accepted"]
  /\ UNCHANGED <<engine, clientGone, armed, runner, jobVars, procVars, clocks>>

\* It fails, is refused, or its answer is lost after the engine took the job.
PostFails(j) ==
  /\ maker[j] = "asking"
  /\ clip' \in {clip} \cup
       (IF engine[runner[j]] = "up" THEN {[clip EXCEPT ![j] = "making"]} ELSE {})
  /\ maker' = [maker EXCEPT ![j] = "over"]
  /\ released' = released \cup {j}
  /\ UNCHANGED <<engine, clientGone, armed, runner, table, last, lost, timer,
                 ended, gone, procVars, clocks>>

\* The job is entered in the table and watch starts.
Insert(j) ==
  /\ maker[j] = "accepted"
  /\ maker' = [maker EXCEPT ![j] = "made"]
  /\ table' = table \cup {j}
  /\ last' = [last EXCEPT ![j] = "making"]
  /\ pc' = [pc EXCEPT ![j] = "tick"]
  /\ kind' = [kind EXCEPT ![j] = "watch"]
  /\ on' = [on EXCEPT ![j] = j]
  /\ UNCHANGED <<engine, clip, clientGone, armed, runner, lost, timer, ended,
                 gone, released, reply, clocks>>

-----------------------------------------------------------------------------
(* The end of a job.                                                       *)

\* Mutant of End: released, but the entry is left for the janitor.
EndInTable(j) ==
  /\ ended' = ended \cup {j}
  /\ UNCHANGED table

\* end up to the release: once, and out of the table.
End(j) ==
  /\ ended' = ended \cup {j}
  /\ table' = table \ {j}

\* end: the release, and gone closed.
EndReleases(j) ==
  /\ j \in ended /\ j \notin gone
  /\ released' = released \cup {j}
  /\ gone' = gone \cup {j}
  /\ UNCHANGED <<engine, clip, makerVars, table, last, lost, timer, ended,
                 procVars, clocks>>

\* Mutant of EndAfter: each look at a finished clip starts the hold again.
EndAfterAgain(j, d) ==
  /\ timer' = [timer EXCEPT ![j] = d]
  /\ heldFor' = [heldFor EXCEPT ![j] = IF @ = Never THEN 0 ELSE @]

\* endAfter: the earlier end wins.
EndAfter(j, d) ==
  /\ timer' = [timer EXCEPT ![j] = IF d < @ THEN d ELSE @]
  /\ heldFor' = [heldFor EXCEPT ![j] = IF @ = Never THEN 0 ELSE @]

\* The timer's function, end.
TimerFires(j) ==
  /\ timer[j] = 0 /\ j \notin ended
  /\ End(j)
  /\ UNCHANGED <<engine, clip, makerVars, last, lost, timer, gone, released,
                 procVars, clocks>>

\* Time passes; a timer that is due is not kept waiting for a tick.
Tick ==
  /\ \A j \in Jobs \ ended : timer[j] # 0
  /\ \E j \in Jobs \ ended : timer[j] # NoTimer
  /\ timer' = [j \in Jobs |->
       IF j \in ended \/ timer[j] = NoTimer THEN timer[j] ELSE timer[j] - 1]
  /\ heldFor' = [j \in Jobs |->
       IF j \in ended \/ heldFor[j] = Never THEN heldFor[j] ELSE heldFor[j] + 1]
  /\ sinceFetch' = [j \in Jobs |->
       IF j \in ended \/ sinceFetch[j] = Never THEN sinceFetch[j] ELSE sinceFetch[j] + 1]
  /\ UNCHANGED <<engine, clip, makerVars, table, last, lost, ended, gone,
                 released, procVars>>

-----------------------------------------------------------------------------
(* Looking at a job: watch and the handlers of requests.                   *)

Heard(p, l, r) ==
  /\ pc' = [pc EXCEPT ![p] = l]
  /\ reply' = [reply EXCEPT ![p] = r]
  /\ UNCHANGED <<kind, on>>

Goto(p, l) == Heard(p, l, reply[p])

\* watch returns, or a handler has answered its client.
Leave(p) ==
  /\ pc' = [pc EXCEPT ![p] = IF p \in Jobs THEN "over" ELSE "idle"]
  /\ kind' = [kind EXCEPT ![p] = "none"]
  /\ on' = [on EXCEPT ![p] = NoJob]
  /\ reply' = [reply EXCEPT ![p] = "none"]

\* The ticker of watch, or its channel gone.
Poll(j) ==
  /\ pc[j] = "tick"
  /\ \/ Goto(j, "check")
     \/ j \in gone /\ Leave(j)
  /\ UNCHANGED <<engine, clip, makerVars, jobVars, clocks>>

\* A request finds its job in the table (videoJobOr404).
Arrive(q) ==
  /\ pc[q] = "idle"
  /\ \E j \in table, k \in {"get", "content", "delete"} :
       /\ on' = [on EXCEPT ![q] = j]
       /\ kind' = [kind EXCEPT ![q] = k]
  /\ pc' = [pc EXCEPT ![q] = "check"]
  /\ UNCHANGED <<engine, clip, makerVars, jobVars, reply, clocks>>

\* isLost before the engine is asked.
CheckLost(p) ==
  /\ pc[p] = "check"
  /\ IF on[p] \notin lost
     THEN Goto(p, "ask") /\ UNCHANGED <<table, ended>>
     ELSE CASE kind[p] = "content" -> Leave(p) /\ UNCHANGED <<table, ended>>
            [] kind[p] = "delete" -> Leave(p) /\ End(on[p])
            [] OTHER -> Goto(p, "lose") /\ UNCHANGED <<table, ended>>
  /\ UNCHANGED <<engine, clip, makerVars, last, lost, timer, gone, released, clocks>>

\* What the engine answers when it answers: the clip's status, or that it has
\* no such clip (404, 410); a clip that is being made has no content to send.
EngineSays(p) ==
  IF kind[p] = "content"
  THEN IF clip[on[p]] = "completed" THEN "sent" ELSE "refused"
  ELSE clip[on[p]]

\* MediaDo answers.  A DELETE cancels or drops the clip.
Answered(p) ==
  /\ pc[p] = "ask" /\ engine[runner[on[p]]] = "up"
  /\ Heard(p, "reply", EngineSays(p))
  /\ clip' = IF kind[p] = "delete" THEN [clip EXCEPT ![on[p]] = "dropped"] ELSE clip
  /\ UNCHANGED <<engine, makerVars, jobVars, clocks>>

\* It fails (a deadline, a client that left, an engine that exited), or an
\* engine that runs answers another error ("refused"); a DELETE may have been
\* done.
Unanswered(p) ==
  /\ pc[p] = "ask"
  /\ \E r \in {"error"} \cup (IF engine[runner[on[p]]] = "up" THEN {"refused"} ELSE {}) :
       Heard(p, "reply", r)
  /\ clip' \in {clip} \cup
       (IF kind[p] = "delete" /\ engine[runner[on[p]]] = "up"
        THEN {[clip EXCEPT ![on[p]] = "dropped"]} ELSE {})
  /\ UNCHANGED <<engine, makerVars, jobVars, clocks>>

\* refresh keeps the engine's answer.
Store(p) ==
  /\ pc[p] = "reply" /\ kind[p] \in {"watch", "get"}
  /\ reply[p] \in {"making"} \cup Done
  /\ last' = [last EXCEPT ![on[p]] = reply[p]]
  /\ Goto(p, "after")
  /\ UNCHANGED <<engine, clip, makerVars, table, lost, timer, ended, gone,
                 released, clocks>>

\* refresh without an object: an exited engine loses the job.
NoAnswer(p) ==
  /\ pc[p] = "reply" /\ kind[p] \in {"watch", "get"}
  /\ reply[p] \in {"error", "refused", "dropped"}
  /\ Goto(p, IF reply[p] = "error" /\ HasExited(runner[on[p]]) THEN "lose" ELSE "after")
  /\ UNCHANGED <<engine, clip, makerVars, jobVars, clocks>>

\* lose, under j.mu.
Lose(p) ==
  /\ pc[p] = "lose"
  /\ LET j == on[p] IN
       /\ lost' = lost \cup {j}
       /\ last' = IF j \in lost THEN last ELSE [last EXCEPT ![j] = "failed"]
       /\ Heard(p, "losing", last'[j])
  /\ UNCHANGED <<engine, clip, makerVars, table, timer, ended, gone, released,
                 clocks>>

\* Mutant of LoseReleases: the failed job is kept for ever.
LoseReleasesOnly(p) ==
  /\ pc[p] = "losing"
  /\ released' = released \cup {on[p]}
  /\ Goto(p, "after")
  /\ UNCHANGED <<engine, clip, makerVars, table, last, lost, timer, ended, gone,
                 clocks>>

\* The rest of lose: release, endAfter(keep).
LoseReleases(p) ==
  /\ pc[p] = "losing"
  /\ released' = released \cup {on[p]}
  /\ EndAfter(on[p], Keep)
  /\ Goto(p, "after")
  /\ UNCHANGED <<engine, clip, makerVars, table, last, lost, ended, gone, sinceFetch>>

\* Mutant of WatchDecides: an answer without the clip ends the job.
WatchGivesUp(j) ==
  /\ pc[j] = "after" /\ j \in Jobs
  /\ IF reply[j] \in {"dropped", "error", "refused"}
     THEN End(j) /\ UNCHANGED <<timer, heldFor>>
     ELSE EndAfter(j, Keep) /\ UNCHANGED <<table, ended>>
  /\ Leave(j)
  /\ UNCHANGED <<engine, clip, makerVars, last, lost, gone, released, sinceFetch>>

\* The switch of watch.
WatchDecides(j) ==
  /\ pc[j] = "after" /\ j \in Jobs
  /\ CASE reply[j] = "dropped" -> End(j) /\ Leave(j) /\ UNCHANGED <<timer, heldFor>>
       [] reply[j] # "dropped" /\ j \in lost ->
            Leave(j) /\ UNCHANGED <<table, ended, timer, heldFor>>
       [] reply[j] \in Done /\ j \notin lost ->
            EndAfter(j, Keep) /\ Leave(j) /\ UNCHANGED <<table, ended>>
       [] OTHER -> Goto(j, "tick") /\ UNCHANGED <<table, ended, timer, heldFor>>
  /\ UNCHANGED <<engine, clip, makerVars, last, lost, gone, released, sinceFetch>>

\* VideoGetHandler after refresh.
GetAnswers(q) ==
  /\ pc[q] = "after" /\ q \in Requests
  /\ CASE reply[q] = "dropped" -> End(on[q]) /\ UNCHANGED <<timer, heldFor>>
       [] reply[q] \in Done -> EndAfter(on[q], Keep) /\ UNCHANGED <<table, ended>>
       [] OTHER -> UNCHANGED <<table, ended, timer, heldFor>>
  /\ Leave(q)
  /\ UNCHANGED <<engine, clip, makerVars, last, lost, gone, released, sinceFetch>>

\* VideoContentHandler: a clip sent in full is held for videoFetched.
ContentSent(q) ==
  /\ pc[q] = "reply" /\ kind[q] = "content"
  /\ IF reply[q] = "sent"
     THEN /\ EndAfter(on[q], Fetched)
          /\ sinceFetch' = [sinceFetch EXCEPT ![on[q]] = IF @ = Never THEN 0 ELSE @]
     ELSE UNCHANGED <<timer, clocks>>
  /\ Leave(q)
  /\ UNCHANGED <<engine, clip, makerVars, table, last, lost, ended, gone,
                 released>>

\* VideoDeleteHandler: the engine's 200 ends the job.
Deleted(q) ==
  /\ pc[q] = "reply" /\ kind[q] = "delete"
  /\ IF reply[q] \in {"making"} \cup Done THEN End(on[q]) ELSE UNCHANGED <<table, ended>>
  /\ Leave(q)
  /\ UNCHANGED <<engine, clip, makerVars, last, lost, timer, gone, released,
                 clocks>>

-----------------------------------------------------------------------------
(* The engines and the scheduler.                                          *)

\* The engine finishes a clip.
ClipFinished(j) ==
  /\ clip[j] = "making" /\ engine[runner[j]] = "up"
  /\ \E s \in Done : clip' = [clip EXCEPT ![j] = s]
  /\ UNCHANGED <<engine, makerVars, jobVars, procVars, clocks>>

\* It drops a finished clip (--media-job-ttl).
ClipDropped(j) ==
  /\ clip[j] \in Done /\ engine[runner[j]] = "up"
  /\ clip' = [clip EXCEPT ![j] = "dropped"]
  /\ UNCHANGED <<engine, makerVars, jobVars, procVars, clocks>>

EngineExits(e) ==
  /\ engine[e] = "up"
  /\ engine' = [engine EXCEPT ![e] = "exited"]
  /\ UNCHANGED <<clip, makerVars, jobVars, procVars, clocks>>

\* The scheduler unloads an engine no reference holds.
Unload(e) ==
  /\ engine[e] = "up"
  /\ \A j \in Jobs : runner[j] = e => j \in released
  /\ engine' = [engine EXCEPT ![e] = "unloaded"]
  /\ UNCHANGED <<clip, makerVars, jobVars, procVars, clocks>>

-----------------------------------------------------------------------------
Init ==
  /\ engine = [e \in Engines |-> "off"]
  /\ clip = [j \in Jobs |-> "none"]
  /\ maker = [j \in Jobs |-> "none"]
  /\ runner = [j \in Jobs |-> NoEngine]
  /\ clientGone = {} /\ armed = {} /\ released = {}
  /\ table = {} /\ lost = {} /\ ended = {} /\ gone = {}
  /\ last = [j \in Jobs |-> "none"]
  /\ timer = [j \in Jobs |-> NoTimer]
  /\ pc = [p \in Procs |-> "idle"]
  /\ kind = [p \in Procs |-> "none"]
  /\ on = [p \in Procs |-> NoJob]
  /\ reply = [p \in Procs |-> "none"]
  /\ heldFor = [j \in Jobs |-> Never] /\ sinceFetch = [j \in Jobs |-> Never]

Make(j) ==
  \/ Create(j) \/ LoadOk(j) \/ LoadFails(j) \/ Disarm(j)
  \/ PostOk(j) \/ PostFails(j) \/ Insert(j)

Look(p) ==
  \/ CheckLost(p) \/ Answered(p) \/ Unanswered(p)
  \/ Store(p) \/ NoAnswer(p) \/ Lose(p) \/ LoseReleases(p)

Watch(j) == Poll(j) \/ Look(j) \/ WatchDecides(j)
Handle(q) == Look(q) \/ GetAnswers(q) \/ ContentSent(q) \/ Deleted(q)

Next ==
  \/ \E j \in Jobs :
       Make(j) \/ ClientLeaves(j) \/ EndReleases(j) \/ TimerFires(j) \/ Watch(j)
         \/ ClipFinished(j) \/ ClipDropped(j)
  \/ \E q \in Requests : Arrive(q) \/ Handle(q)
  \/ \E e \in Engines : EngineExits(e) \/ Unload(e)
  \/ Tick

Spec == Init /\ [][Next]_vars

\* The goroutines of a job and of a request go on, timers fire, a clip is
\* finished some time, and an engine that is asked again and again answers
\* some time.  Nothing is assumed of clients, exits and the scheduler.
Fairness ==
  /\ \A j \in Jobs : WF_vars(Watch(j)) /\ SF_vars(Answered(j))
  /\ \A q \in Requests : WF_vars(Handle(q))
  /\ \A j \in Jobs : WF_vars(EndReleases(j)) /\ WF_vars(TimerFires(j))
  /\ \A j \in Jobs : WF_vars(ClipFinished(j))
  /\ WF_vars(Tick)

FairSpec == Spec /\ Fairness

-----------------------------------------------------------------------------
(* Properties.                                                             *)

\* Every variable has its type, and a proc that looks at a job has one whose
\* create was done.
TypeOK ==
  /\ engine \in [Engines -> {"off", "up", "exited", "unloaded"}]
  /\ clip \in [Jobs -> {"none", "making", "dropped"} \cup Done]
  /\ maker \in [Jobs -> {"none", "loading", "granted", "refused", "asking",
                         "accepted", "over", "made"}]
  /\ runner \in [Jobs -> Engines \cup {NoEngine}]
  /\ \A j \in Jobs : maker[j] \in {"granted", "asking", "accepted", "made"} => runner[j] \in Engines
  /\ \A j \in Jobs : clip[j] # "none" => runner[j] \in Engines
  /\ clientGone \in SUBSET Jobs /\ armed \in SUBSET Jobs /\ released \in SUBSET Jobs
  /\ table \in SUBSET Jobs /\ lost \in SUBSET Jobs
  /\ ended \in SUBSET Jobs /\ gone \in SUBSET ended
  /\ last \in [Jobs -> {"none", "making"} \cup Done]
  /\ timer \in [Jobs -> 0 .. NoTimer]
  /\ pc \in [Procs -> {"idle", "tick", "check", "ask", "reply", "lose", "losing",
                       "after", "over"}]
  /\ kind \in [Procs -> {"none", "watch", "get", "content", "delete"}]
  /\ on \in [Procs -> Jobs \cup {NoJob}]
  /\ \A p \in Procs : pc[p] \notin {"idle", "over"} => on[p] \in Jobs /\ maker[on[p]] = "made"
  /\ reply \in [Procs -> {"none", "making", "dropped", "sent", "error", "refused"} \cup Done]
  /\ heldFor \in [Jobs -> 0 .. Never] /\ sinceFetch \in [Jobs -> 0 .. Never]

\* "the engine is never unloaded under a clip" (media_video.go:37): a job in
\* the table holds its reference, and so its engine, unless the engine exited
\* and the job says so.  A create that made no job (the handler has six ways
\* out) and a job that ended keep none: their engine can be unloaded.
EngineHeld ==
  /\ \A j \in table \ lost : j \notin released /\ engine[runner[j]] # "unloaded"
  /\ \A j \in Jobs : maker[j] = "over" \/ j \in gone => j \in released

\* A job leaves the table when its clip is finished, dropped or deleted, or
\* its engine gone: polls that fail or time out do not end it.
RunningClipKept ==
  \A j \in ended : clip[j] = "making" => HasExited(runner[j])

\* A clip that is done holds its engine for videoKeep at most, however often
\* it is polled, and for videoFetched once it was fetched (endAfter: the
\* earlier end wins).
HoldBounded ==
  \A j \in Jobs :
    /\ heldFor[j] # Never /\ j \notin ended => heldFor[j] + timer[j] <= Keep
    /\ sinceFetch[j] # Never /\ j \notin ended => sinceFetch[j] + timer[j] <= Fetched

\* "so its engine is let go when the clip is done even if the client went
\* away" (media_video.go:40-41): every job ends.
JobEnds == \A j \in Jobs : j \in table ~> j \notin table /\ j \in released

\* "lost bool // the engine exited under the job; last is its failed end"
\* (media_video.go:67): what a poll of a lost job answers.
LostIsFailed == \A j \in lost : last[j] = "failed"

=============================================================================
