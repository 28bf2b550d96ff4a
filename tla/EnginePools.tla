----------------------------- MODULE EnginePools -----------------------------
(* Shared prefix pools of one engine process, llm/engine_pool.go, and the     *)
(* requests that use and teach them: a request looks its pool up, waits to be *)
(* admitted (llm/engine_admission.go), and when it succeeded without a pool a *)
(* goroutine works towards one in the background.  The engine keeps a fixed   *)
(* number of seats, refuses a create past the last, and never sweeps a pool   *)
(* by itself, because these pools are pinned.                                 *)
(*                                                                            *)
(* A member of Requests is a client that makes one request after another; the *)
(* goroutine that captures a prefix after a request runs under its name.      *)
EXTENDS FiniteSets, Naturals

CONSTANTS
  Keys,       \* pool keys: prefixes conversations share
  Requests,   \* clients
  Ids,        \* pool ids of the engine
  NoKey,      \* a seat without a pool
  NoId,       \* a prefix without a pool
  MaxPools,   \* poolRegistry.max, and the engine's seats for these pools
  MaxPending, \* maxPendingPrefixes
  Budget      \* admissionRetryBudget, in units of the shortest wait

ASSUME PoolsAssumption ==
  /\ IsFiniteSet(Keys) /\ IsFiniteSet(Requests) /\ IsFiniteSet(Ids)
  /\ NoKey \notin Keys /\ NoId \notin Ids
  /\ MaxPools \in Nat \ {0} /\ MaxPending \in Nat \ {0} /\ Budget \in Nat

VARIABLES
  pooled,    \* poolRegistry.byKey
  older,     \* poolEntry.used: <<a, b>> when a was used before b
  creating,  \* poolRegistry.creating
  pending,   \* poolRegistry.pending
  sooner,    \* pendingPrefix.seen: <<a, b>> when a was seen before b
  live,      \* what the engine's pools hold
  phase,     \* whether the runner is up, closing or its engine stopped
  closing,   \* ids releasePools still has to release
  pc,        \* where a request or its capture is
  key,       \* its pool key
  learns,    \* whether it has something to teach (poolSource)
  waited,    \* how long it has waited to be admitted
  evicted,   \* ids a capture has to release
  made,      \* the id its create was answered with
  leaked     \* history: pools whose release failed or whose create was lost

registry == <<pooled, older, creating, pending, sooner>>
engineVars == <<live, phase, closing, leaked>>
requestVars == <<key, learns, waited>>
captureVars == <<evicted, made>>
vars == <<registry, engineVars, pc, requestVars, captureVars>>

\* A request before its answer, and a capture that has claimed.
Serving == {"lookup", "attach", "post", "wait", "run"}
Claiming == {"release", "create", "remember", "abandon"}

Pooled == {k \in Keys : pooled[k] # NoId}
Touched(order, S, k) ==
  {p \in order : p[1] # k /\ p[2] # k} \cup {<<a, k>> : a \in S \ {k}}
Dropped(order, k) == {p \in order : p[1] # k /\ p[2] # k}
Oldest(order, S) == {k \in S : \A a \in S : <<a, k>> \notin order}

Goto(r, l) == pc' = [pc EXCEPT ![r] = l]

-----------------------------------------------------------------------------
(* A request.                                                              *)

\* lookup, which marks the pool used.
Lookup(k) == older' = IF k \in Pooled THEN Touched(older, Pooled, k) ELSE older

\* Completion is called.
StartCompletion(r) ==
  /\ pc[r] = "idle" /\ phase = "up"
  /\ key' \in {[key EXCEPT ![r] = k] : k \in Keys}
  /\ learns' = [learns EXCEPT ![r] = TRUE]
  /\ Goto(r, "lookup")
  /\ UNCHANGED <<registry, engineVars, waited, captureVars>>

\* Chat looks the pool up for whether it has something to teach.
StartChat(r) ==
  /\ pc[r] = "idle" /\ phase = "up"
  /\ \E k \in Keys :
       /\ key' = [key EXCEPT ![r] = k]
       /\ learns' = [learns EXCEPT ![r] = k \notin Pooled]
       /\ Lookup(k)
  /\ Goto(r, "attach")
  /\ UNCHANGED <<pooled, creating, pending, sooner, engineVars, waited, captureVars>>

\* The lookup whose answer goes into the payload.
Attach(r) ==
  /\ pc[r] \in {"lookup", "attach"}
  /\ learns' = IF pc[r] = "lookup" THEN [learns EXCEPT ![r] = key[r] \notin Pooled] ELSE learns
  /\ Lookup(key[r])
  /\ Goto(r, "post")
  /\ UNCHANGED <<pooled, creating, pending, sooner, engineVars, key, waited, captureVars>>

\* The request is over and taught nothing; its own variables are forgotten.
Ends(r) ==
  /\ Goto(r, "idle")
  /\ learns' = [learns EXCEPT ![r] = FALSE]
  /\ waited' = [waited EXCEPT ![r] = 0]
  /\ UNCHANGED <<registry, engineVars, key, captureVars>>

\* The engine takes it; the time it waited is forgotten.
Admitted(r) ==
  /\ pc[r] = "post"
  /\ Goto(r, "run")
  /\ waited' = [waited EXCEPT ![r] = 0]
  /\ UNCHANGED <<registry, engineVars, key, learns, captureVars>>

\* Mutant of Refused: the deadline is computed anew for each attempt.
RefusedAfresh(r) ==
  /\ pc[r] = "post"
  /\ \E wait \in 1 .. 2 :
       /\ wait <= Budget
       /\ Goto(r, "wait")
  /\ UNCHANGED <<registry, engineVars, requestVars, captureVars>>

\* 429: the engine advises a wait, and the budget allows it.
Refused(r) ==
  /\ pc[r] = "post"
  /\ \E wait \in 1 .. 2 :
       /\ waited[r] + wait <= Budget
       /\ waited' = [waited EXCEPT ![r] = @ + wait]
  /\ Goto(r, "wait")
  /\ UNCHANGED <<registry, engineVars, key, learns, captureVars>>

\* The timer fires: the same payload is sent again.
Again(r) ==
  /\ pc[r] = "wait"
  /\ Goto(r, "post")
  /\ UNCHANGED <<registry, engineVars, requestVars, captureVars>>

\* errNoAdmission, ErrNeverFits, ErrOwnerFull, a refusal handed to a client
\* that negotiates, an error of the engine, or a client that left.
Fails(r) ==
  /\ pc[r] \in {"lookup", "attach", "post", "wait", "run"}
  /\ Ends(r)

\* A request that succeeded teaches its prefix, if it has one to teach.
Succeeds(r) ==
  /\ pc[r] = "run"
  /\ IF learns[r]
     THEN /\ Goto(r, "render")
                  /\ learns' = [learns EXCEPT ![r] = FALSE]
          /\ waited' = [waited EXCEPT ![r] = 0]
          /\ UNCHANGED <<registry, engineVars, key, captureVars>>
     ELSE Ends(r)

-----------------------------------------------------------------------------
(* capturePool, in the background.                                         *)

\* A step of the capture fails, or finds nothing worth a pool.
GivesUp(r) ==
  /\ pc[r] \in {"render", "boundary"}
  /\ Goto(r, "idle")
  /\ UNCHANGED <<registry, engineVars, requestVars, captureVars>>

\* render and tokenizePrompt.
Tokenized(r) ==
  /\ pc[r] = "render" /\ phase # "down"
  /\ Goto(r, "offer")
  /\ UNCHANGED <<registry, engineVars, requestVars, captureVars>>

\* offer: nothing to do, the first sighting, or the second, whose common
\* prefix with the first is long enough or not.
Offer(r) ==
  /\ pc[r] = "offer"
  /\ LET k == key[r] IN
       IF k \in Pooled \cup creating
       THEN Goto(r, "idle") /\ UNCHANGED <<pending, sooner>>
       ELSE IF k \in pending
       THEN /\ pending' = pending \ {k} /\ sooner' = Dropped(sooner, k)
            /\ Goto(r, "boundary") \/ Goto(r, "idle")
       ELSE /\ IF Cardinality(pending) < MaxPending
               THEN pending' = pending \cup {k} /\ sooner' = Touched(sooner, pending, k)
               ELSE \E first \in Oldest(sooner, pending) :
                      /\ pending' = (pending \ {first}) \cup {k}
                      /\ sooner' = Touched(Dropped(sooner, first), pending \ {first}, k)
            /\ Goto(r, "idle")
  /\ UNCHANGED <<pooled, older, creating, engineVars, requestVars, captureVars>>

\* Mutant of Seats: creations in flight do not count.
SeatsOfPools(k) == Cardinality(Pooled) + 1

\* Live pools and creations in flight hold the seats, this one included.
Seats(k) == Cardinality(Pooled) + Cardinality(creating \cup {k})

\* The least recently used pools that make room for a creation: as many as
\* are too many, or all of them.
Surplus(k) ==
  {S \in SUBSET Pooled :
     /\ \A a \in S, b \in Pooled \ S : <<b, a>> \notin older
     /\ \/ Seats(k) <= MaxPools /\ S = {}
        \/ Seats(k) - Cardinality(S) = MaxPools
        \/ Seats(k) - Cardinality(S) > MaxPools /\ S = Pooled}

Without(S) == [x \in Keys |-> IF x \in S THEN NoId ELSE pooled[x]]

\* Mutant of Claim: room is made before the prefix is looked up.
ClaimEvictsFirst(r) ==
  /\ pc[r] = "boundary"
  /\ \E S \in Surplus(key[r]) :
       /\ pooled' = Without(S)
       /\ older' = {p \in older : p[1] \notin S /\ p[2] \notin S}
       /\ IF key[r] \notin Pooled \cup creating /\ Seats(key[r]) - Cardinality(S) <= MaxPools
          THEN /\ creating' = creating \cup {key[r]}
               /\ evicted' = [evicted EXCEPT ![r] = {pooled[x] : x \in S}]
               /\ Goto(r, "release")
          ELSE Goto(r, "idle") /\ UNCHANGED <<creating, evicted>>
  /\ UNCHANGED <<pending, sooner, engineVars, requestVars, made>>

\* claim: one creation per prefix; a full registry gives up its least recently
\* used pools, and refuses when only creations in flight hold the seats.
Claim(r) ==
  /\ pc[r] = "boundary"
  /\ LET k == key[r] IN
       IF k \in Pooled \cup creating
       THEN Goto(r, "idle") /\ UNCHANGED <<pooled, older, creating, evicted>>
       ELSE \E S \in Surplus(k) :
              /\ pooled' = Without(S)
              /\ older' = {p \in older : p[1] \notin S /\ p[2] \notin S}
              /\ IF Seats(k) - Cardinality(S) <= MaxPools
                 THEN /\ creating' = creating \cup {k}
                      /\ evicted' = [evicted EXCEPT ![r] = {pooled[x] : x \in S}]
                      /\ Goto(r, "release")
                 ELSE Goto(r, "idle") /\ UNCHANGED <<creating, evicted>>
  /\ UNCHANGED <<pending, sooner, engineVars, requestVars, made>>

\* The engine releases a pool, or the call fails before or after it did.
ReleaseCall(id) ==
  \/ phase # "down" /\ live' = [live EXCEPT ![id] = NoKey] /\ UNCHANGED leaked
  \/ UNCHANGED live /\ leaked' = leaked \cup {id}

\* releasePool, one after another, before the create.
Release(r) ==
  /\ pc[r] = "release"
  /\ IF evicted[r] = {}
     THEN Goto(r, "create") /\ UNCHANGED <<live, leaked, evicted>>
     ELSE \E id \in evicted[r] :
            /\ ReleaseCall(id)
            /\ evicted' = [evicted EXCEPT ![r] = @ \ {id}]
            /\ UNCHANGED pc
  /\ UNCHANGED <<registry, phase, closing, requestVars, made>>

Free == {id \in Ids : live[id] = NoKey}
SeatsTaken == Cardinality(Ids \ Free)

\* createPoolFromTokens is answered with an id.
Created(r) ==
  /\ pc[r] = "create" /\ phase # "down" /\ SeatsTaken < MaxPools
  /\ \E id \in Free :
       /\ live' = [live EXCEPT ![id] = key[r]]
       /\ made' = [made EXCEPT ![r] = id]
       /\ leaked' = leaked \ {id}
  /\ Goto(r, "remember")
  /\ UNCHANGED <<registry, phase, closing, requestVars, evicted>>

\* It is refused or fails, or its answer is lost or unreadable.
CreateFails(r) ==
  /\ pc[r] = "create"
  /\ \/ UNCHANGED <<live, leaked>>
     \/ /\ phase # "down" /\ SeatsTaken < MaxPools
        /\ \E id \in Free :
             /\ live' = [live EXCEPT ![id] = key[r]]
             /\ leaked' = leaked \cup {id}
  /\ Goto(r, "abandon")
  /\ UNCHANGED <<registry, phase, closing, requestVars, captureVars>>

\* remember
Remember(r) ==
  /\ pc[r] = "remember"
  /\ creating' = creating \ {key[r]}
  /\ pooled' = [pooled EXCEPT ![key[r]] = made[r]]
  /\ older' = Touched(older, Pooled, key[r])
  /\ made' = [made EXCEPT ![r] = NoId]
  /\ Goto(r, "idle")
  /\ UNCHANGED <<pending, sooner, engineVars, requestVars, evicted>>

\* Mutant of Abandon: a create that failed keeps its claim.
AbandonNothing(r) ==
  /\ pc[r] = "abandon"
  /\ Goto(r, "idle")
  /\ UNCHANGED <<registry, engineVars, requestVars, captureVars>>

\* abandon
Abandon(r) ==
  /\ pc[r] = "abandon"
  /\ creating' = creating \ {key[r]}
  /\ Goto(r, "idle")
  /\ UNCHANGED <<pooled, older, pending, sooner, engineVars, requestVars, captureVars>>

-----------------------------------------------------------------------------
(* The runner is closed: the scheduler does so when no request uses it;      *)
(* captures may be under way.                                                *)

\* releasePools: drain.
Close ==
  /\ phase = "up" /\ \A r \in Requests : pc[r] \notin Serving
  /\ phase' = "closing"
  /\ closing' = {pooled[k] : k \in Pooled}
  /\ pooled' = [k \in Keys |-> NoId]
  /\ older' = {} /\ creating' = {} /\ pending' = {} /\ sooner' = {}
  /\ UNCHANGED <<live, leaked, pc, requestVars, captureVars>>

ClosingReleases ==
  /\ phase = "closing"
  /\ \E id \in closing : ReleaseCall(id) /\ closing' = closing \ {id}
  /\ UNCHANGED <<registry, phase, pc, requestVars, captureVars>>

\* stopProcess
Stop ==
  /\ phase = "closing" /\ closing = {}
  /\ phase' = "down"
  /\ live' = [id \in Ids |-> NoKey]
  /\ UNCHANGED <<registry, closing, leaked, pc, requestVars, captureVars>>

-----------------------------------------------------------------------------
Init ==
  /\ pooled = [k \in Keys |-> NoId] /\ older = {}
  /\ creating = {} /\ pending = {} /\ sooner = {}
  /\ live = [id \in Ids |-> NoKey]
  /\ phase = "up" /\ closing = {} /\ leaked = {}
  /\ pc = [r \in Requests |-> "idle"]
  /\ key \in [Requests -> Keys]
  /\ learns = [r \in Requests |-> FALSE]
  /\ waited = [r \in Requests |-> 0]
  /\ evicted = [r \in Requests |-> {}]
  /\ made = [r \in Requests |-> NoId]

Request(r) ==
  \/ Attach(r) \/ Admitted(r) \/ Refused(r) \/ Again(r) \/ Fails(r) \/ Succeeds(r)

Capture(r) ==
  \/ GivesUp(r) \/ Tokenized(r) \/ Offer(r) \/ Claim(r) \/ Release(r)
  \/ Created(r) \/ CreateFails(r) \/ Remember(r) \/ Abandon(r)

Next ==
  \/ \E r \in Requests : StartCompletion(r) \/ StartChat(r) \/ Request(r) \/ Capture(r)
  \/ Close \/ ClosingReleases \/ Stop

Spec == Init /\ [][Next]_vars

\* Goroutines go on, calls are answered or time out, timers fire, and a
\* request that runs comes to an end.  Clients need not start any.
Fairness == \A r \in Requests : WF_vars(Request(r) \/ Capture(r))

FairSpec == Spec /\ Fairness

-----------------------------------------------------------------------------
(* Properties.                                                             *)

TypeOK ==
  /\ pooled \in [Keys -> Ids \cup {NoId}]
  /\ older \in SUBSET (Keys \X Keys) /\ sooner \in SUBSET (Keys \X Keys)
  /\ creating \in SUBSET Keys /\ pending \in SUBSET Keys
  /\ live \in [Ids -> Keys \cup {NoKey}]
  /\ phase \in {"up", "closing", "down"}
  /\ closing \in SUBSET Ids /\ leaked \in SUBSET Ids
  /\ pc \in [Requests -> {"idle", "render", "offer", "boundary"} \cup Serving \cup Claiming]
  /\ key \in [Requests -> Keys]
  /\ learns \in [Requests -> BOOLEAN]
  /\ waited \in [Requests -> 0 .. Budget]
  /\ evicted \in [Requests -> SUBSET Ids]
  /\ made \in [Requests -> Ids \cup {NoId}]

\* "The seat has to be free before the create" (engine_pool.go:711): however
\* many captures are under way, a create finds a free seat, unless the engine
\* holds pools whose release failed or whose create was not heard of.
SeatFree ==
  phase = "up" =>
    \A r \in Requests : pc[r] = "create" =>
      Cardinality((Ids \ Free) \ leaked) < MaxPools

\* The registry and the engine agree.  The registry holds no id the engine
\* has forgotten, or has given to another prefix: an attach by it would
\* silently share nothing.  And as a pool is pinned, each is in the registry,
\* or some capture is about to release or remember it; else it is never given
\* back.
RegistryExact ==
  /\ phase # "down" => \A k \in Pooled : live[pooled[k]] = k
  /\ phase = "up" =>
       \A id \in (Ids \ Free) \ leaked :
         \/ \E k \in Keys : pooled[k] = id
         \/ \E r \in Requests : id \in evicted[r] \/ id = made[r]

\* One creation per prefix at a time, and a claim is always given back: else
\* the prefix is permanently un-poolable (abandon).
ClaimsHeld ==
  phase = "up" =>
    /\ creating = {key[r] : r \in {q \in Requests : pc[q] \in Claiming}}
    /\ \A q, r \in Requests :
         pc[q] \in Claiming /\ pc[r] \in Claiming /\ key[q] = key[r] => q = r

\* "a permanently saturated server fails visibly rather than hanging"
\* (engine_admission.go:36): a request ends, and so does what it taught.
RequestEnds == \A r \in Requests : pc[r] # "idle" ~> pc[r] = "idle"

=============================================================================
