--------------------------- MODULE EnginePoolsProofs ---------------------------
(* Machine-checked proofs about EnginePools, for any prefixes, clients, ids,  *)
(* seats and budget.                                                          *)
EXTENDS EnginePools, FiniteSetTheorems, TLAPS

USE DEF engineVars, registry, requestVars, captureVars

-----------------------------------------------------------------------------
(* Types.                                                                     *)

Places == {"idle", "render", "offer", "boundary"} \cup Serving \cup Claiming

LEMMA GoesType ==
  ASSUME pc \in [Requests -> Places], NEW r \in Requests, NEW l \in Places, Goto(r, l)
  PROVE  pc' \in [Requests -> Places]
BY DEF Goto

LEMMA TouchedType ==
  ASSUME NEW order \in SUBSET (Keys \X Keys), NEW S \in SUBSET Keys, NEW k \in Keys
  PROVE  /\ Touched(order, S, k) \in SUBSET (Keys \X Keys)
         /\ Dropped(order, k) \in SUBSET (Keys \X Keys)
BY DEF Touched, Dropped

LEMMA LookupType ==
  ASSUME TypeOK, NEW k \in Keys, Lookup(k)
  PROVE  older' \in SUBSET (Keys \X Keys)
<1>1. Pooled \in SUBSET Keys /\ older \in SUBSET (Keys \X Keys)
  BY DEF TypeOK, Pooled
<1>2. QED
  BY <1>1, TouchedType DEF Lookup

LEMMA EndsType ==
  ASSUME TypeOK, NEW r \in Requests, Ends(r)
  PROVE  TypeOK'
<1>1. pc' \in [Requests -> Places]
  BY GoesType DEF TypeOK, Ends, Places
<1>2. waited' \in [Requests -> 0 .. Budget]
  BY PoolsAssumption DEF TypeOK, Ends
<1>3. QED
  BY <1>1, <1>2 DEF TypeOK, Ends, Places

LEMMA RequestType ==
  ASSUME TypeOK, NEW r \in Requests, StartCompletion(r) \/ StartChat(r) \/ Request(r)
  PROVE  TypeOK'
<1>1. CASE StartCompletion(r)
  <2>1. pc' \in [Requests -> Places]
    BY <1>1, GoesType DEF TypeOK, StartCompletion, Places, Serving
  <2>2. QED
    BY <1>1, <2>1 DEF TypeOK, StartCompletion, Places
<1>2. CASE StartChat(r)
  <2>1. pc' \in [Requests -> Places]
    BY <1>2, GoesType DEF TypeOK, StartChat, Places, Serving
  <2>2. PICK k \in Keys :
          /\ key' = [key EXCEPT ![r] = k] /\ Lookup(k)
          /\ learns' = [learns EXCEPT ![r] = k \notin Pooled]
    BY <1>2 DEF StartChat
  <2>3. older' \in SUBSET (Keys \X Keys)
    BY <2>2, LookupType
  <2>4. key' \in [Requests -> Keys] /\ learns' \in [Requests -> BOOLEAN]
    BY <2>2 DEF TypeOK
  <2>5. QED
    BY <1>2, <2>1, <2>3, <2>4 DEF TypeOK, StartChat, Places
<1>3. CASE Attach(r)
  <2>1. pc' \in [Requests -> Places]
    BY <1>3, GoesType DEF TypeOK, Attach, Places, Serving
  <2>2. older' \in SUBSET (Keys \X Keys)
    BY <1>3, LookupType DEF Attach, TypeOK
  <2>3. learns' \in [Requests -> BOOLEAN]
    <3>1. CASE pc[r] = "lookup"
      BY <1>3, <3>1 DEF Attach, TypeOK
    <3>2. CASE pc[r] # "lookup"
      BY <1>3, <3>2 DEF Attach, TypeOK
    <3>3. QED
      BY <3>1, <3>2
  <2>4. QED
    BY <1>3, <2>1, <2>2, <2>3 DEF TypeOK, Attach, Places
<1>4. CASE Admitted(r)
  <2>1. pc' \in [Requests -> Places]
    BY <1>4, GoesType DEF TypeOK, Admitted, Places, Serving
  <2>2. waited' \in [Requests -> 0 .. Budget]
    BY <1>4, PoolsAssumption DEF TypeOK, Admitted
  <2>3. QED
    BY <1>4, <2>1, <2>2 DEF TypeOK, Admitted, Places
<1>5. CASE Refused(r)
  <2>1. pc' \in [Requests -> Places]
    BY <1>5, GoesType DEF TypeOK, Refused, Places, Serving
  <2>2. PICK wait \in 1 .. 2 : waited[r] + wait <= Budget /\ waited' = [waited EXCEPT ![r] = @ + wait]
    BY <1>5 DEF Refused
  <2>3. waited' \in [Requests -> 0 .. Budget]
    BY <2>2, PoolsAssumption DEF TypeOK
  <2>4. QED
    BY <1>5, <2>1, <2>3 DEF TypeOK, Refused, Places
<1>6. CASE Again(r)
  <2>1. pc' \in [Requests -> Places]
    BY <1>6, GoesType DEF TypeOK, Again, Places, Serving
  <2>2. QED
    BY <1>6, <2>1 DEF TypeOK, Again, Places
<1>7. CASE Fails(r)
  BY <1>7, EndsType DEF Fails
<1>8. CASE Succeeds(r)
  <2>1. CASE learns[r]
    <3>1. pc' \in [Requests -> Places]
      BY <1>8, <2>1, GoesType DEF TypeOK, Succeeds, Places
    <3>2. waited' \in [Requests -> 0 .. Budget]
      BY <1>8, <2>1, PoolsAssumption DEF TypeOK, Succeeds
    <3>3. QED
      BY <1>8, <2>1, <3>1, <3>2 DEF TypeOK, Succeeds, Places
  <2>2. CASE ~learns[r]
    BY <1>8, <2>2, EndsType DEF Succeeds
  <2>3. QED
    BY <2>1, <2>2
<1>9. QED
  BY <1>1, <1>2, <1>3, <1>4, <1>5, <1>6, <1>7, <1>8 DEF Request

LEMMA OfferType ==
  ASSUME TypeOK, NEW r \in Requests, Offer(r)
  PROVE  TypeOK'
<1>1. key[r] \in Keys /\ pending \in SUBSET Keys /\ sooner \in SUBSET (Keys \X Keys)
  BY DEF TypeOK
<1>2. pending' \in SUBSET Keys /\ sooner' \in SUBSET (Keys \X Keys)
  <2>1. CASE UNCHANGED <<pending, sooner>>
    BY <1>1, <2>1
  <2>2. CASE pending' = pending \ {key[r]} /\ sooner' = Dropped(sooner, key[r])
    BY <1>1, <2>2, TouchedType
  <2>3. CASE pending' = pending \cup {key[r]} /\ sooner' = Touched(sooner, pending, key[r])
    BY <1>1, <2>3, TouchedType
  <2>4. ASSUME NEW first \in Oldest(sooner, pending), pending' = (pending \ {first}) \cup {key[r]},
               sooner' = Touched(Dropped(sooner, first), pending \ {first}, key[r])
        PROVE  pending' \in SUBSET Keys /\ sooner' \in SUBSET (Keys \X Keys)
    <3>1. first \in Keys
      BY <1>1, <2>4 DEF Oldest
    <3>2. Dropped(sooner, first) \in SUBSET (Keys \X Keys) /\ pending \ {first} \in SUBSET Keys
      BY <1>1, <3>1, TouchedType
    <3>3. QED
      BY <1>1, <2>4, <3>2, TouchedType
  <2>5. QED
    BY <2>1, <2>2, <2>3, <2>4 DEF Offer
<1>3. Goto(r, "idle") \/ Goto(r, "boundary")
  BY DEF Offer
<1>4. pc' \in [Requests -> Places]
  BY <1>3, GoesType DEF TypeOK, Places
<1>5. QED
  BY <1>2, <1>4 DEF TypeOK, Offer, Places

LEMMA CaptureType ==
  ASSUME TypeOK, NEW r \in Requests, Capture(r)
  PROVE  TypeOK'
<1>1. CASE GivesUp(r) \/ Tokenized(r)
  <2>1. pc' \in [Requests -> Places]
    BY <1>1, GoesType DEF TypeOK, GivesUp, Tokenized, Places
  <2>2. QED
    BY <1>1, <2>1 DEF TypeOK, GivesUp, Tokenized, Places
<1>2. CASE Offer(r)
  BY <1>2, OfferType
<1>3. CASE Claim(r)
  <2>1. Goto(r, "idle") \/ Goto(r, "release")
    BY <1>3 DEF Claim
  <2>2. pc' \in [Requests -> Places]
    BY <2>1, GoesType DEF TypeOK, Places, Claiming
  <2>3. CASE key[r] \in Pooled \cup creating
    BY <1>3, <2>2, <2>3 DEF TypeOK, Claim, Places
  <2>4. ASSUME NEW S \in Surplus(key[r]), pooled' = Without(S),
               older' = {p \in older : p[1] \notin S /\ p[2] \notin S},
               \/ /\ creating' = creating \cup {key[r]}
                  /\ evicted' = [evicted EXCEPT ![r] = {pooled[x] : x \in S}]
               \/ UNCHANGED <<creating, evicted>>
        PROVE  TypeOK'
    <3>1. S \in SUBSET Pooled
      BY <2>4 DEF Surplus
    <3>2. pooled' \in [Keys -> Ids \cup {NoId}] /\ older' \in SUBSET (Keys \X Keys)
      BY <2>4 DEF TypeOK, Without
    <3>3. {pooled[x] : x \in S} \in SUBSET Ids
      BY <3>1 DEF TypeOK, Pooled
    <3>4. creating' \in SUBSET Keys /\ evicted' \in [Requests -> SUBSET Ids]
      BY <2>4, <3>3 DEF TypeOK
    <3>5. QED
      BY <1>3, <2>2, <3>2, <3>4 DEF TypeOK, Claim, Places
  <2>5. QED
    BY <1>3, <2>3, <2>4 DEF Claim
<1>4. CASE Release(r)
  <2>1. CASE evicted[r] = {}
    <3>1. pc' \in [Requests -> Places]
      BY <1>4, <2>1, GoesType DEF TypeOK, Release, Places, Claiming
    <3>2. QED
      BY <1>4, <2>1, <3>1 DEF TypeOK, Release, Places
  <2>2. CASE evicted[r] # {}
    <3>1. PICK id \in evicted[r] : ReleaseCall(id) /\ evicted' = [evicted EXCEPT ![r] = @ \ {id}] /\ pc' = pc
      BY <1>4, <2>2 DEF Release
    <3>2. id \in Ids /\ live' \in [Ids -> Keys \cup {NoKey}] /\ leaked' \in SUBSET Ids
      BY <3>1 DEF TypeOK, ReleaseCall
    <3>3. QED
      BY <1>4, <3>1, <3>2 DEF TypeOK, Release
  <2>3. QED
    BY <2>1, <2>2
<1>5. CASE Created(r)
  <2>1. PICK id \in Free : /\ live' = [live EXCEPT ![id] = key[r]] /\ made' = [made EXCEPT ![r] = id]
                           /\ leaked' = leaked \ {id}
    BY <1>5 DEF Created
  <2>2. pc' \in [Requests -> Places]
    BY <1>5, GoesType DEF TypeOK, Created, Places, Claiming
  <2>3. QED
    BY <1>5, <2>1, <2>2 DEF TypeOK, Created, Places, Free
<1>6. CASE CreateFails(r)
  <2>1. pc' \in [Requests -> Places]
    BY <1>6, GoesType DEF TypeOK, CreateFails, Places, Claiming
  <2>2. live' \in [Ids -> Keys \cup {NoKey}] /\ leaked' \in SUBSET Ids
    BY <1>6 DEF TypeOK, CreateFails, Free
  <2>3. QED
    BY <1>6, <2>1, <2>2 DEF TypeOK, CreateFails, Places
<1>7. CASE Remember(r)
  <2>1. pc' \in [Requests -> Places]
    BY <1>7, GoesType DEF TypeOK, Remember, Places
  <2>2. Pooled \in SUBSET Keys /\ key[r] \in Keys
    BY DEF TypeOK, Pooled
  <2>3. older' \in SUBSET (Keys \X Keys)
    BY <1>7, <2>2, TouchedType DEF TypeOK, Remember
  <2>4. QED
    BY <1>7, <2>1, <2>3 DEF TypeOK, Remember, Places
<1>8. CASE Abandon(r)
  <2>1. pc' \in [Requests -> Places]
    BY <1>8, GoesType DEF TypeOK, Abandon, Places
  <2>2. QED
    BY <1>8, <2>1 DEF TypeOK, Abandon, Places
<1>9. QED
  BY <1>1, <1>2, <1>3, <1>4, <1>5, <1>6, <1>7, <1>8 DEF Capture

LEMMA TypesNext == TypeOK /\ [Next]_vars => TypeOK'
<1> SUFFICES ASSUME TypeOK, [Next]_vars PROVE TypeOK'
  OBVIOUS
<1>1. CASE Close
  BY <1>1 DEF TypeOK, Close, Pooled
<1>2. CASE ClosingReleases
  <2>1. PICK id \in closing : ReleaseCall(id) /\ closing' = closing \ {id}
    BY <1>2 DEF ClosingReleases
  <2>2. live' \in [Ids -> Keys \cup {NoKey}] /\ leaked' \in SUBSET Ids
    BY <2>1 DEF TypeOK, ReleaseCall
  <2>3. QED
    BY <1>2, <2>1, <2>2 DEF TypeOK, ClosingReleases
<1>3. CASE Stop
  BY <1>3 DEF TypeOK, Stop
<1>4. CASE UNCHANGED vars
  BY <1>4 DEF TypeOK, vars
<1>5. QED
  BY <1>1, <1>2, <1>3, <1>4, RequestType, CaptureType DEF Next

\* Every variable has its type; in particular a request waits no longer than
\* the budget of its admission.
THEOREM TypeCorrect == Spec => []TypeOK
<1>1. Init => TypeOK
  BY PoolsAssumption DEF Init, TypeOK
<1>2. QED
  BY <1>1, TypesNext, PTL DEF Spec

-----------------------------------------------------------------------------
(* The invariant.                                                             *)

\* Who claims what: a claimed prefix has one claimer and no pool, a claimer
\* its claim; claims and pools have seats; a claim evicts one pool at most.
Claimed ==
  phase = "up" =>
    /\ \A k \in creating :
         pooled[k] = NoId /\ \E r \in Requests : pc[r] \in Claiming /\ key[r] = k
    /\ \A r \in Requests : pc[r] \in Claiming => key[r] \in creating
    /\ \A q, r \in Requests :
         pc[q] \in Claiming /\ pc[r] \in Claiming /\ key[q] = key[r] => q = r
    /\ Cardinality(Pooled) + Cardinality(creating) <= MaxPools
    /\ \A r \in Requests : \A a, b \in evicted[r] : a = b

\* Every id has one owner at most: the registry, a capture that has to release
\* it, one that was answered with it, or the closing runner.
Owned ==
  phase # "down" =>
    /\ \A k \in Keys : pooled[k] # NoId => live[pooled[k]] = k
    /\ \A r \in Requests :
         /\ made[r] # NoId <=> pc[r] = "remember"
         /\ made[r] # NoId => live[made[r]] = key[r] /\ made[r] \notin closing
         /\ evicted[r] # {} => pc[r] = "release"
         /\ \A id \in evicted[r] : live[id] # NoKey /\ id \notin closing
         /\ \A k \in Keys : pooled[k] # NoId => pooled[k] # made[r] /\ pooled[k] \notin evicted[r]
    /\ \A id \in closing : live[id] # NoKey /\ \A k \in Keys : pooled[k] # id
    /\ \A q, r \in Requests :
         /\ made[q] # NoId => made[q] \notin evicted[r]
         /\ q # r => evicted[q] \cap evicted[r] = {} /\ (made[q] # NoId => made[q] # made[r])

\* Every pool has one, unless it is leaked.
Kept ==
  phase = "up" =>
    /\ closing = {}
    /\ \A id \in Ids : live[id] # NoKey /\ id \notin leaked =>
         \/ \E k \in Keys : pooled[k] = id
         \/ \E r \in Requests : id \in evicted[r] \/ id = made[r]

Inv == Claimed /\ Owned /\ Kept

-----------------------------------------------------------------------------
(* Requests, and captures before they claim.                                  *)

LEMMA QuietStep ==
  ASSUME TypeOK, Inv, NEW r \in Requests, UNCHANGED <<pooled, creating, engineVars, captureVars>>,
         pc[r] \notin Claiming, NEW l, l \notin Claiming, Goto(r, l),
         \A q \in Requests : q # r => key'[q] = key[q]
  PROVE  Inv'
<1>1. /\ pc'[r] \notin Claiming /\ pc'[r] # "remember" /\ pc'[r] # "release"
      /\ pc[r] # "remember" /\ pc[r] # "release"
      /\ \A q \in Requests : q # r => pc'[q] = pc[q] /\ key'[q] = key[q]
  BY DEF Goto, TypeOK, Claiming
<1>2. Pooled' = Pooled
  BY DEF Pooled
<1>3. Claimed'
  <2>1. \A q \in Requests : pc'[q] \in Claiming <=> pc[q] \in Claiming
    BY <1>1
  <2>2. \A q \in Requests : pc[q] \in Claiming => key'[q] = key[q]
    BY <1>1
  <2>3. QED
    BY <1>2, <2>1, <2>2 DEF Inv, Claimed
<1>4. Owned'
  <2>1. \A q \in Requests : /\ pc'[q] = "remember" <=> pc[q] = "remember"
                            /\ pc'[q] = "release" <=> pc[q] = "release"
    BY <1>1
  <2>2. \A q \in Requests : pc[q] = "remember" => key'[q] = key[q]
    BY <1>1
  <2>3. QED
    BY <2>1, <2>2 DEF Inv, Owned
<1>5. Kept'
  BY DEF Inv, Kept
<1>6. QED
  BY <1>3, <1>4, <1>5 DEF Inv

LEMMA RequestKeeps ==
  ASSUME TypeOK, Inv, NEW r \in Requests, StartCompletion(r) \/ StartChat(r) \/ Request(r)
  PROVE  Inv'
<1>1. CASE StartCompletion(r)
  <2>1. \A q \in Requests : q # r => key'[q] = key[q]
    BY <1>1 DEF StartCompletion, TypeOK
  <2>2. QED
    BY <1>1, <2>1, QuietStep DEF StartCompletion, Claiming
<1>2. CASE StartChat(r)
  <2>1. \A q \in Requests : q # r => key'[q] = key[q]
    BY <1>2 DEF StartChat, TypeOK
  <2>2. QED
    BY <1>2, <2>1, QuietStep DEF StartChat, Claiming
<1>3. CASE Attach(r)
  BY <1>3, QuietStep DEF Attach, Claiming
<1>4. CASE Admitted(r)
  BY <1>4, QuietStep DEF Admitted, Claiming
<1>5. CASE Refused(r)
  BY <1>5, QuietStep DEF Refused, Claiming
<1>6. CASE Again(r)
  BY <1>6, QuietStep DEF Again, Claiming
<1>7. CASE Fails(r)
  BY <1>7, QuietStep DEF Fails, Ends, Claiming
<1>8. CASE Succeeds(r)
  <2>1. CASE learns[r]
    BY <1>8, <2>1, QuietStep DEF Succeeds, Claiming
  <2>2. CASE ~learns[r]
    BY <1>8, <2>2, QuietStep DEF Succeeds, Ends, Claiming
  <2>3. QED
    BY <2>1, <2>2
<1>9. QED
  BY <1>1, <1>2, <1>3, <1>4, <1>5, <1>6, <1>7, <1>8 DEF Request

LEMMA BeforeClaimKeeps ==
  ASSUME TypeOK, Inv, NEW r \in Requests, GivesUp(r) \/ Tokenized(r) \/ Offer(r)
  PROVE  Inv'
<1>1. CASE GivesUp(r)
  BY <1>1, QuietStep DEF GivesUp, Claiming
<1>2. CASE Tokenized(r)
  BY <1>2, QuietStep DEF Tokenized, Claiming
<1>3. CASE Offer(r)
  <2>1. Goto(r, "idle") \/ Goto(r, "boundary")
    BY <1>3 DEF Offer
  <2>2. UNCHANGED <<pooled, creating, engineVars, captureVars, key>> /\ pc[r] \notin Claiming
    BY <1>3 DEF Offer, Claiming
  <2>3. QED
    BY <2>1, <2>2, QuietStep DEF Claiming
<1>4. QED
  BY <1>1, <1>2, <1>3

-----------------------------------------------------------------------------
(* A claim.                                                                   *)

LEMMA Sizes ==
  ASSUME TypeOK
  PROVE  /\ IsFiniteSet(Pooled) /\ Cardinality(Pooled) \in Nat
         /\ IsFiniteSet(creating) /\ Cardinality(creating) \in Nat
<1>1. Pooled \in SUBSET Keys /\ creating \in SUBSET Keys
  BY DEF TypeOK, Pooled
<1>2. QED
  BY <1>1, PoolsAssumption, FS_Subset, FS_CardinalityType

\* Room was made for one prefix, from one pool at most: nothing is evicted for
\* a claim that is then refused.
LEMMA Room ==
  ASSUME TypeOK, Inv, phase = "up", NEW k \in Keys, k \notin creating, NEW S \in Surplus(k)
  PROVE  /\ IsFiniteSet(S) /\ Cardinality(S) \in Nat /\ Seats(k) \in Nat
         /\ Seats(k) = Cardinality(Pooled) + Cardinality(creating) + 1
         /\ \A a, b \in S : a = b
         /\ Seats(k) - Cardinality(S) > MaxPools => S = {} /\ Pooled = {}
<1>1. S \in SUBSET Pooled
  BY DEF Surplus
<1>2. IsFiniteSet(S) /\ Cardinality(S) \in Nat /\ Cardinality(S) <= Cardinality(Pooled)
  BY <1>1, Sizes, FS_Subset, FS_CardinalityType
<1>3. Cardinality(creating \cup {k}) = Cardinality(creating) + 1
  BY Sizes, FS_AddElement
<1>4. Seats(k) = Cardinality(Pooled) + Cardinality(creating) + 1
  BY <1>3, Sizes DEF Seats
<1>5. Cardinality(Pooled) + Cardinality(creating) <= MaxPools
  BY DEF Inv, Claimed
<1>6. \A a, b \in S : a = b
  <2>1. CASE S = {}
    BY <2>1
  <2>2. CASE Seats(k) - Cardinality(S) = MaxPools
    <3>1. Cardinality(S) <= 1
      BY <1>2, <1>4, <1>5, <2>2, Sizes, PoolsAssumption
    <3>2. S = {} \/ \E x : S = {x}
      BY <1>2, <3>1, FS_EmptySet, FS_Singleton
    <3>3. QED
      BY <3>2
  <2>3. CASE Seats(k) - Cardinality(S) > MaxPools /\ S = Pooled
    <3>1. Cardinality(creating) + 1 > MaxPools
      BY <1>4, <2>3, Sizes, PoolsAssumption
    <3>2. Cardinality(Pooled) = 0
      BY <1>5, <3>1, Sizes, PoolsAssumption
    <3>3. QED
      BY <2>3, <3>2, Sizes, FS_EmptySet
  <2>4. QED
    BY <2>1, <2>2, <2>3 DEF Surplus
<1>7. ASSUME Seats(k) - Cardinality(S) > MaxPools
      PROVE  S = {} /\ Pooled = {}
  <2>1. Cardinality(S) = 0 <=> S = {}
    BY <1>2, FS_EmptySet
  <2>2. S = Pooled
    BY <1>2, <1>4, <1>7, <2>1, Sizes, PoolsAssumption DEF Surplus
  <2>3. Cardinality(Pooled) = 0
    BY <1>4, <1>5, <1>7, <2>2, Sizes, PoolsAssumption
  <2>4. QED
    BY <2>2, <2>3, Sizes, FS_EmptySet
<1>8. QED
  BY <1>2, <1>4, <1>6, <1>7, Sizes


\* What a claim that is granted does.
LEMMA ClaimGranted ==
  ASSUME TypeOK, Inv, NEW r \in Requests, pc[r] = "boundary", key[r] \notin Pooled \cup creating,
         NEW S \in Surplus(key[r]), pooled' = Without(S), Seats(key[r]) - Cardinality(S) <= MaxPools,
         creating' = creating \cup {key[r]}, evicted' = [evicted EXCEPT ![r] = {pooled[x] : x \in S}],
         Goto(r, "release"), UNCHANGED <<engineVars, key, made>>
  PROVE  Inv'
<1>1. /\ key[r] \in Keys /\ key[r] \notin creating /\ pooled[key[r]] = NoId
      /\ S \in SUBSET Pooled /\ S \in SUBSET Keys
  BY DEF TypeOK, Pooled, Surplus
<1>2. /\ pc'[r] = "release" /\ \A q \in Requests : q # r => pc'[q] = pc[q] /\ evicted'[q] = evicted[q]
      /\ evicted'[r] = {pooled[x] : x \in S}
  BY DEF Goto, TypeOK
<1>3. \A k \in Keys : pooled'[k] = IF k \in S THEN NoId ELSE pooled[k]
  BY DEF Without
<1>4. Claimed'
  <2> SUFFICES ASSUME phase = "up" PROVE Claimed'
    BY DEF Claimed
  <2>1. \A q \in Requests : pc[q] \in Claiming => key[q] # key[r]
    BY <1>1 DEF Inv, Claimed
  <2>2. \A q \in Requests : pc'[q] \in Claiming <=> q = r \/ pc[q] \in Claiming
    BY <1>2 DEF Claiming
  <2>3. \A k \in creating' : pooled'[k] = NoId /\ \E q \in Requests : pc'[q] \in Claiming /\ key'[q] = k
    <3>1. \A k \in creating : pooled'[k] = NoId
      BY <1>3 DEF Inv, Claimed, TypeOK
    <3>2. pooled'[key[r]] = NoId
      BY <1>1, <1>3
    <3>3. QED
      BY <2>2, <3>1, <3>2 DEF Inv, Claimed
  <2>4. Cardinality(Pooled') + Cardinality(creating') <= MaxPools
    <3>1. Pooled' = Pooled \ S
      BY <1>1, <1>3 DEF Pooled
    <3>2. Cardinality(Pooled \ S) = Cardinality(Pooled) - Cardinality(S)
      <4>1. Pooled \cap S = S
        BY <1>1
      <4>2. QED
        BY <4>1, Sizes, FS_Difference
    <3>3. Cardinality(creating') = Cardinality(creating) + 1
      BY <1>1, Sizes, FS_AddElement
    <3>4. /\ Seats(key[r]) = Cardinality(Pooled) + Cardinality(creating) + 1
          /\ Cardinality(S) \in Nat
      BY <1>1, Room
    <3>5. QED
      BY <3>1, <3>2, <3>3, <3>4, Sizes, PoolsAssumption
  <2>5. \A q \in Requests : \A a, b \in evicted'[q] : a = b
    <3>1. \A x, y \in S : x = y
      BY <1>1, Room
    <3>2. \A a, b \in evicted'[r] : a = b
      BY <1>2, <3>1
    <3>3. QED
      BY <1>2, <3>2 DEF Inv, Claimed
  <2>6. QED
    BY <2>1, <2>2, <2>3, <2>4, <2>5 DEF Inv, Claimed
<1>5. Owned'
  <2> SUFFICES ASSUME phase # "down" PROVE Owned'
    BY DEF Owned
  <2>1. Owned
    BY DEF Inv
  <2>2. \A id \in evicted'[r] : \E k \in S : k \in Keys /\ pooled[k] = id /\ pooled[k] # NoId
    BY <1>1, <1>2 DEF Pooled
  <2>3. \A id \in evicted'[r] : /\ live[id] # NoKey /\ id \notin closing
                                /\ \A q \in Requests : id \notin evicted[q] /\ id # made[q]
                                /\ \A k \in Keys : pooled'[k] # id
    BY <1>3, <2>1, <2>2, PoolsAssumption DEF Owned
  <2>4. \A k \in Keys : pooled'[k] # NoId => pooled'[k] = pooled[k]
    BY <1>3
  <2>5. /\ \A k \in Keys : pooled'[k] # NoId => live[pooled'[k]] = k
        /\ \A id \in closing : live[id] # NoKey /\ \A k \in Keys : pooled'[k] # id
    <3>1. \A id \in closing : id # NoId
      BY PoolsAssumption DEF TypeOK
    <3>2. QED
      BY <2>1, <2>4, <3>1 DEF Owned
  <2>6. \A q \in Requests :
         /\ made[q] # NoId <=> pc'[q] = "remember"
         /\ made[q] # NoId => live[made[q]] = key[q] /\ made[q] \notin closing
         /\ evicted'[q] # {} => pc'[q] = "release"
         /\ \A id \in evicted'[q] : live[id] # NoKey /\ id \notin closing
         /\ \A k \in Keys : pooled'[k] # NoId => pooled'[k] # made[q] /\ pooled'[k] \notin evicted'[q]
    BY <1>2, <2>1, <2>3, <2>4 DEF Owned
  <2>7. \A p, q \in Requests :
         /\ made[p] # NoId => made[p] \notin evicted'[q]
         /\ p # q => evicted'[p] \cap evicted'[q] = {} /\ (made[p] # NoId => made[p] # made[q])
    BY <1>2, <2>1, <2>3 DEF Owned
  <2>8. QED
    BY <2>5, <2>6, <2>7 DEF Owned
<1>6. Kept'
  <2> SUFFICES ASSUME phase = "up", NEW id \in Ids, live[id] # NoKey, id \notin leaked
               PROVE  \/ \E k \in Keys : pooled'[k] = id
                      \/ \E q \in Requests : id \in evicted'[q] \/ id = made[q]
    BY DEF Inv, Kept
  <2>1. CASE \E k \in Keys : pooled[k] = id
    BY <1>2, <1>3, <2>1
  <2>2. CASE \E q \in Requests : id = made[q]
    BY <2>2
  <2>3. CASE \E q \in Requests : id \in evicted[q]
    <3>1. evicted[r] = {}
      BY DEF Inv, Owned
    <3>2. QED
      BY <1>2, <2>3, <3>1
  <2>4. QED
    BY <2>1, <2>2, <2>3 DEF Inv, Kept
<1>7. QED
  BY <1>4, <1>5, <1>6 DEF Inv

LEMMA ClaimKeeps ==
  ASSUME TypeOK, Inv, NEW r \in Requests, Claim(r)
  PROVE  Inv'
<1>0. pc[r] = "boundary" /\ key[r] \in Keys /\ UNCHANGED <<engineVars, key, made>>
  BY DEF Claim, TypeOK
<1>1. CASE key[r] \in Pooled \cup creating
  <2>1. UNCHANGED <<pooled, creating, evicted>> /\ Goto(r, "idle")
    BY <1>1 DEF Claim
  <2>2. QED
    BY <1>0, <2>1, QuietStep DEF Claiming
<1>2. ASSUME key[r] \notin Pooled \cup creating,
             NEW S \in Surplus(key[r]), pooled' = Without(S), Seats(key[r]) - Cardinality(S) <= MaxPools,
             creating' = creating \cup {key[r]},
             evicted' = [evicted EXCEPT ![r] = {pooled[x] : x \in S}], Goto(r, "release")
      PROVE  Inv'
  BY <1>0, <1>2, ClaimGranted
<1>3. ASSUME key[r] \notin Pooled \cup creating,
             NEW S \in Surplus(key[r]), pooled' = Without(S), ~(Seats(key[r]) - Cardinality(S) <= MaxPools),
             UNCHANGED <<creating, evicted>>, Goto(r, "idle")
      PROVE  Inv'
  <2>1. CASE phase = "up"
    <3>1. Seats(key[r]) \in Nat /\ Cardinality(S) \in Nat
      BY <1>0, <1>3, <2>1, Room
    <3>2. S = {}
      BY <1>0, <1>3, <2>1, <3>1, Room, PoolsAssumption
    <3>3. pooled' = pooled
      BY <1>3, <3>2 DEF Without, TypeOK
    <3>4. QED
      BY <1>0, <1>3, <3>3, QuietStep DEF Claiming
  <2>2. CASE phase # "up"
    <3>1. \A k \in Keys : pooled'[k] = IF k \in S THEN NoId ELSE pooled[k]
      BY <1>3 DEF Without
    <3>2. pc'[r] = "idle" /\ \A q \in Requests : q # r => pc'[q] = pc[q]
      BY <1>3 DEF Goto, TypeOK
    <3>3. \A q \in Requests : /\ pc'[q] = "remember" <=> pc[q] = "remember"
                              /\ pc'[q] = "release" <=> pc[q] = "release"
      BY <1>0, <3>2
    <3>4. \A k \in Keys : pooled'[k] # NoId => pooled'[k] = pooled[k]
      BY <3>1
    <3>5. \A id \in closing : id # NoId
      BY PoolsAssumption DEF TypeOK
    <3>6. Owned'
      BY <1>0, <1>3, <3>3, <3>4, <3>5 DEF Inv, Owned
    <3>7. Claimed' /\ Kept'
      BY <1>0, <2>2 DEF Claimed, Kept
    <3>8. QED
      BY <3>6, <3>7 DEF Inv
  <2>3. QED
    BY <2>1, <2>2
<1>4. QED
  BY <1>0, <1>1, <1>2, <1>3 DEF Claim


-----------------------------------------------------------------------------
(* Releases, creations, and the end of a claim.                               *)

LEMMA ReleaseKeeps ==
  ASSUME TypeOK, Inv, NEW r \in Requests, Release(r)
  PROVE  Inv'
<1>0. UNCHANGED <<pooled, creating, phase, closing, key, made>> /\ pc[r] = "release" /\ Pooled' = Pooled
  BY DEF Release, Pooled
<1>1. CASE evicted[r] = {}
  <2>1. UNCHANGED <<live, leaked, evicted>> /\ Goto(r, "create")
    BY <1>1 DEF Release
  <2>2. pc'[r] = "create" /\ \A q \in Requests : q # r => pc'[q] = pc[q]
    BY <2>1 DEF Goto, TypeOK
  <2>3. \A q \in Requests : pc'[q] \in Claiming <=> pc[q] \in Claiming
    BY <1>0, <2>2 DEF Claiming
  <2>4. Claimed'
    BY <1>0, <2>1, <2>3 DEF Inv, Claimed
  <2>5. Owned'
    BY <1>0, <1>1, <2>1, <2>2 DEF Inv, Owned
  <2>6. Kept'
    BY <1>0, <2>1 DEF Inv, Kept
  <2>7. QED
    BY <2>4, <2>5, <2>6 DEF Inv
<1>2. CASE evicted[r] # {}
  <2>1. PICK id \in evicted[r] : ReleaseCall(id) /\ evicted' = [evicted EXCEPT ![r] = @ \ {id}] /\ pc' = pc
    BY <1>2 DEF Release
  <2>2. /\ \A q \in Requests : q # r => evicted'[q] = evicted[q]
        /\ evicted'[r] = evicted[r] \ {id} /\ id \in Ids
    BY <2>1 DEF TypeOK
  <2>3. Claimed'
    BY <1>0, <2>1, <2>2 DEF Inv, Claimed
  <2>4. \A x \in Ids : x # id => live'[x] = live[x]
    BY <2>1 DEF ReleaseCall, TypeOK
  <2>5. Owned'
    <3> SUFFICES ASSUME phase # "down" PROVE Owned'
      BY <1>0 DEF Owned
    <3>1. Owned
      BY DEF Inv
    <3>2. /\ id \notin closing /\ \A k \in Keys : pooled[k] # id
          /\ \A q \in Requests : made[q] # id /\ (q # r => id \notin evicted[q])
      BY <2>2, <3>1, PoolsAssumption DEF Owned
    <3>3. /\ \A k \in Keys : pooled[k] # NoId => pooled[k] \in Ids /\ live'[pooled[k]] = k
          /\ \A x \in closing : live'[x] # NoKey
          /\ \A q \in Requests : made[q] # NoId => live'[made[q]] = key[q]
          /\ \A q \in Requests : \A x \in evicted'[q] : live'[x] # NoKey
      BY <2>2, <2>4, <3>1, <3>2 DEF Owned, TypeOK
    <3>4. \A q \in Requests : evicted'[q] \subseteq evicted[q]
      BY <2>2
    <3>5. QED
      BY <1>0, <2>1, <3>1, <3>3, <3>4 DEF Owned
  <2>6. Kept'
    <3> SUFFICES ASSUME phase = "up", NEW x \in Ids, live'[x] # NoKey, x \notin leaked'
                 PROVE  \/ \E k \in Keys : pooled[k] = x
                        \/ \E q \in Requests : x \in evicted'[q] \/ x = made[q]
      BY <1>0 DEF Inv, Kept
    <3>1. x # id /\ live[x] # NoKey /\ x \notin leaked
      BY <2>1, <2>2, <2>4 DEF ReleaseCall, TypeOK
    <3>2. QED
      BY <2>2, <3>1 DEF Inv, Kept
  <2>7. QED
    BY <2>3, <2>5, <2>6 DEF Inv
<1>3. QED
  BY <1>1, <1>2

LEMMA CreatedKeeps ==
  ASSUME TypeOK, Inv, NEW r \in Requests, Created(r)
  PROVE  Inv'
<1>0. /\ UNCHANGED <<pooled, creating, phase, closing, key, evicted>> /\ pc[r] = "create"
      /\ Goto(r, "remember") /\ phase # "down" /\ Pooled' = Pooled
  BY DEF Created, Pooled
<1>1. PICK id \in Ids : /\ live[id] = NoKey /\ live' = [live EXCEPT ![id] = key[r]]
                        /\ made' = [made EXCEPT ![r] = id] /\ leaked' = leaked \ {id}
  BY DEF Created, Free
<1>2. /\ pc'[r] = "remember" /\ \A q \in Requests : q # r => pc'[q] = pc[q] /\ made'[q] = made[q]
      /\ made'[r] = id /\ live'[id] = key[r] /\ \A x \in Ids : x # id => live'[x] = live[x]
      /\ key[r] \in Keys /\ key[r] # NoKey /\ id # NoId
  BY <1>0, <1>1, PoolsAssumption DEF Goto, TypeOK
<1>3. Claimed'
  <2>1. \A q \in Requests : pc'[q] \in Claiming <=> pc[q] \in Claiming
    BY <1>0, <1>2 DEF Claiming
  <2>2. QED
    BY <1>0, <2>1 DEF Inv, Claimed
<1>4. Owned'
  <2>1. Owned
    BY DEF Inv
  <2>2. /\ id \notin closing
        /\ \A k \in Keys : pooled[k] # id
        /\ \A q \in Requests : made[q] # id /\ id \notin evicted[q]
    BY <1>0, <1>1, <1>2, <2>1, PoolsAssumption DEF Owned, TypeOK
  <2>3. /\ \A k \in Keys : pooled[k] # NoId => live'[pooled[k]] = k
        /\ \A x \in closing : live'[x] # NoKey
        /\ \A q \in Requests : made'[q] # NoId => live'[made'[q]] = key[q]
        /\ \A q \in Requests : \A x \in evicted[q] : live'[x] # NoKey
    BY <1>0, <1>2, <2>1, <2>2 DEF Owned, TypeOK
  <2>4. \A q \in Requests :
          /\ made'[q] # NoId <=> pc'[q] = "remember"
          /\ made'[q] # NoId => made'[q] \notin closing
          /\ evicted[q] # {} => pc'[q] = "release"
          /\ \A x \in evicted[q] : x \notin closing
          /\ \A k \in Keys : pooled[k] # NoId => pooled[k] # made'[q] /\ pooled[k] \notin evicted[q]
    BY <1>0, <1>2, <2>1, <2>2 DEF Owned
  <2>5. \A p, q \in Requests :
          /\ made'[p] # NoId => made'[p] \notin evicted[q]
          /\ p # q => evicted[p] \cap evicted[q] = {} /\ (made'[p] # NoId => made'[p] # made'[q])
    BY <1>0, <1>2, <2>1, <2>2 DEF Owned
  <2>6. \A x \in closing : \A k \in Keys : pooled[k] # x
    BY <1>0, <2>1 DEF Owned
  <2>7. QED
    BY <1>0, <2>3, <2>4, <2>5, <2>6 DEF Owned
<1>5. Kept'
  <2> SUFFICES ASSUME phase = "up", NEW x \in Ids, live'[x] # NoKey, x \notin leaked'
               PROVE  \/ \E k \in Keys : pooled[k] = x
                      \/ \E q \in Requests : x \in evicted[q] \/ x = made'[q]
    BY <1>0 DEF Inv, Kept
  <2>1. CASE x = id
    BY <1>2, <2>1
  <2>2. CASE x # id
    <3>1. live[x] # NoKey /\ x \notin leaked
      BY <1>1, <1>2, <2>2
    <3>2. made[r] = NoId
      BY <1>0 DEF Inv, Owned
    <3>3. \A q \in Requests : x = made[q] => x = made'[q]
      BY <1>2, <3>2, PoolsAssumption
    <3>4. QED
      BY <3>1, <3>3 DEF Inv, Kept
  <2>3. QED
    BY <2>1, <2>2
<1>6. QED
  BY <1>3, <1>4, <1>5 DEF Inv

LEMMA CreateFailsKeeps ==
  ASSUME TypeOK, Inv, NEW r \in Requests, CreateFails(r)
  PROVE  Inv'
<1>0. /\ UNCHANGED <<pooled, creating, phase, closing, key, evicted, made>> /\ pc[r] = "create"
      /\ Goto(r, "abandon") /\ Pooled' = Pooled
  BY DEF CreateFails, Pooled
<1>1. pc'[r] = "abandon" /\ \A q \in Requests : q # r => pc'[q] = pc[q]
  BY <1>0 DEF Goto, TypeOK
<1>2. Claimed'
  <2>1. \A q \in Requests : pc'[q] \in Claiming <=> pc[q] \in Claiming
    BY <1>0, <1>1 DEF Claiming
  <2>2. QED
    BY <1>0, <2>1 DEF Inv, Claimed
<1>3. \A x \in Ids : /\ live[x] # NoKey => live'[x] = live[x]
                     /\ live'[x] # NoKey /\ x \notin leaked' => live[x] # NoKey /\ x \notin leaked
  BY DEF CreateFails, Free, TypeOK
<1>4. Owned'
  <2>1. /\ \A k \in Keys : pooled[k] # NoId => pooled[k] \in Ids
        /\ \A q \in Requests : evicted[q] \subseteq Ids /\ (made[q] # NoId => made[q] \in Ids) /\ key[q] # NoKey
        /\ closing \subseteq Ids
    BY PoolsAssumption DEF TypeOK
  <2> SUFFICES ASSUME phase # "down" PROVE Owned'
    BY <1>0 DEF Owned
  <2>2. /\ \A k \in Keys : pooled[k] # NoId => live'[pooled[k]] = k
        /\ \A x \in closing : live'[x] # NoKey
        /\ \A q \in Requests : made[q] # NoId => live'[made[q]] = key[q]
        /\ \A q \in Requests : \A x \in evicted[q] : live'[x] # NoKey
    BY <1>3, <2>1, PoolsAssumption DEF Inv, Owned
  <2>3. \A q \in Requests : /\ pc'[q] = "remember" <=> pc[q] = "remember"
                            /\ pc'[q] = "release" <=> pc[q] = "release"
    BY <1>0, <1>1
  <2>4. QED
    BY <1>0, <2>2, <2>3 DEF Inv, Owned
<1>5. Kept'
  BY <1>0, <1>3 DEF Inv, Kept
<1>6. QED
  BY <1>2, <1>4, <1>5 DEF Inv

\* A capture that ends leaves its prefix to others.
LEMMA ClaimEnds ==
  ASSUME TypeOK, Inv, phase = "up", NEW r \in Requests, pc[r] \in Claiming, evicted[r] = {},
         Goto(r, "idle"), creating' = creating \ {key[r]}, UNCHANGED <<phase, key, evicted>>,
         \A k \in Keys : k # key[r] => pooled'[k] = pooled[k], pooled' \in [Keys -> Ids \cup {NoId}]
  PROVE  /\ Claimed'
         /\ pooled[key[r]] = NoId
<1>1. pc'[r] = "idle" /\ \A q \in Requests : q # r => pc'[q] = pc[q]
  BY DEF Goto, TypeOK
<1>2. key[r] \in creating /\ key[r] \in Keys /\ pooled[key[r]] = NoId
  BY DEF Inv, Claimed, TypeOK
<1>3. \A q \in Requests : pc'[q] \in Claiming <=> q # r /\ pc[q] \in Claiming
  BY <1>1 DEF Claiming
<1>4. \A q \in Requests : q # r /\ pc[q] \in Claiming => key[q] # key[r]
  BY DEF Inv, Claimed
<1>5. Cardinality(Pooled') + Cardinality(creating') <= MaxPools
  <2>1. Pooled' \in SUBSET (Pooled \cup {key[r]})
    BY <1>2 DEF Pooled
  <2>2. /\ IsFiniteSet(Pooled \cup {key[r]})
        /\ Cardinality(Pooled \cup {key[r]}) = Cardinality(Pooled) + 1
    <3>1. key[r] \notin Pooled
      BY <1>2 DEF Pooled
    <3>2. QED
      BY <3>1, Sizes, FS_AddElement
  <2>3. Cardinality(Pooled') \in Nat /\ Cardinality(Pooled') <= Cardinality(Pooled) + 1
    BY <2>1, <2>2, FS_Subset, FS_CardinalityType
  <2>4. Cardinality(creating') = Cardinality(creating) - 1
    BY <1>2, Sizes, FS_RemoveElement
  <2>5. Cardinality(Pooled) + Cardinality(creating) <= MaxPools
    BY DEF Inv, Claimed
  <2>6. QED
    BY <2>3, <2>4, <2>5, Sizes, PoolsAssumption
<1>6. \A k \in creating' : pooled'[k] = NoId /\ \E q \in Requests : pc'[q] \in Claiming /\ key[q] = k
  BY <1>2, <1>3 DEF Inv, Claimed, TypeOK
<1>7. \A q \in Requests : pc'[q] \in Claiming => key[q] \in creating'
  BY <1>3, <1>4 DEF Inv, Claimed
<1>8. QED
  BY <1>2, <1>3, <1>5, <1>6, <1>7 DEF Inv, Claimed

LEMMA RememberKeeps ==
  ASSUME TypeOK, Inv, NEW r \in Requests, Remember(r)
  PROVE  Inv'
<1>0. /\ UNCHANGED <<engineVars, key, evicted>> /\ pc[r] = "remember" /\ Goto(r, "idle")
      /\ creating' = creating \ {key[r]} /\ key[r] \in Keys
      /\ pooled' = [pooled EXCEPT ![key[r]] = made[r]] /\ made' = [made EXCEPT ![r] = NoId]
  BY DEF Remember, TypeOK
<1>1. /\ pc'[r] = "idle" /\ \A q \in Requests : q # r => pc'[q] = pc[q] /\ made'[q] = made[q]
      /\ made'[r] = NoId /\ pooled'[key[r]] = made[r]
      /\ \A k \in Keys : k # key[r] => pooled'[k] = pooled[k]
  BY <1>0 DEF Goto, TypeOK
<1>2. CASE phase = "down"
  BY <1>0, <1>2 DEF Inv, Claimed, Owned, Kept
<1>3. CASE phase # "down"
  <2>1. Owned /\ evicted[r] = {} /\ made[r] # NoId /\ live[made[r]] = key[r]
    BY <1>0, <1>3 DEF Inv, Owned
  <2>2. Owned'
    <3>1. \A k \in Keys : pooled'[k] # NoId => live[pooled'[k]] = k
      BY <1>1, <1>3, <2>1 DEF Owned
    <3>2. \A q \in Requests :
            /\ made'[q] # NoId <=> pc'[q] = "remember"
            /\ made'[q] # NoId => live[made'[q]] = key[q] /\ made'[q] \notin closing
            /\ evicted[q] # {} => pc'[q] = "release"
            /\ \A id \in evicted[q] : live[id] # NoKey /\ id \notin closing
      BY <1>1, <1>3, <2>1 DEF Owned
    <3>3. \A q \in Requests : \A k \in Keys :
            pooled'[k] # NoId => pooled'[k] # made'[q] /\ pooled'[k] \notin evicted[q]
      BY <1>1, <1>3, <2>1 DEF Owned
    <3>4. \A id \in closing : live[id] # NoKey /\ \A k \in Keys : pooled'[k] # id
      BY <1>1, <1>3, <2>1 DEF Owned
    <3>5. \A p, q \in Requests :
            /\ made'[p] # NoId => made'[p] \notin evicted[q]
            /\ p # q => evicted[p] \cap evicted[q] = {} /\ (made'[p] # NoId => made'[p] # made'[q])
      BY <1>1, <1>3, <2>1 DEF Owned
    <3>6. QED
      BY <1>0, <3>1, <3>2, <3>3, <3>4, <3>5 DEF Owned
  <2>3. CASE phase = "up"
    <3>1. pooled' \in [Keys -> Ids \cup {NoId}]
      BY <1>0 DEF TypeOK
    <3>2. pc[r] \in Claiming
      BY <1>0 DEF Claiming
    <3>3. Claimed' /\ pooled[key[r]] = NoId
      BY <1>0, <1>1, <2>1, <2>3, <3>1, <3>2, ClaimEnds
    <3>4. Kept'
      <4> SUFFICES ASSUME NEW id \in Ids, live[id] # NoKey, id \notin leaked
                   PROVE  \/ \E k \in Keys : pooled'[k] = id
                          \/ \E q \in Requests : id \in evicted[q] \/ id = made'[q]
        BY <1>0, <2>3 DEF Inv, Kept
      <4>1. CASE \E k \in Keys : pooled[k] = id
        BY <1>1, <3>3, <4>1, PoolsAssumption
      <4>2. CASE \E q \in Requests : id = made[q]
        BY <1>0, <1>1, <4>2
      <4>3. CASE \E q \in Requests : id \in evicted[q]
        BY <4>3
      <4>4. QED
        BY <2>3, <4>1, <4>2, <4>3 DEF Inv, Kept
    <3>5. QED
      BY <2>2, <3>3, <3>4 DEF Inv
  <2>4. CASE phase # "up"
    BY <1>0, <2>2, <2>4 DEF Inv, Claimed, Kept
  <2>5. QED
    BY <2>3, <2>4
<1>4. QED
  BY <1>2, <1>3

LEMMA AbandonKeeps ==
  ASSUME TypeOK, Inv, NEW r \in Requests, Abandon(r)
  PROVE  Inv'
<1>0. /\ UNCHANGED <<pooled, engineVars, key, captureVars>> /\ pc[r] = "abandon" /\ Goto(r, "idle")
      /\ creating' = creating \ {key[r]}
  BY DEF Abandon
<1>1. pc'[r] = "idle" /\ \A q \in Requests : q # r => pc'[q] = pc[q]
  BY <1>0 DEF Goto, TypeOK
<1>2. Owned'
  BY <1>0, <1>1 DEF Inv, Owned
<1>3. Kept'
  BY <1>0 DEF Inv, Kept
<1>4. CASE phase = "up"
  <2>1. evicted[r] = {}
    BY <1>0, <1>4 DEF Inv, Owned
  <2>2. pc[r] \in Claiming /\ pooled' \in [Keys -> Ids \cup {NoId}]
    BY <1>0 DEF Claiming, TypeOK
  <2>3. Claimed'
    BY <1>0, <1>4, <2>1, <2>2, ClaimEnds
  <2>4. QED
    BY <1>2, <1>3, <2>3 DEF Inv
<1>5. CASE phase # "up"
  BY <1>0, <1>2, <1>3, <1>5 DEF Inv, Claimed
<1>6. QED
  BY <1>4, <1>5


-----------------------------------------------------------------------------
(* The runner closes, and all steps.                                          *)

LEMMA CloseKeeps ==
  ASSUME TypeOK, Inv, Close \/ ClosingReleases \/ Stop
  PROVE  Inv'
<1>1. CASE Close
  <2>1. /\ phase = "up" /\ phase' = "closing" /\ closing' = {pooled[k] : k \in Pooled}
        /\ pooled' = [k \in Keys |-> NoId] /\ UNCHANGED <<live, pc, key, evicted, made>>
    BY <1>1 DEF Close
  <2>2. \A id \in closing' : \E k \in Keys : id = pooled[k] /\ pooled[k] # NoId
    BY <2>1 DEF Pooled
  <2>3. Owned
    BY DEF Inv
  <2>4. \A id \in closing' : /\ live[id] # NoKey /\ id # NoId
                             /\ \A q \in Requests : id \notin evicted[q] /\ id # made[q]
    BY <2>1, <2>2, <2>3, PoolsAssumption DEF Owned
  <2>5. Owned'
    BY <2>1, <2>3, <2>4 DEF Owned
  <2>6. QED
    BY <2>1, <2>5 DEF Inv, Claimed, Kept
<1>2. CASE ClosingReleases
  <2>1. PICK id \in closing : ReleaseCall(id) /\ closing' = closing \ {id}
    BY <1>2 DEF ClosingReleases
  <2>2. phase = "closing" /\ UNCHANGED <<pooled, phase, pc, key, evicted, made>>
    BY <1>2 DEF ClosingReleases
  <2>3. id \in Ids /\ \A x \in Ids : x # id => live'[x] = live[x]
    BY <2>1 DEF ReleaseCall, TypeOK
  <2>4. Owned
    BY DEF Inv
  <2>5. /\ \A k \in Keys : pooled[k] # id
        /\ \A q \in Requests : made[q] # id /\ id \notin evicted[q]
    BY <2>1, <2>2, <2>3, <2>4, PoolsAssumption DEF Owned
  <2>6. /\ \A k \in Keys : pooled[k] # NoId => live'[pooled[k]] = k
        /\ \A x \in closing' : live'[x] # NoKey
        /\ \A q \in Requests : made[q] # NoId => live'[made[q]] = key[q]
        /\ \A q \in Requests : \A x \in evicted[q] : live'[x] # NoKey
    BY <2>1, <2>2, <2>3, <2>4, <2>5 DEF Owned, TypeOK
  <2>7. Owned'
    BY <2>1, <2>2, <2>4, <2>6 DEF Owned
  <2>8. QED
    BY <2>2, <2>7 DEF Inv, Claimed, Kept
<1>3. CASE Stop
  BY <1>3 DEF Stop, Inv, Claimed, Owned, Kept
<1>4. QED
  BY <1>1, <1>2, <1>3

LEMMA InvNext == TypeOK /\ Inv /\ [Next]_vars => Inv'
<1> SUFFICES ASSUME TypeOK, Inv, [Next]_vars PROVE Inv'
  OBVIOUS
<1>1. CASE UNCHANGED vars
  <2>1. Pooled' = Pooled
    BY <1>1 DEF vars, Pooled
  <2>2. Claimed'
    BY <1>1, <2>1 DEF vars, Inv, Claimed
  <2>3. Owned'
    BY <1>1 DEF vars, Inv, Owned
  <2>4. Kept'
    BY <1>1 DEF vars, Inv, Kept
  <2>5. QED
    BY <2>2, <2>3, <2>4 DEF Inv
<1>2. ASSUME NEW r \in Requests, Capture(r)
      PROVE  Inv'
  BY <1>2, BeforeClaimKeeps, ClaimKeeps, ReleaseKeeps, CreatedKeeps, CreateFailsKeeps,
     RememberKeeps, AbandonKeeps DEF Capture
<1>3. QED
  BY <1>1, <1>2, RequestKeeps, CloseKeeps DEF Next

LEMMA InvInit == Init => Inv
<1> SUFFICES ASSUME Init PROVE Inv
  OBVIOUS
<1>1. Pooled = {} /\ creating = {}
  BY DEF Init, Pooled
<1>2. Cardinality(Pooled) + Cardinality(creating) <= MaxPools
  BY <1>1, FS_EmptySet, PoolsAssumption
<1>3. \A r \in Requests : pc[r] = "idle" /\ evicted[r] = {} /\ made[r] = NoId
  BY DEF Init
<1>4. Claimed
  BY <1>1, <1>2, <1>3 DEF Claimed, Claiming
<1>5. Owned
  BY <1>3 DEF Owned, Init
<1>6. Kept
  BY DEF Init, Kept
<1>7. QED
  BY <1>4, <1>5, <1>6 DEF Inv

\* Claims have one claimer and a seat, every id has one owner at most, and no
\* pool is without one unless its release failed or its create was lost.
THEOREM InvariantHolds == Spec => []Inv
<1>1. TypeOK /\ Inv /\ [Next]_vars => Inv'
  BY InvNext
<1>2. QED
  BY <1>1, InvInit, TypeCorrect, PTL DEF Spec

\* One creation per prefix, and every claim is given back by whoever made it.
THEOREM ClaimsAlwaysHeld == Spec => []ClaimsHeld
<1>1. TypeOK /\ Inv => ClaimsHeld
  <2> SUFFICES ASSUME TypeOK, Inv, phase = "up"
               PROVE  /\ creating = {key[r] : r \in {q \in Requests : pc[q] \in Claiming}}
                      /\ \A q, r \in Requests :
                           pc[q] \in Claiming /\ pc[r] \in Claiming /\ key[q] = key[r] => q = r
    BY DEF ClaimsHeld
  <2>1. \A k : k \in creating <=> k \in {key[r] : r \in {q \in Requests : pc[q] \in Claiming}}
    BY DEF Inv, Claimed
  <2>2. QED
    BY <2>1 DEF Inv, Claimed
<1>2. QED
  BY <1>1, InvariantHolds, TypeCorrect, PTL

\* No id of the registry is stale or another prefix's, and no pinned pool is
\* forgotten by it while somebody could still give it back.
THEOREM RegistryAlwaysExact == Spec => []RegistryExact
<1>1. TypeOK /\ Inv => RegistryExact
  BY DEF Inv, Owned, Kept, RegistryExact, Pooled, Free
<1>2. QED
  BY <1>1, InvariantHolds, TypeCorrect, PTL

-----------------------------------------------------------------------------
(* A free seat for every create.                                              *)

\* The pools of the engine that are not leaked are fewer than its seats: each
\* stands for a pooled or a claimed prefix, and none for this claimer's.
LEMMA SeatLeft ==
  ASSUME TypeOK, Inv, phase = "up", NEW r \in Requests, pc[r] = "create"
  PROVE  Cardinality((Ids \ Free) \ leaked) < MaxPools
<1> DEFINE Taken == (Ids \ Free) \ leaked
           Prefixes == (Pooled \cup creating) \ {key[r]}
           Stands(id, k) == \/ k \in Pooled /\ pooled[k] = id
                            \/ \E q \in Requests : /\ key[q] = k /\ pc[q] \in Claiming
                                                   /\ id \in evicted[q] \/ made[q] = id
           f == [id \in Taken |-> CHOOSE k \in Prefixes : Stands(id, k)]
<1>1. key[r] \in creating /\ key[r] \in Keys /\ pooled[key[r]] = NoId /\ evicted[r] = {} /\ made[r] = NoId
  BY DEF Inv, Claimed, Owned, TypeOK, Claiming
<1>2. ASSUME NEW id \in Taken
      PROVE  \E k \in Prefixes : Stands(id, k)
  <2>1. id \in Ids /\ id # NoId /\ live[id] # NoKey /\ id \notin leaked
    BY <1>2, PoolsAssumption DEF Free
  <2>2. CASE \E k \in Keys : pooled[k] = id
    <3>1. PICK k \in Keys : pooled[k] = id
      BY <2>2
    <3>2. k \in Pooled /\ k # key[r]
      BY <1>1, <2>1, <3>1 DEF Pooled
    <3>3. QED
      BY <3>1, <3>2
  <2>3. CASE \E q \in Requests : id \in evicted[q] \/ id = made[q]
    <3>1. PICK q \in Requests : id \in evicted[q] \/ id = made[q]
      BY <2>3
    <3>2. q # r /\ pc[q] \in Claiming /\ pc[r] \in Claiming
      BY <1>1, <2>1, <3>1 DEF Inv, Owned, Claiming
    <3>3. key[q] \in creating /\ key[q] # key[r]
      BY <3>2 DEF Inv, Claimed
    <3>4. QED
      BY <3>1, <3>2, <3>3
  <2>4. QED
    BY <2>1, <2>2, <2>3 DEF Inv, Kept
<1>3. \A id \in Taken : f[id] \in Prefixes /\ Stands(id, f[id])
  BY <1>2
<1>4. ASSUME NEW x \in Taken, NEW y \in Taken, f[x] = f[y]
      PROVE  x = y
  <2>1. PICK k \in Prefixes : Stands(x, k) /\ Stands(y, k)
    BY <1>3, <1>4
  <2>2. CASE k \in Pooled
    <3>1. k \notin creating
      BY <2>2 DEF Inv, Claimed, Pooled
    <3>2. \A q \in Requests : ~(key[q] = k /\ pc[q] \in Claiming)
      BY <3>1 DEF Inv, Claimed
    <3>3. QED
      BY <2>1, <3>2
  <2>3. CASE k \notin Pooled
    <3>1. PICK p \in Requests : key[p] = k /\ pc[p] \in Claiming /\ (x \in evicted[p] \/ made[p] = x)
      BY <2>1, <2>3
    <3>2. PICK q \in Requests : key[q] = k /\ pc[q] \in Claiming /\ (y \in evicted[q] \/ made[q] = y)
      BY <2>1, <2>3
    <3>3. p = q
      BY <3>1, <3>2 DEF Inv, Claimed
    <3>4. x # NoId /\ y # NoId
      BY PoolsAssumption
    <3>5. \A a, b \in evicted[p] : a = b
      BY DEF Inv, Claimed
    <3>6. made[p] # NoId => evicted[p] = {}
      BY DEF Inv, Owned
    <3>7. QED
      BY <3>1, <3>2, <3>3, <3>4, <3>5, <3>6
  <2>4. QED
    BY <2>2, <2>3
<1>5. f \in Injection(Taken, Prefixes)
  <2>1. f \in [Taken -> Prefixes]
    BY <1>3
  <2>2. \A x, y \in Taken : f[x] = f[y] => x = y
    BY <1>4
  <2> HIDE DEF f, Taken, Prefixes
  <2>3. QED
    BY <2>1, <2>2 DEF Injection, IsInjective
<1>6. IsFiniteSet(Prefixes) /\ Cardinality(Prefixes) < MaxPools
  <2>1. IsFiniteSet(Pooled \cup creating)
    BY Sizes, FS_Union
  <2>2. Cardinality(Pooled \cup creating) <= MaxPools
    <3>1. Cardinality(Pooled) + Cardinality(creating) <= MaxPools
      BY DEF Inv, Claimed
    <3>2. Pooled \cap creating \in SUBSET Pooled
      OBVIOUS
    <3>3. Cardinality(Pooled \cap creating) \in Nat
      BY <3>2, Sizes, FS_Subset, FS_CardinalityType
    <3>4. Cardinality(Pooled \cup creating)
            = Cardinality(Pooled) + Cardinality(creating) - Cardinality(Pooled \cap creating)
      BY Sizes, FS_Union
    <3>5. QED
      BY <3>1, <3>3, <3>4, Sizes, PoolsAssumption
  <2>3. IsFiniteSet(Prefixes) /\ Cardinality(Prefixes) = Cardinality(Pooled \cup creating) - 1
    BY <1>1, <2>1, FS_RemoveElement
  <2>4. Cardinality(Pooled \cup creating) \in Nat
    BY <2>1, FS_CardinalityType
  <2>5. QED
    BY <2>2, <2>3, <2>4, PoolsAssumption
<1>7. Cardinality(Taken) <= Cardinality(Prefixes) /\ IsFiniteSet(Taken)
  BY <1>5, <1>6, FS_Injection
<1>8. Cardinality(Taken) \in Nat /\ Cardinality(Prefixes) \in Nat
  BY <1>6, <1>7, FS_CardinalityType
<1>9. QED
  BY <1>6, <1>7, <1>8, PoolsAssumption

\* However many captures are under way, a create finds a free seat, but for
\* leaked pools.
THEOREM SeatAlwaysFree == Spec => []SeatFree
<1>1. TypeOK /\ Inv => SeatFree
  BY SeatLeft DEF SeatFree
<1>2. QED
  BY <1>1, InvariantHolds, TypeCorrect, PTL
===============================================================================
