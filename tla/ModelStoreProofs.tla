--------------------------- MODULE ModelStoreProofs ---------------------------
(* Machine-checked proofs about ModelStore, for any handlers, names, layers   *)
(* and manifests.                                                             *)
EXTENDS ModelStore, TLAPS

-----------------------------------------------------------------------------
(* Types, and what a handler has in hand where it uses it.                   *)

Writing == {"fetch", "link", "drop", "keep", "anchor"}
Naming == Writing \cup {"unname", "unlegacy"}

\* A handler that uses its name or its manifest has one.
InHand ==
  \A p \in Actors :
    /\ pc[p] \in Naming => Name(p) \in Names
    /\ pc[p] \in Writing => Doc(p) \in Documents

Types == TypeOK /\ InHand

LEMMA Constants ==
  /\ None \notin Documents /\ None \notin Actors
  /\ Documents \subseteq Digests /\ Layers \subseteq Digests
  /\ \A d \in Documents : d \subseteq Layers /\ Listed(d) \subseteq Digests
  /\ \A p \in Handlers : p \in Actors /\ p # Boot
  /\ Boot \in Actors
BY DocumentsAssumption, BootAssumption, NoneAssumption DEF Actors, Digests, Listed

LEMMA ResolvedType ==
  ASSUME TypeOK, NEW n \in Names, Readable(n)
  PROVE  Resolved(n) \in Documents
BY DEF TypeOK, Readable, Resolved

LEMMA TypesInit == Init => Types
<1>1. SUFFICES ASSUME Init PROVE Types
  OBVIOUS
<1>2. NoJob \in Jobs
  BY DEF NoJob, Jobs
<1>3. job \in [Actors -> Jobs] /\ pc \in [Actors -> Places]
  BY <1>1, <1>2 DEF Init, Places, Locked
<1>4. \A p \in Actors : mu = p <=> pc[p] \in Locked
  BY <1>1, Constants DEF Init, Locked
<1>5. TypeOK
  BY <1>1, <1>3, <1>4 DEF Init, TypeOK
<1>6. QED
  BY <1>1, <1>5 DEF Init, Types, InHand, Naming, Writing

LEMMA EndsType ==
  ASSUME Types, NEW p \in Actors, Ends(p), UNCHANGED Store
  PROVE  Types'
<1>1. NoJob \in Jobs
  BY DEF NoJob, Jobs
<1>2. QED
  BY <1>1, Constants
     DEF Types, TypeOK, InHand, Ends, Goto, Unlock, Store, Places, Locked, Naming, Writing,
         Name, Doc

\* What Prunes leaves: the same with or without candidates.
LEMMA PrunesType ==
  ASSUME TypeOK, InHand, NEW p \in Actors, Prunes(p)
  PROVE  /\ mu' \in Actors \cup {None} /\ pc' \in [Actors -> Places]
         /\ job' \in [Actors -> Jobs] /\ need' \in [Actors -> SUBSET Layers]
         /\ cand' \in [Actors -> SUBSET Digests]
         /\ \A q \in Actors : mu' = q <=> pc'[q] \in Locked
         /\ InHand'
<1>1. NoJob \in Jobs
  BY DEF NoJob, Jobs
<1>2. QED
  BY <1>1, Constants
     DEF TypeOK, InHand, Prunes, Ends, Goto, Unlock, Places, Locked, Naming, Writing, Name, Doc

LEMMA BeginsType ==
  ASSUME Types, NEW p \in Actors,
         NEW op \in {"pull", "write", "delete"}, NEW n \in Names, NEW d \in Documents \cup {None},
         NEW at \in {"fetch", "unname"}, at = "fetch" => d \in Documents,
         NEW layers \in SUBSET Layers, NEW blobsToRemove \in SUBSET Digests, NEW why,
         Begins(p, op, n, d, at, layers, blobsToRemove, why)
  PROVE  Types'
<1>1. [op |-> op, name |-> n, doc |-> d] \in Jobs
  BY DEF Jobs
<1>2. job' \in [Actors -> Jobs] /\ pc' \in [Actors -> Places]
  BY <1>1 DEF Types, TypeOK, Begins, Goto, Places
<1>3. \A q \in Actors : mu' = q <=> pc'[q] \in Locked
  BY DEF Types, TypeOK, Begins, Goto, Locked
<1>4. TypeOK'
  BY <1>2, <1>3 DEF Types, TypeOK, Begins, Store
<1>5. InHand'
  BY DEF Types, TypeOK, InHand, Begins, Goto, Naming, Writing, Name, Doc
<1>6. QED
  BY <1>4, <1>5 DEF Types

LEMMA HandleType ==
  ASSUME Types, NEW p \in Handlers, Handle(p)
  PROVE  Types'
<1>1. p \in Actors
  BY Constants
<1>2. ASSUME NEW n \in Names, NEW d \in Documents, NEW follows \in BOOLEAN, PullBegins(p, n, d, follows)
      PROVE  Types'
  BY <1>1, <1>2, BeginsType, ResolvedType, Constants DEF PullBegins, Types
<1>3. ASSUME NEW n \in Names, NEW d \in Documents, NEW follows \in BOOLEAN, CreateBegins(p, n, d, follows)
      PROVE  Types'
  BY <1>1, <1>3, BeginsType, ResolvedType, Constants DEF CreateBegins, Types
<1>4. ASSUME NEW n \in Names, NEW to \in Names, CopyBegins(p, n, to) PROVE Types'
  BY <1>1, <1>4, BeginsType, ResolvedType, Constants DEF CopyBegins, Types
<1>5. ASSUME NEW n \in Names, DeleteBegins(p, n) PROVE Types'
  BY <1>1, <1>5, BeginsType, ResolvedType, Constants DEF DeleteBegins, Types
<1>6. ASSUME NEW l \in Layers, Fetch(p, l) PROVE Types'
  BY <1>1, <1>6, Constants
     DEF Types, TypeOK, InHand, Fetch, Naming, Writing, Name, Doc, Digests
<1>7. CASE FetchFails(p)
  BY <1>1, <1>7, EndsType DEF FetchFails
<1>8. CASE WriteBlob(p)
  BY <1>1, <1>8, Constants
     DEF Types, TypeOK, InHand, WriteBlob, Goto, Naming, Writing, Name, Doc, Digests, Places, Locked
<1>9. CASE Link(p)
  BY <1>1, <1>9, Constants
     DEF Types, TypeOK, InHand, Link, Work, Goto, Naming, Writing, Name, Doc, Digests, Places, Locked
<1>10. CASE Drop(p)
  BY <1>1, <1>10, Constants
     DEF Types, TypeOK, InHand, Drop, Work, Goto, Naming, Writing, Name, Doc, Places, Locked
<1>11. CASE Keep(p)
  <2>1. legacy' \in [Names -> Documents \cup {None}]
    BY <1>1, <1>11 DEF Types, TypeOK, InHand, Keep, Naming, Writing
  <2>2. CASE job[p].op = "pull"
    <3>1. Goto(p, "anchor") /\ Unlock(p) /\ UNCHANGED Work
      BY <1>11, <2>2 DEF Keep
    <3>2. UNCHANGED <<blobs, v2, job, need, cand>> /\ pc[p] = "keep"
      BY <1>11, <3>1 DEF Keep, Work
    <3>3. QED
      BY <1>1, <2>1, <3>1, <3>2, Constants
         DEF Types, TypeOK, InHand, Goto, Unlock, Naming, Writing, Name, Doc, Places, Locked
  <2>3. CASE Prunes(p)
    BY <1>1, <1>11, <2>1, <2>3, PrunesType DEF Types, TypeOK, Keep
  <2>4. QED
    BY <1>11, <2>2, <2>3 DEF Keep
<1>12. CASE WriteFails(p)
  BY <1>1, <1>12, EndsType DEF WriteFails
<1>13. CASE Anchor(p)
  <2>1. legacy' \in [Names -> Documents \cup {None}]
    BY <1>1, <1>13 DEF Types, TypeOK, InHand, Anchor, Naming, Writing
  <2>2. QED
    BY <1>1, <1>13, <2>1, PrunesType DEF Types, TypeOK, Anchor
<1>14. CASE Unname(p)
  BY <1>1, <1>14, Constants
     DEF Types, TypeOK, InHand, Unname, Work, Goto, Naming, Writing, Name, Doc, Places, Locked
<1>15. CASE Unlegacy(p)
  <2>1. legacy' \in [Names -> Documents \cup {None}]
    BY <1>1, <1>15 DEF Types, TypeOK, InHand, Unlegacy, Naming
  <2>2. QED
    BY <1>1, <1>15, <2>1, PrunesType DEF Types, TypeOK, Unlegacy
<1>16. QED
  BY <1>2, <1>3, <1>4, <1>5, <1>6, <1>7, <1>8, <1>9, <1>10, <1>11, <1>12, <1>13, <1>14, <1>15 DEF Handle

LEMMA TypesNext == Types /\ [Next]_vars => Types'
<1> SUFFICES ASSUME Types, [Next]_vars PROVE Types'
  OBVIOUS
<1>1. ASSUME NEW p \in Handlers, Handle(p) PROVE Types'
  BY <1>1, HandleType
<1>2. ASSUME NEW p \in Actors, NEW unread \in SUBSET Linked, Retain(p, unread) PROVE Types'
  <2>1. UNCHANGED Store
    BY <1>2 DEF Retain
  <2>2. CASE Blind(unread)
    BY <1>2, <2>1, <2>2, EndsType DEF Retain
  <2>3. CASE ~Blind(unread)
    BY <1>2, <2>1, <2>3, Constants
       DEF Types, TypeOK, InHand, Retain, Store, Goto, Naming, Writing, Name, Doc, Places, Locked
  <2>4. QED
    BY <2>2, <2>3
<1>3. ASSUME NEW p \in Actors, RemoveEnds(p) PROVE Types'
  BY <1>3, EndsType DEF RemoveEnds
<1>4. ASSUME NEW p \in Actors, NEW d \in Digests, Remove(p, d) PROVE Types'
  BY <1>4, Constants DEF Types, TypeOK, InHand, Remove, Naming, Writing, Name, Doc
<1>5. ASSUME NEW old \in SUBSET blobs, BootSweeps(old) PROVE Types'
  BY <1>5, Constants
     DEF Types, TypeOK, InHand, BootSweeps, Store, Goto, Naming, Writing, Name, Doc, Places, Locked
<1>6. CASE BootSkips
  BY <1>6, Constants
     DEF Types, TypeOK, InHand, BootSkips, Store, Work, Goto, Naming, Writing, Name, Doc, Places, Locked
<1>7. CASE Crash
  <2>1. NoJob \in Jobs
    BY DEF NoJob, Jobs
  <2>2. QED
    BY <1>7, <2>1, Constants
       DEF Types, TypeOK, InHand, Crash, Store, Naming, Writing, Name, Doc, Places, Locked
<1>8. CASE UNCHANGED vars
  BY <1>8 DEF Types, TypeOK, InHand, vars, Name, Doc
<1>9. QED
  BY <1>1, <1>2, <1>3, <1>4, <1>5, <1>6, <1>7, <1>8 DEF Next, Prune

\* Every variable has its type, and manifestStoreMu is held by exactly the
\* one who is in a section of it, however that section ends.
THEOREM TypeCorrect == Spec => []TypeOK
<1>1. Types => TypeOK
  BY DEF Types
<1>2. QED
  BY <1>1, TypesInit, TypesNext, PTL DEF Spec

-----------------------------------------------------------------------------
(* Names and the prune.  While a prune removes, nothing it may still remove   *)
(* is listed: it took what the names list into account under the lock, the    *)
(* writers of names are kept out, and what a delete takes from a name only    *)
(* makes it list less.                                                        *)

CandidatesFree ==
  \A p \in Actors : pc[p] = "remove" =>
    \A n \in Names :
      /\ v2[n] # None => cand[p] \cap Listed(v2[n]) = {}
      /\ v2[n] = None /\ legacy[n] # None /\ ~BeingDeleted(n) => cand[p] \cap Listed(legacy[n]) = {}

Safe == NamesLead /\ CandidatesFree

\* Nobody removes when the lock is free or held for another purpose.
LEMMA NobodyRemoves ==
  ASSUME TypeOK', mu' = None \/ (mu' \in Actors /\ pc'[mu'] # "remove")
  PROVE  CandidatesFree'
<1>1. ASSUME NEW q \in Actors, pc'[q] = "remove" PROVE FALSE
  <2>1. mu' = q
    BY <1>1 DEF TypeOK, Locked
  <2>2. QED
    BY <1>1, <2>1, Constants
<1>2. QED
  BY <1>1 DEF CandidatesFree

\* A step that changes no name and no removal.
Quiet ==
  /\ v2' = v2 /\ legacy' = legacy
  /\ \A q \in Actors : pc'[q] = "remove" => pc[q] = "remove" /\ cand'[q] \subseteq cand[q]
  /\ \A q \in Actors : pc[q] = "unlegacy" => pc'[q] = "unlegacy" /\ job'[q] = job[q]

LEMMA QuietKeeps ==
  ASSUME CandidatesFree, Quiet
  PROVE  CandidatesFree'
<1>1. ASSUME NEW n \in Names, BeingDeleted(n) PROVE BeingDeleted(n)'
  BY <1>1 DEF BeingDeleted, Quiet, Name
<1>2. QED
  BY <1>1 DEF CandidatesFree, Quiet

LEMMA LeadsKept ==
  ASSUME NamesLead, v2' = v2, blobs \subseteq blobs'
  PROVE  NamesLead'
BY DEF NamesLead

\* A handler that ends does not hold the lock.
LEMMA EndsUnlocks ==
  ASSUME TypeOK, NEW p \in Actors, mu \in {p, None}, Ends(p) \/ Prunes(p)
  PROVE  mu' = None
BY Constants DEF Ends, Prunes, Unlock

LEMMA Holder ==
  ASSUME TypeOK, NEW p \in Actors, pc[p] \in Locked
  PROVE  mu = p
BY DEF TypeOK

LEMMA HandleSafe ==
  ASSUME Types, Types', Safe, NEW p \in Handlers, Handle(p)
  PROVE  Safe'
<1>1. p \in Actors /\ TypeOK /\ TypeOK' /\ NamesLead /\ CandidatesFree
  BY Constants DEF Types, Safe
<1>2. ASSUME NEW op, NEW n, NEW d, NEW at, NEW layers, NEW removed, NEW why,
             Begins(p, op, n, d, at, layers, removed, why)
      PROVE  Safe'
  <2>1. mu' = None /\ UNCHANGED <<blobs, v2>>
    BY <1>2 DEF Begins, Store
  <2>2. QED
    BY <1>1, <2>1, NobodyRemoves, LeadsKept DEF Safe
<1>3. ASSUME NEW n \in Names, NEW d \in Documents, NEW follows \in BOOLEAN,
             PullBegins(p, n, d, follows) \/ CreateBegins(p, n, d, follows)
      PROVE  Safe'
  BY <1>2, <1>3 DEF PullBegins, CreateBegins
<1>4. ASSUME NEW n \in Names, NEW to \in Names, CopyBegins(p, n, to) PROVE Safe'
  BY <1>2, <1>4 DEF CopyBegins
<1>5. ASSUME NEW n \in Names, DeleteBegins(p, n) PROVE Safe'
  BY <1>2, <1>5 DEF DeleteBegins
<1>6. ASSUME NEW l \in Layers, Fetch(p, l) PROVE Safe'
  <2>1. Quiet
    BY <1>1, <1>6 DEF Fetch, Quiet, TypeOK
  <2>2. QED
    BY <1>1, <1>6, <2>1, QuietKeeps, LeadsKept DEF Fetch, Safe
<1>7. CASE FetchFails(p)
  <2>1. Quiet
    BY <1>1, <1>7 DEF FetchFails, Ends, Goto, Store, Quiet, TypeOK
  <2>2. QED
    BY <1>1, <1>7, <2>1, QuietKeeps, LeadsKept DEF FetchFails, Store, Safe
<1>8. CASE WriteBlob(p)
  <2>1. mu' = p /\ pc'[p] = "link"
    BY <1>1, <1>8 DEF WriteBlob, Goto, TypeOK
  <2>2. QED
    BY <1>1, <1>8, <2>1, NobodyRemoves, LeadsKept DEF WriteBlob, Safe
<1>9. CASE Link(p)
  <2>1. mu' = p /\ pc'[p] = "drop"
    BY <1>1, <1>9, Holder DEF Link, Goto, TypeOK, Locked
  <2>2. NamesLead'
    BY <1>1, <1>9 DEF Link, NamesLead, TypeOK
  <2>3. QED
    BY <1>1, <2>1, <2>2, NobodyRemoves DEF Safe
<1>10. CASE Drop(p)
  <2>1. mu' = p /\ pc'[p] = "keep"
    BY <1>1, <1>10, Holder DEF Drop, Goto, TypeOK, Locked
  <2>2. QED
    BY <1>1, <1>10, <2>1, NobodyRemoves, LeadsKept DEF Drop, Safe
<1>11. CASE Keep(p)
  <2>1. mu = p
    BY <1>1, <1>11, Holder DEF Keep, Locked
  <2>2. Unlock(p) \/ Prunes(p)
    BY <1>11 DEF Keep
  <2>3. mu' = None
    BY <1>1, <2>1, <2>2, EndsUnlocks DEF Unlock
  <2>4. QED
    BY <1>1, <1>11, <2>3, NobodyRemoves, LeadsKept DEF Keep, Safe
<1>12. CASE WriteFails(p)
  <2>1. mu = p
    BY <1>1, <1>12, Holder DEF WriteFails, Locked
  <2>2. mu' = None
    BY <1>1, <1>12, <2>1, EndsUnlocks DEF WriteFails
  <2>3. QED
    BY <1>1, <1>12, <2>2, NobodyRemoves, LeadsKept DEF WriteFails, Store, Safe
<1>13. CASE Anchor(p)
  <2>1. mu' = None
    BY <1>1, <1>13, EndsUnlocks DEF Anchor
  <2>2. QED
    BY <1>1, <1>13, <2>1, NobodyRemoves, LeadsKept DEF Anchor, Safe
<1>14. CASE Unname(p)
  <2>1. NamesLead'
    BY <1>1, <1>14 DEF Unname, NamesLead, TypeOK
  <2>2. ASSUME NEW n \in Names, n = Name(p) PROVE BeingDeleted(n)'
    BY <1>1, <1>14, <2>2 DEF Unname, Goto, Work, BeingDeleted, Name, TypeOK
  <2>3. ASSUME NEW n \in Names, BeingDeleted(n) PROVE BeingDeleted(n)'
    BY <1>1, <1>14, <2>3 DEF Unname, Goto, Work, BeingDeleted, Name, TypeOK
  <2>4. \A q \in Actors : pc'[q] = "remove" => pc[q] = "remove" /\ cand'[q] = cand[q]
    BY <1>1, <1>14 DEF Unname, Goto, Work, TypeOK
  <2>5. legacy' = legacy /\ \A n \in Names : v2'[n] = v2[n] \/ (n = Name(p) /\ v2'[n] = None)
    BY <1>1, <1>14 DEF Unname, TypeOK
  <2>6. CandidatesFree'
    <3> SUFFICES ASSUME NEW q \in Actors, pc'[q] = "remove", NEW n \in Names
                 PROVE  /\ v2'[n] # None => cand'[q] \cap Listed(v2'[n]) = {}
                        /\ v2'[n] = None /\ legacy'[n] # None /\ ~BeingDeleted(n)'
                             => cand'[q] \cap Listed(legacy'[n]) = {}
      BY DEF CandidatesFree
    <3>1. pc[q] = "remove" /\ cand'[q] = cand[q]
      BY <2>4
    <3>2. CASE n = Name(p)
      BY <2>2, <2>5, <1>1, <3>1, <3>2 DEF CandidatesFree
    <3>3. CASE n # Name(p)
      BY <2>3, <2>5, <1>1, <3>1, <3>3 DEF CandidatesFree
    <3>4. QED
      BY <3>2, <3>3
  <2>7. QED
    BY <2>1, <2>6 DEF Safe
<1>15. CASE Unlegacy(p)
  <2>1. ASSUME NEW n \in Names, BeingDeleted(n), n # Name(p) PROVE BeingDeleted(n)'
    BY <1>1, <1>15, <2>1 DEF Unlegacy, Prunes, Ends, Goto, BeingDeleted, Name, TypeOK
  <2>2. \A q \in Actors : pc'[q] = "remove" => pc[q] = "remove" /\ cand'[q] = cand[q]
    BY <1>1, <1>15 DEF Unlegacy, Prunes, Ends, Goto, TypeOK
  <2>3. v2' = v2 /\ \A n \in Names : legacy'[n] = legacy[n] \/ legacy'[n] = None
    BY <1>1, <1>15 DEF Unlegacy, TypeOK
  <2>4. legacy'[Name(p)] = None
    BY <1>1, <1>15 DEF Unlegacy, TypeOK, Types, InHand, Naming
  <2>5. CandidatesFree'
    BY <1>1, <2>1, <2>2, <2>3, <2>4 DEF CandidatesFree
  <2>6. QED
    BY <1>1, <1>15, <2>5, LeadsKept DEF Unlegacy, Safe
<1>16. QED
  BY <1>3, <1>4, <1>5, <1>6, <1>7, <1>8, <1>9, <1>10, <1>11, <1>12, <1>13, <1>14, <1>15 DEF Handle

\* With every manifest readable, what the names list is kept.
LEMMA RetainSafe ==
  ASSUME Types, Types', Safe, NEW p \in Actors, NEW unread \in SUBSET Linked, Retain(p, unread), ~Blind(unread)
  PROVE  Safe'
<1>1. TypeOK /\ TypeOK' /\ NamesLead /\ mu' = p /\ UNCHANGED Store /\ job' = job
  BY DEF Types, Safe, Retain
<1>2. unread = {}
  BY DEF Blind
<1>3. \A n \in Names : ListedBy(n) \cap cand'[p] = {}
  BY <1>1, <1>2 DEF Retain, TypeOK
<1>4. ASSUME NEW n \in Names, v2[n] # None PROVE ListedBy(n) = Listed(v2[n])
  BY <1>1, <1>4 DEF ListedBy, Reference, Dangling, NamesLead
<1>5. ASSUME NEW n \in Names, v2[n] = None, legacy[n] # None PROVE ListedBy(n) = Listed(legacy[n])
  BY <1>5 DEF ListedBy, Reference, Dangling
<1>6. \A q \in Actors : pc'[q] = "remove" => q = p
  BY <1>1, Constants DEF TypeOK, Locked
<1>7. CandidatesFree'
  BY <1>1, <1>3, <1>4, <1>5, <1>6 DEF CandidatesFree, Store
<1>8. QED
  BY <1>1, <1>7, LeadsKept DEF Safe, Store

LEMMA SafeNext == Types /\ Types' /\ Safe /\ [Next]_vars => Safe'
<1> SUFFICES ASSUME Types, Types', Safe, [Next]_vars PROVE Safe'
  OBVIOUS
<1>1. TypeOK /\ TypeOK' /\ NamesLead /\ CandidatesFree
  BY DEF Types, Safe
<1>2. ASSUME NEW p \in Handlers, Handle(p) PROVE Safe'
  BY <1>2, HandleSafe
<1>3. ASSUME NEW p \in Actors, NEW unread \in SUBSET Linked, Retain(p, unread) PROVE Safe'
  <2>1. CASE Blind(unread)
    <3>1. mu = None /\ Ends(p) /\ UNCHANGED Store
      BY <1>3, <2>1 DEF Retain
    <3>2. mu' = None
      BY <1>1, <3>1, EndsUnlocks
    <3>3. QED
      BY <1>1, <3>1, <3>2, NobodyRemoves, LeadsKept DEF Safe, Store
  <2>2. CASE ~Blind(unread)
    BY <1>3, <2>2, RetainSafe
  <2>3. QED
    BY <2>1, <2>2
<1>4. ASSUME NEW p \in Actors, RemoveEnds(p) PROVE Safe'
  <2>1. mu = p
    BY <1>1, <1>4, Holder DEF RemoveEnds, Locked
  <2>2. mu' = None
    BY <1>1, <1>4, <2>1, EndsUnlocks DEF RemoveEnds
  <2>3. QED
    BY <1>1, <1>4, <2>2, NobodyRemoves, LeadsKept DEF RemoveEnds, Safe, Store
<1>5. ASSUME NEW p \in Actors, NEW d \in Digests, Remove(p, d) PROVE Safe'
  <2>1. ASSUME NEW n \in Names, v2[n] # None PROVE v2[n] # d
    BY <1>1, <1>5, <2>1 DEF Remove, CandidatesFree, Listed
  <2>2. NamesLead'
    BY <1>1, <1>5, <2>1 DEF Remove, NamesLead
  <2>3. Quiet
    BY <1>1, <1>5 DEF Remove, Quiet, TypeOK
  <2>4. QED
    BY <1>1, <2>2, <2>3, QuietKeeps DEF Safe
<1>6. ASSUME NEW old \in SUBSET blobs, BootSweeps(old) PROVE Safe'
  <2>1. Quiet
    BY <1>1, <1>6 DEF BootSweeps, Goto, Store, Quiet, TypeOK
  <2>2. QED
    BY <1>1, <1>6, <2>1, QuietKeeps, LeadsKept DEF BootSweeps, Store, Safe
<1>7. CASE BootSkips
  <2>1. Quiet
    BY <1>1, <1>7 DEF BootSkips, Goto, Store, Work, Quiet, TypeOK
  <2>2. QED
    BY <1>1, <1>7, <2>1, QuietKeeps, LeadsKept DEF BootSkips, Store, Safe
<1>8. CASE Crash
  BY <1>1, <1>8, NobodyRemoves, LeadsKept DEF Crash, Store, Safe
<1>9. CASE UNCHANGED vars
  <2>1. Quiet
    BY <1>9 DEF vars, Quiet
  <2>2. QED
    BY <1>1, <1>9, <2>1, QuietKeeps, LeadsKept DEF vars, Safe
<1>10. QED
  BY <1>2, <1>3, <1>4, <1>5, <1>6, <1>7, <1>8, <1>9 DEF Next, Prune

\* Names lead to manifests and a prune under way takes nothing that is listed,
\* in every reachable state.
THEOREM InvariantHolds == Spec => [](Types /\ Safe)
<1>1. Init => Safe
  BY DEF Init, Safe, NamesLead, CandidatesFree
<1>2. Types /\ Safe /\ [Next]_vars => Types' /\ Safe'
  BY TypesNext, SafeNext
<1>3. QED
  BY <1>1, <1>2, TypesInit, PTL DEF Spec

\* The link of a name leads to a manifest: no pull, copy, delete, prune, crash
\* or refusing disk leaves one that dangles.
THEOREM LinksLead == Spec => []NamesLead
<1>1. Types /\ Safe => NamesLead
  BY DEF Safe
<1>2. QED
  BY <1>1, InvariantHolds, PTL

\* Only Remove takes blobs.
LEMMA OnlyRemoveTakes ==
  ASSUME [Next]_vars
  PROVE  blobs \subseteq blobs' \/ \E p \in Actors, d \in Digests : Remove(p, d)
<1>1. ASSUME NEW p \in Handlers, Handle(p) PROVE blobs \subseteq blobs'
  BY <1>1
     DEF Handle, PullBegins, CreateBegins, CopyBegins, DeleteBegins, Begins, Fetch, FetchFails, WriteBlob,
         Link, Drop, Keep, WriteFails, Anchor, Unname, Unlegacy, Store
<1>2. ASSUME NEW p \in Actors, RemoveEnds(p) \/ \E unread \in SUBSET Linked : Retain(p, unread)
      PROVE  blobs \subseteq blobs'
  BY <1>2 DEF Retain, RemoveEnds, Store
<1>3. ASSUME NEW old \in SUBSET blobs, BootSweeps(old) PROVE blobs \subseteq blobs'
  BY <1>3 DEF BootSweeps, Store
<1>4. BootSkips \/ Crash => blobs \subseteq blobs'
  BY DEF BootSkips, Crash, Store
<1>5. QED
  BY <1>1, <1>2, <1>3, <1>4 DEF Next, Prune, vars

\* No prune takes a blob that a name lists, whether its manifest can be read
\* or not, unless that name is being deleted.
THEOREM ListedBlobsKept == Spec => ListedKept
<1>1. ASSUME Types, Safe, [Next]_vars, NEW n \in Names, ~BeingDeleted(n)
      PROVE  ListedBy(n) \cap blobs \subseteq blobs'
  <2>1. ASSUME NEW p \in Actors, NEW d \in Digests, Remove(p, d)
        PROVE  ListedBy(n) \cap blobs \subseteq blobs'
    <3>1. d \in cand[p] /\ pc[p] = "remove" /\ blobs' = blobs \ {d}
      BY <2>1 DEF Remove
    <3>2. CASE v2[n] # None
      BY <1>1, <3>1, <3>2 DEF Safe, CandidatesFree, ListedBy, Reference
    <3>3. CASE v2[n] = None
      BY <1>1, <3>1, <3>3 DEF Safe, CandidatesFree, ListedBy, Reference
    <3>4. QED
      BY <3>2, <3>3
  <2>2. QED
    BY <1>1, <2>1, OnlyRemoveTakes
<1>2. Types /\ Safe /\ [Next]_vars =>
        [\A n \in Names : ~BeingDeleted(n) => ListedBy(n) \cap blobs \subseteq blobs']_vars
  BY <1>1
<1>3. QED
  BY <1>2, InvariantHolds, PTL DEF Spec, ListedKept
-----------------------------------------------------------------------------
(* Requests that no other disturbs.  As long as nothing has opened a gap, one *)
(* actor is at work at a time; what a name lists is there, its copy is a copy *)
(* of what it links to unless a write is between the two, and a handler that  *)
(* has fetched a layer finds it when it names it.                             *)

Alone == \A p, q \in Actors : pc[p] # "idle" /\ pc[q] # "idle" => p = q

Complete == \A n \in Names : Reference(n) # None => Listed(Reference(n)) \subseteq blobs

Copies ==
  \A n \in Names : v2[n] # None /\ legacy[n] \notin {None, v2[n]} =>
    \E p \in Actors : pc[p] = "drop" /\ Name(p) = n

\* What a handler has of its manifest where it is.
Has(p) ==
  /\ pc[p] = "fetch" => Doc(p) \ need[p] \subseteq blobs
  /\ pc[p] \in {"link", "drop", "keep", "anchor"} => Listed(Doc(p)) \subseteq blobs
  /\ pc[p] \in {"drop", "keep", "anchor"} => v2[Name(p)] = Doc(p)

Hands == \A p \in Actors : Has(p)

Whole == Alone /\ Complete /\ Copies /\ Hands
Undisturbed == "gap" \notin seen => Whole

LEMMA Happened ==
  ASSUME NEW what, Happens(what)
  PROVE  /\ "gap" \notin seen' => "gap" \notin seen /\ "gap" \notin what
         /\ seen' = {} => seen = {} /\ what = {}
BY DEF Happens

\* The one at work goes on; nobody else does anything.
GoesOn(p) ==
  /\ pc[p] # "idle"
  /\ \A q \in Actors : q # p => pc'[q] = pc[q]

LEMMA AloneKept ==
  ASSUME Alone, NEW p \in Actors, GoesOn(p)
  PROVE  Alone' /\ \A q \in Actors : q # p => pc[q] = "idle" /\ pc'[q] = "idle"
BY DEF Alone, GoesOn

LEMMA HandsKept ==
  ASSUME Alone, NEW p \in Actors, GoesOn(p), Has(p)'
  PROVE  Hands'
<1>1. \A q \in Actors : q # p => pc'[q] = "idle"
  BY AloneKept
<1>2. QED
  BY <1>1 DEF Hands, Has

LEMMA CompleteKept ==
  ASSUME Complete, v2' = v2, legacy' = legacy, blobs \subseteq blobs'
  PROVE  Complete'
BY DEF Complete, Reference

LEMMA CopiesKept ==
  ASSUME Alone, Copies, NEW p \in Actors, GoesOn(p), pc[p] # "drop", v2' = v2, legacy' = legacy
  PROVE  Copies'
<1>1. \A q \in Actors : pc[q] # "drop"
  BY AloneKept
<1>2. QED
  BY <1>1 DEF Copies

\* The name is read as the prune reads it.
LEMMA ResolvesReference ==
  ASSUME NamesLead, NEW n \in Names
  PROVE  Resolved(n) = Reference(n)
BY DEF NamesLead, Resolved, Reference

LEMMA BeginsWhole ==
  ASSUME Types, Undisturbed, "gap" \notin seen',
         NEW p \in Actors, NEW op, NEW n, NEW d, NEW at \in {"fetch", "unname"},
         NEW layers, NEW removed, NEW why,
         Begins(p, op, n, d, at, layers, removed, why),
         at = "fetch" => d \ layers \subseteq blobs
  PROVE  Whole'
<1>1. "gap" \notin seen /\ \A q \in Actors : pc[q] = "idle"
  BY Happened DEF Begins
<1>2. Whole /\ UNCHANGED Store
  BY <1>1 DEF Undisturbed, Begins
<1>3. pc' = [pc EXCEPT ![p] = at] /\ need' = [need EXCEPT ![p] = layers]
      /\ job' = [job EXCEPT ![p] = [op |-> op, name |-> n, doc |-> d]]
  BY DEF Begins, Goto
<1>4. Alone'
  BY <1>1, <1>3 DEF Types, TypeOK, Alone
<1>5. Complete'
  BY <1>2, CompleteKept DEF Whole, Store
<1>6. Copies'
  BY <1>1, <1>2 DEF Whole, Copies, Store
<1>7. Hands'
  <2>1. Has(p)'
    BY <1>2, <1>3 DEF Types, TypeOK, Has, Doc, Store
  <2>2. \A q \in Actors : q # p => pc'[q] = "idle"
    BY <1>1, <1>3 DEF Types, TypeOK
  <2>3. QED
    BY <2>1, <2>2 DEF Hands, Has
<1>8. QED
  BY <1>4, <1>5, <1>6, <1>7 DEF Whole

\* What a handler does after it has named, or unnamed, or failed.
LEMMA LeavesWhole ==
  ASSUME Types, Alone, NEW p \in Actors, pc[p] # "idle",
         NEW to, to \notin Writing, Goto(p, to)
  PROVE  Alone' /\ Hands' /\ GoesOn(p)
<1>1. GoesOn(p) /\ pc'[p] = to
  BY DEF GoesOn, Goto, Types, TypeOK
<1>2. Has(p)'
  BY <1>1 DEF Has, Writing
<1>3. QED
  BY <1>1, <1>2, AloneKept, HandsKept

LEMMA PrunesGoes ==
  ASSUME NEW p \in Actors, Prunes(p)
  PROVE  \E to \in {"idle", "retain"} : Goto(p, to)
BY DEF Prunes, Ends

LEMMA HandleWhole ==
  ASSUME Types, Safe, Undisturbed, NEW p \in Handlers, Handle(p)
  PROVE  Undisturbed'
<1> SUFFICES ASSUME "gap" \notin seen' PROVE Whole'
  BY DEF Undisturbed
<1>1. p \in Actors /\ TypeOK /\ NamesLead
  BY Constants DEF Types, Safe
<1>2. ASSUME "gap" \notin seen PROVE Alone /\ Complete /\ Copies /\ Hands /\ Has(p)
  BY <1>1, <1>2 DEF Undisturbed, Whole, Hands
<1>3. ASSUME NEW n \in Names, NEW d \in Documents, NEW follows \in BOOLEAN,
             PullBegins(p, n, d, follows) \/ CreateBegins(p, n, d, follows)
      PROVE  Whole'
  BY <1>1, <1>3, BeginsWhole DEF PullBegins, CreateBegins
<1>4. ASSUME NEW n \in Names, NEW to \in Names, CopyBegins(p, n, to) PROVE Whole'
  <2>1. "gap" \notin seen
    BY <1>4, Happened DEF CopyBegins, Begins
  <2>2. Resolved(n) \subseteq blobs
    BY <1>1, <1>2, <1>4, <2>1, ResolvesReference DEF CopyBegins, Readable, Complete, Listed
  <2>3. QED
    BY <1>1, <1>4, <2>2, BeginsWhole DEF CopyBegins
<1>5. ASSUME NEW n \in Names, DeleteBegins(p, n) PROVE Whole'
  BY <1>1, <1>5, BeginsWhole DEF DeleteBegins
<1>6. ASSUME NEW l \in Layers, Fetch(p, l) PROVE Whole'
  <2>1. "gap" \notin seen /\ GoesOn(p)
    BY <1>6 DEF Fetch, GoesOn
  <2>2. Has(p)'
    BY <1>1, <1>2, <1>6, <2>1 DEF Fetch, Has, Doc, TypeOK
  <2>3. QED
    BY <1>1, <1>2, <1>6, <2>1, <2>2, AloneKept, HandsKept, CompleteKept, CopiesKept DEF Fetch, Whole
<1>7. CASE FetchFails(p)
  <2>1. "gap" \notin seen /\ Goto(p, "idle") /\ pc[p] = "fetch" /\ UNCHANGED Store
    BY <1>7, Happened DEF FetchFails, Ends
  <2>2. Alone' /\ Hands' /\ GoesOn(p)
    BY <1>1, <1>2, <2>1, LeavesWhole DEF Writing
  <2>3. QED
    BY <1>1, <1>2, <2>1, <2>2, CompleteKept, CopiesKept DEF Store, Whole
<1>8. CASE WriteBlob(p)
  <2>1. "gap" \notin seen /\ GoesOn(p)
    BY <1>1, <1>8 DEF WriteBlob, GoesOn, Goto, TypeOK
  <2>2. Has(p)'
    BY <1>1, <1>2, <1>8, <2>1 DEF WriteBlob, Goto, Has, Doc, Listed, TypeOK
  <2>3. QED
    BY <1>1, <1>2, <1>8, <2>1, <2>2, AloneKept, HandsKept, CompleteKept, CopiesKept DEF WriteBlob, Whole
<1>9. CASE Link(p)
  <2>1. "gap" \notin seen /\ GoesOn(p) /\ Name(p) \in Names /\ Doc(p) \in Documents
    BY <1>1, <1>9 DEF Link, GoesOn, Goto, TypeOK, Types, InHand, Naming, Writing
  <2>2. v2' = [v2 EXCEPT ![Name(p)] = Doc(p)] /\ UNCHANGED <<blobs, legacy, job>> /\ pc[p] = "link"
        /\ pc'[p] = "drop"
    BY <1>1, <1>9 DEF Link, Work, Goto, TypeOK
  <2>3. Has(p)'
    BY <1>1, <1>2, <2>1, <2>2 DEF Has, Doc, Name, TypeOK
  <2>4. Complete'
    BY <1>1, <1>2, <2>1, <2>2, Constants DEF Complete, Reference, Has, TypeOK
  <2>5. Copies'
    <3>1. \A q \in Actors : pc[q] # "drop"
      BY <1>1, <1>2, <2>1, <2>2, AloneKept
    <3>2. ASSUME NEW n \in Names, n # Name(p) PROVE v2'[n] = v2[n]
      BY <1>1, <2>2, <3>2 DEF TypeOK
    <3>3. Name(p)' = Name(p)
      BY <2>2 DEF Name
    <3>4. QED
      BY <1>1, <1>2, <2>1, <2>2, <3>1, <3>2, <3>3 DEF Copies
  <2>6. QED
    BY <1>1, <1>2, <2>1, <2>3, <2>4, <2>5, AloneKept, HandsKept DEF Whole
<1>10. CASE Drop(p)
  <2>1. "gap" \notin seen /\ GoesOn(p) /\ Name(p) \in Names /\ Doc(p) \in Documents
    BY <1>1, <1>10 DEF Drop, GoesOn, Goto, TypeOK, Types, InHand, Naming, Writing
  <2>2. legacy' = [legacy EXCEPT ![Name(p)] = None] /\ UNCHANGED <<blobs, v2, job>> /\ pc[p] = "drop"
        /\ pc'[p] = "keep"
    BY <1>1, <1>10 DEF Drop, Work, Goto, TypeOK
  <2>3. v2[Name(p)] = Doc(p)
    BY <1>2, <2>1, <2>2 DEF Has
  <2>4. Has(p)'
    BY <1>2, <2>1, <2>2 DEF Has, Doc, Name
  <2>5. Complete'
    BY <1>1, <1>2, <2>1, <2>2, <2>3, Constants DEF Complete, Reference, TypeOK
  <2>6. Copies'
    <3>1. \A q \in Actors : pc[q] = "drop" => q = p
      BY <1>1, <1>2, <2>1, <2>2, AloneKept
    <3>2. QED
      BY <1>1, <1>2, <2>1, <2>2, <3>1 DEF Copies, TypeOK
  <2>7. QED
    BY <1>1, <1>2, <2>1, <2>4, <2>5, <2>6, AloneKept, HandsKept DEF Whole
<1>11. CASE Keep(p)
  <2>1. "gap" \notin seen /\ pc[p] = "keep" /\ Name(p) \in Names /\ Doc(p) \in Documents
    BY <1>1, <1>11 DEF Keep, Types, InHand, Naming, Writing
  <2>2. legacy' = [legacy EXCEPT ![Name(p)] = Doc(p)] /\ UNCHANGED <<blobs, v2>>
    BY <1>11 DEF Keep
  <2>3. v2[Name(p)] = Doc(p)
    BY <1>2, <2>1 DEF Has
  <2>4. Alone' /\ Hands' /\ GoesOn(p)
    <3>1. CASE Prunes(p)
      <4>1. PICK to \in {"idle", "retain"} : Goto(p, to)
        BY <1>1, <3>1, PrunesGoes
      <4>2. QED
        BY <1>1, <1>2, <2>1, <4>1, LeavesWhole DEF Writing
    <3>2. CASE Goto(p, "anchor") /\ UNCHANGED Work
      <4>1. GoesOn(p) /\ pc'[p] = "anchor"
        BY <1>1, <2>1, <3>2 DEF GoesOn, Goto, TypeOK
      <4>2. Has(p)'
        BY <1>2, <2>1, <2>2, <3>2, <4>1 DEF Has, Work, Doc, Name
      <4>3. QED
        BY <1>1, <1>2, <2>1, <4>1, <4>2, AloneKept, HandsKept
    <3>3. QED
      BY <1>11, <3>1, <3>2 DEF Keep
  <2>5. Complete'
    BY <1>1, <1>2, <2>1, <2>2, <2>3, Constants DEF Complete, Reference, TypeOK
  <2>6. Copies'
    <3>1. \A q \in Actors : pc[q] # "drop"
      BY <1>1, <1>2, <2>1, <2>4, AloneKept
    <3>2. QED
      BY <1>1, <1>2, <2>1, <2>2, <2>3, <3>1 DEF Copies, TypeOK
  <2>7. QED
    BY <2>4, <2>5, <2>6 DEF Whole
<1>12. CASE WriteFails(p)
  <2>1. "gap" \notin seen /\ pc[p] \in {"link", "keep"} /\ Goto(p, "idle") /\ UNCHANGED Store
    BY <1>12, Happened DEF WriteFails, Ends
  <2>2. Alone' /\ Hands' /\ GoesOn(p)
    BY <1>1, <1>2, <2>1, LeavesWhole DEF Writing
  <2>3. QED
    BY <1>1, <1>2, <2>1, <2>2, CompleteKept, CopiesKept DEF Store, Whole
<1>13. CASE Anchor(p)
  <2>1. "gap" \notin seen /\ pc[p] = "anchor" /\ Name(p) \in Names /\ Doc(p) \in Documents /\ Prunes(p)
    BY <1>1, <1>13 DEF Anchor, Types, InHand, Naming, Writing
  <2>2. legacy' \in {legacy, [legacy EXCEPT ![Name(p)] = Doc(p)]} /\ UNCHANGED <<blobs, v2>>
    BY <1>13 DEF Anchor
  <2>3. v2[Name(p)] = Doc(p)
    BY <1>2, <2>1 DEF Has
  <2>4. Alone' /\ Hands' /\ GoesOn(p)
    <3>1. PICK to \in {"idle", "retain"} : Goto(p, to)
      BY <1>1, <2>1, PrunesGoes
    <3>2. QED
      BY <1>1, <1>2, <2>1, <3>1, LeavesWhole DEF Writing
  <2>5. Complete'
    BY <1>1, <1>2, <2>1, <2>2, <2>3, Constants DEF Complete, Reference, TypeOK
  <2>6. Copies'
    <3>1. \A q \in Actors : pc[q] # "drop"
      BY <1>1, <1>2, <2>1, <2>4, AloneKept
    <3>2. QED
      BY <1>1, <1>2, <2>1, <2>2, <2>3, <3>1 DEF Copies, TypeOK
  <2>7. QED
    BY <2>4, <2>5, <2>6 DEF Whole
<1>14. CASE Unname(p)
  <2>1. "gap" \notin seen /\ pc[p] = "unname" /\ Name(p) \in Names /\ Goto(p, "unlegacy")
    BY <1>1, <1>14 DEF Unname, Types, InHand, Naming
  <2>2. v2' = [v2 EXCEPT ![Name(p)] = None] /\ UNCHANGED <<blobs, legacy>>
    BY <1>14 DEF Unname
  <2>3. Alone' /\ Hands' /\ GoesOn(p)
    BY <1>1, <1>2, <2>1, LeavesWhole DEF Writing
  <2>4. \A n \in Names : v2[n] # None => legacy[n] \in {None, v2[n]}
    <3>1. \A q \in Actors : pc[q] # "drop"
      BY <1>1, <1>2, <2>1, <2>3, AloneKept
    <3>2. QED
      BY <1>2, <2>1, <3>1 DEF Copies
  <2>5. \A n \in Names : v2'[n] \in {None, v2[n]} /\ (n # Name(p) => v2'[n] = v2[n])
    BY <1>1, <2>2 DEF TypeOK
  <2>6. Complete'
    BY <1>2, <2>1, <2>2, <2>4, <2>5 DEF Complete, Reference
  <2>7. Copies'
    BY <2>2, <2>4, <2>5 DEF Copies
  <2>8. QED
    BY <2>3, <2>6, <2>7 DEF Whole
<1>15. CASE Unlegacy(p)
  <2>1. "gap" \notin seen /\ pc[p] = "unlegacy" /\ Name(p) \in Names /\ Prunes(p)
    BY <1>1, <1>15 DEF Unlegacy, Types, InHand, Naming
  <2>2. UNCHANGED <<blobs, v2>> /\ \A n \in Names : legacy'[n] \in {None, legacy[n]}
    BY <1>1, <1>15 DEF Unlegacy, TypeOK
  <2>3. Alone' /\ Hands' /\ GoesOn(p)
    <3>1. PICK to \in {"idle", "retain"} : Goto(p, to)
      BY <1>1, <2>1, PrunesGoes
    <3>2. QED
      BY <1>1, <1>2, <2>1, <3>1, LeavesWhole DEF Writing
  <2>4. Complete'
    BY <1>2, <2>1, <2>2 DEF Complete, Reference
  <2>5. Copies'
    <3>1. \A q \in Actors : pc[q] # "drop"
      BY <1>1, <1>2, <2>1, <2>3, AloneKept
    <3>2. QED
      BY <1>2, <2>1, <2>2, <3>1 DEF Copies
  <2>6. QED
    BY <2>3, <2>4, <2>5 DEF Whole
<1>16. QED
  BY <1>3, <1>4, <1>5, <1>6, <1>7, <1>8, <1>9, <1>10, <1>11, <1>12, <1>13, <1>14, <1>15 DEF Handle

LEMMA PruneWhole ==
  ASSUME Types, Safe, Undisturbed, NEW p \in Actors, Prune(p)
  PROVE  Undisturbed'
<1> SUFFICES ASSUME "gap" \notin seen' PROVE Whole'
  BY DEF Undisturbed
<1>1. TypeOK /\ NamesLead /\ CandidatesFree
  BY DEF Types, Safe
<1>2. ASSUME "gap" \notin seen PROVE Alone /\ Complete /\ Copies /\ Hands
  BY <1>2 DEF Undisturbed, Whole
<1>3. ASSUME NEW unread \in SUBSET Linked, Retain(p, unread) PROVE Whole'
  <2>1. "gap" \notin seen /\ pc[p] = "retain" /\ UNCHANGED Store
    BY <1>3, Happened DEF Retain
  <2>2. Goto(p, "idle") \/ Goto(p, "remove")
    BY <1>3 DEF Retain, Ends
  <2>3. Alone' /\ Hands' /\ GoesOn(p)
    BY <1>1, <1>2, <2>1, <2>2, LeavesWhole DEF Writing
  <2>4. QED
    BY <1>2, <2>1, <2>3, CompleteKept, CopiesKept DEF Store, Whole
<1>4. CASE RemoveEnds(p)
  <2>1. "gap" \notin seen /\ pc[p] = "remove" /\ UNCHANGED Store /\ Goto(p, "idle")
    BY <1>4, Happened DEF RemoveEnds, Ends
  <2>2. Alone' /\ Hands' /\ GoesOn(p)
    BY <1>1, <1>2, <2>1, LeavesWhole DEF Writing
  <2>3. QED
    BY <1>2, <2>1, <2>2, CompleteKept, CopiesKept DEF Store, Whole
<1>5. ASSUME NEW d \in Digests, Remove(p, d) PROVE Whole'
  <2>1. "gap" \notin seen /\ pc[p] = "remove" /\ d \in cand[p] /\ GoesOn(p) /\ pc' = pc
        /\ UNCHANGED <<v2, legacy>> /\ blobs' = blobs \ {d}
    BY <1>5 DEF Remove, GoesOn
  <2>2. ASSUME NEW n \in Names, BeingDeleted(n) PROVE FALSE
    BY <1>2, <2>1, <2>2, AloneKept DEF BeingDeleted
  <2>3. ASSUME NEW n \in Names, Reference(n) # None PROVE d \notin Listed(Reference(n))
    BY <1>1, <2>1, <2>2, <2>3 DEF CandidatesFree, Reference
  <2>4. Complete'
    BY <1>2, <2>1, <2>3 DEF Complete, Reference
  <2>5. Has(p)'
    BY <2>1 DEF Has
  <2>6. QED
    BY <1>2, <2>1, <2>4, <2>5, AloneKept, HandsKept, CopiesKept DEF Whole
<1>6. QED
  BY <1>3, <1>4, <1>5 DEF Prune

LEMMA UndisturbedNext == Types /\ Safe /\ Undisturbed /\ [Next]_vars => Undisturbed'
<1> SUFFICES ASSUME Types, Safe, Undisturbed, [Next]_vars PROVE Undisturbed'
  OBVIOUS
<1>1. TypeOK /\ ("gap" \notin seen => Alone /\ Complete /\ Copies /\ Hands)
  BY DEF Types, Undisturbed, Whole
<1>2. ASSUME NEW to, Goto(Boot, to), to \notin Writing, pc[Boot] = "boot", seen' = seen, UNCHANGED Store
      PROVE  Undisturbed'
  <2> SUFFICES ASSUME "gap" \notin seen PROVE Whole'
    BY <1>2 DEF Undisturbed
  <2>1. Alone' /\ Hands' /\ GoesOn(Boot)
    BY <1>1, <1>2, LeavesWhole, Constants
  <2>2. QED
    BY <1>1, <1>2, <2>1, CompleteKept, CopiesKept, Constants DEF Store, Whole
<1>3. ASSUME NEW old \in SUBSET blobs, BootSweeps(old) PROVE Undisturbed'
  BY <1>2, <1>3 DEF BootSweeps, Writing
<1>4. CASE BootSkips
  BY <1>2, <1>4 DEF BootSkips, Writing
<1>5. CASE Crash
  <2> SUFFICES ASSUME "gap" \notin seen' PROVE Whole'
    BY DEF Undisturbed
  <2>1. "gap" \notin seen /\ \A q \in Actors : pc[q] # "drop"
    BY <1>5, Happened DEF Crash
  <2>2. \A q \in Actors : pc'[q] \in {"idle", "boot"} /\ (pc'[q] = "boot" => q = Boot)
    BY <1>5 DEF Crash
  <2>3. Complete' /\ Copies'
    BY <1>1, <1>5, <2>1, CompleteKept DEF Crash, Store, Copies
  <2>4. QED
    BY <2>2, <2>3 DEF Whole, Alone, Hands, Has
<1>6. CASE UNCHANGED vars
  BY <1>6 DEF vars, Undisturbed, Whole, Alone, Complete, Reference, Copies, Hands, Has, Name, Doc
<1>7. QED
  BY <1>3, <1>4, <1>5, <1>6, HandleWhole, PruneWhole DEF Next

LEMMA UndisturbedInit == Init => Undisturbed
BY Constants DEF Init, Undisturbed, Whole, Alone, Complete, Copies, Hands, Has, Reference

\* However the server dies and whatever the file system refuses, requests that
\* do not overlap leave no name without a layer.
THEOREM NamesComplete == Spec => []NamedComplete
<1>1. Undisturbed => NamedComplete
  BY DEF Undisturbed, Whole, Complete, NamedComplete, Reference
<1>2. QED
  BY <1>1, InvariantHolds, UndisturbedInit, UndisturbedNext, PTL DEF Spec

-----------------------------------------------------------------------------
(* Garbage.  As long as nothing has gone wrong, every blob is listed by a     *)
(* name, or is a candidate of the one at work, or one of the layers that it   *)
(* is about to name; and what a name is going to give up is a candidate of    *)
(* the one who takes it.                                                      *)

Holds(p, d) == d \in cand[p] \/ (pc[p] \in {"fetch", "link"} /\ d \in Listed(Doc(p)))
NamedBlob(d) == \E n \in Names : d \in ListedBy(n)
Accounted == \A d \in blobs : NamedBlob(d) \/ \E p \in Actors : Holds(p, d)

\* What a handler has noted where it is.
Noted(p) ==
  /\ pc[p] \in {"idle", "boot"} => cand[p] = {}
  /\ pc[p] = "fetch" => need[p] \subseteq Doc(p)
  /\ pc[p] \in {"fetch", "link"} => ListedBy(Name(p)) \cap blobs \subseteq cand[p] \cup Listed(Doc(p))
  /\ pc[p] \in {"unname", "unlegacy"} => ListedBy(Name(p)) \cap blobs \subseteq cand[p]

Clean == Accounted /\ \A p \in Actors : Noted(p)
Tidy == seen = {} => Clean

\* With no link that dangles, what a name lists is what its reference lists.
LEMMA ListsReference ==
  ASSUME NamesLead, NEW n \in Names
  PROVE  ListedBy(n) = IF Reference(n) = None THEN {} ELSE Listed(Reference(n))
BY DEF ListedBy, Dangling, NamesLead, Reference

LEMMA ListsSame ==
  ASSUME NamesLead, NamesLead', NEW n \in Names, Reference(n)' = Reference(n)
  PROVE  ListedBy(n)' = ListedBy(n)
<1>1. ListedBy(n)' = IF Reference(n)' = None THEN {} ELSE Listed(Reference(n)')
  BY DEF ListedBy, Dangling, NamesLead, Reference, Listed
<1>2. QED
  BY <1>1, ListsReference

\* The one at work keeps account of every blob there is then.
LEMMA CleanKept ==
  ASSUME Alone, Clean, NEW p \in Actors, GoesOn(p), Noted(p)',
         \A q \in Actors : q # p => cand'[q] = cand[q],
         \A d \in blobs' : d \notin blobs \/ NamedBlob(d) \/ Holds(p, d) => NamedBlob(d)' \/ Holds(p, d)'
  PROVE  Clean'
<1>1. \A q \in Actors : q # p => pc[q] = "idle" /\ pc'[q] = "idle"
  BY AloneKept
<1>2. \A q \in Actors : q # p => cand[q] = {} /\ \A d : ~Holds(q, d)
  BY <1>1 DEF Clean, Noted, Holds
<1>3. Accounted'
  BY <1>2 DEF Clean, Accounted
<1>4. \A q \in Actors : q # p => Noted(q)'
  BY <1>1, <1>2 DEF Noted
<1>5. QED
  BY <1>3, <1>4 DEF Clean

\* A request begins when all rest, so every blob has a name then.
LEMMA BeginsClean ==
  ASSUME Types, Safe, Safe', Tidy, seen' = {},
         NEW p \in Actors, NEW op, NEW n, NEW d, NEW at \in {"fetch", "unname"},
         NEW layers, NEW removed, NEW why,
         Begins(p, op, n, d, at, layers, removed, why),
         at = "fetch" => layers \subseteq d /\ ListedBy(n) \cap blobs \subseteq removed \cup Listed(d),
         at = "unname" => ListedBy(n) \cap blobs \subseteq removed
  PROVE  Clean'
<1>1. seen = {} /\ \A q \in Actors : pc[q] = "idle"
  BY Happened DEF Begins
<1>2. Clean /\ UNCHANGED Store
  BY <1>1 DEF Tidy, Begins
<1>3. pc' = [pc EXCEPT ![p] = at] /\ need' = [need EXCEPT ![p] = layers] /\ cand' = [cand EXCEPT ![p] = removed]
      /\ job' = [job EXCEPT ![p] = [op |-> op, name |-> n, doc |-> d]]
  BY DEF Begins, Goto
<1>4. \A x : ListedBy(x)' = ListedBy(x)
  BY <1>2 DEF Store, ListedBy, Dangling, Reference, Listed
<1>5. \A q \in Actors : cand[q] = {} /\ \A b : ~Holds(q, b)
  BY <1>1, <1>2 DEF Clean, Noted, Holds
<1>6. Accounted'
  BY <1>2, <1>4, <1>5 DEF Clean, Accounted, NamedBlob, Store
<1>7. Noted(p)'
  <2>1. pc'[p] = at /\ need'[p] = layers /\ cand'[p] = removed /\ Name(p)' = n /\ Doc(p)' = d
    BY <1>3 DEF Types, TypeOK, Name, Doc
  <2>2. ListedBy(Name(p))' = ListedBy(n)
    BY <2>1, <1>2 DEF Store, ListedBy, Dangling, Reference, Listed
  <2>3. blobs' = blobs
    BY <1>2 DEF Store
  <2>4. Listed(Doc(p))' = Listed(d)
    BY <2>1 DEF Listed
  <2>5. QED
    BY <2>1, <2>2, <2>3, <2>4 DEF Noted
<1>8. ASSUME NEW q \in Actors, q # p PROVE Noted(q)'
  BY <1>1, <1>3, <1>5, <1>8 DEF Types, TypeOK, Noted
<1>9. QED
  BY <1>6, <1>7, <1>8 DEF Clean

LEMMA PrunesCand ==
  ASSUME Types, NEW p \in Actors, Prunes(p)
  PROVE  cand' = cand /\ \E to \in {"idle", "retain"} : Goto(p, to) /\ (to = "idle" => cand[p] = {})
BY DEF Prunes, Ends, Types, TypeOK

\* A step after the name is written, or taken away: only names give up blobs.
LEMMA PrunesClean ==
  ASSUME Types, Alone, Clean, NEW p \in Actors, pc[p] \notin {"idle", "fetch", "link"}, Prunes(p), blobs' = blobs,
         \A d \in blobs : NamedBlob(d) => NamedBlob(d)' \/ d \in cand[p]
  PROVE  Clean'
<1>1. PICK to \in {"idle", "retain"} : Goto(p, to) /\ (to = "idle" => cand[p] = {})
  BY PrunesCand
<1>2. cand' = cand /\ pc'[p] = to /\ GoesOn(p)
  BY <1>1, PrunesCand DEF GoesOn, Goto, Types, TypeOK
<1>3. Noted(p)'
  BY <1>1, <1>2 DEF Noted
<1>4. QED
  BY <1>2, <1>3, CleanKept DEF Holds

LEMMA HandleTidy ==
  ASSUME Types, Safe, Safe', Undisturbed, Tidy, NEW p \in Handlers, Handle(p)
  PROVE  Tidy'
<1> SUFFICES ASSUME seen' = {} PROVE Clean'
  BY DEF Tidy
<1>1. p \in Actors /\ TypeOK /\ NamesLead /\ NamesLead'
  BY Constants DEF Types, Safe
<1>2. ASSUME seen = {} PROVE Clean /\ Alone /\ Copies /\ Has(p) /\ Noted(p)
  BY <1>1, <1>2 DEF Undisturbed, Whole, Hands, Tidy, Clean
<1>3. ASSUME NEW n \in Names, NEW d \in Documents, NEW follows \in BOOLEAN,
             PullBegins(p, n, d, follows) \/ CreateBegins(p, n, d, follows)
      PROVE  Clean'
  <2>1. follows
    BY <1>3, Happened DEF PullBegins, CreateBegins, Begins
  <2>2. ListedBy(n) = IF Readable(n) THEN Listed(Resolved(n)) ELSE {}
    BY <1>1, ListsReference, ResolvesReference DEF Readable
  <2>3. CASE PullBegins(p, n, d, follows)
    <3>1. ListedBy(n) \cap blobs
            \subseteq (IF follows /\ Readable(n) THEN (Listed(Resolved(n)) \cap blobs) \ d ELSE {}) \cup Listed(d)
      BY <2>1, <2>2 DEF Listed
    <3>2. QED
      BY <1>1, <2>3, <3>1, BeginsClean DEF PullBegins
  <2>4. CASE CreateBegins(p, n, d, follows)
    BY <1>1, <2>1, <2>2, <2>4, BeginsClean DEF CreateBegins
  <2>5. QED
    BY <1>3, <2>3, <2>4
<1>4. ASSUME NEW n \in Names, NEW to \in Names, CopyBegins(p, n, to) PROVE Clean'
  <2>1. Reference(to) = None
    BY <1>4, Happened DEF CopyBegins, Begins
  <2>2. ListedBy(to) = {}
    BY <1>1, <2>1, ListsReference
  <2>3. QED
    BY <1>1, <1>4, <2>2, BeginsClean DEF CopyBegins
<1>5. ASSUME NEW n \in Names, DeleteBegins(p, n) PROVE Clean'
  <2>1. ListedBy(n) = Listed(Resolved(n))
    BY <1>1, <1>5, ListsReference, ResolvesReference DEF DeleteBegins, Readable
  <2>2. QED
    BY <1>1, <1>5, <2>1, BeginsClean DEF DeleteBegins
<1>6. ASSUME NEW b, pc[p] = "fetch", b \in Listed(Doc(p)), pc'[p] \in {"fetch", "link"}, GoesOn(p),
             blobs' = blobs \cup {b}, need'[p] \subseteq need[p], UNCHANGED <<v2, legacy, job, cand, seen>>
      PROVE  Clean'
  <2>1. Clean /\ Alone /\ Noted(p) /\ Name(p) \in Names
    BY <1>1, <1>2, <1>6 DEF Types, InHand, Naming, Writing
  <2>2. \A n \in Names : ListedBy(n)' = ListedBy(n)
    BY <1>1, <1>6, ListsSame DEF Reference
  <2>3. Name(p)' = Name(p) /\ Doc(p)' = Doc(p) /\ Listed(Doc(p))' = Listed(Doc(p))
    BY <1>6 DEF Name, Doc, Listed
  <2>4. ListedBy(Name(p))' = ListedBy(Name(p))
    <3>1. ListedBy(Name(p))' = IF Reference(Name(p))' = None THEN {} ELSE Listed(Reference(Name(p)))'
      BY <1>1, <2>1, <2>3 DEF ListedBy, Dangling, NamesLead, Reference, Listed
    <3>2. Reference(Name(p))' = Reference(Name(p))
      BY <1>6, <2>3 DEF Reference
    <3>3. QED
      BY <1>1, <2>1, <3>1, <3>2, ListsReference DEF Listed
  <2>5. Noted(p)'
    BY <1>6, <2>1, <2>3, <2>4 DEF Noted
  <2>6. QED
    BY <1>1, <1>6, <2>1, <2>2, <2>3, <2>5, CleanKept DEF NamedBlob, Holds
<1>7. ASSUME NEW l \in Layers, Fetch(p, l) PROVE Clean'
  <2>1. l \in Listed(Doc(p))
    BY <1>2, <1>7 DEF Fetch, Noted, Listed
  <2>2. QED
    BY <1>1, <1>6, <1>7, <2>1 DEF Fetch, GoesOn, TypeOK
<1>8. CASE WriteBlob(p)
  BY <1>1, <1>6, <1>8 DEF WriteBlob, GoesOn, Goto, TypeOK, Listed
<1>9. CASE Link(p)
  <2>1. seen = {} /\ GoesOn(p) /\ Name(p) \in Names /\ Doc(p) \in Documents
    BY <1>1, <1>9 DEF Link, GoesOn, Goto, TypeOK, Types, InHand, Naming, Writing
  <2>2. v2' = [v2 EXCEPT ![Name(p)] = Doc(p)] /\ UNCHANGED <<blobs, legacy, job, cand>> /\ pc[p] = "link"
        /\ pc'[p] = "drop"
    BY <1>1, <1>9 DEF Link, Work, Goto, TypeOK
  <2>3. \A n \in Names : n # Name(p) => ListedBy(n)' = ListedBy(n)
    <3> SUFFICES ASSUME NEW n \in Names, n # Name(p) PROVE ListedBy(n)' = ListedBy(n)
      OBVIOUS
    <3>1. Reference(n)' = Reference(n)
      BY <1>1, <2>1, <2>2 DEF Reference, TypeOK
    <3>2. QED
      BY <1>1, <3>1, ListsSame
  <2>4. \E n \in Names : ListedBy(n)' = Listed(Doc(p))
    <3>1. PICK n \in Names : n = Name(p)
      BY <2>1
    <3>2. v2'[n] = Doc(p) /\ Reference(n)' = Doc(p)
      BY <1>1, <2>1, <2>2, <3>1, Constants DEF Reference, TypeOK
    <3>3. ListedBy(n)' = Listed(Reference(n)')
      BY <1>1, <2>1, <3>2, Constants DEF ListedBy, Dangling, NamesLead, Listed
    <3>4. QED
      BY <3>2, <3>3
  <2>5. Noted(p)'
    BY <2>2 DEF Noted
  <2>6. QED
    BY <1>1, <1>2, <2>1, <2>2, <2>3, <2>4, <2>5, CleanKept DEF NamedBlob, Holds, Noted
<1>10. ASSUME v2[Name(p)] = Doc(p), Doc(p) \in Documents, Name(p) \in Names, v2' = v2,
              \A n \in Names : n # Name(p) => legacy'[n] = legacy[n]
       PROVE  \A d : NamedBlob(d) => NamedBlob(d)'
  <2>1. \A n \in Names : Reference(n)' = Reference(n)
    BY <1>10, Constants DEF Reference
  <2>2. QED
    BY <1>1, <2>1, ListsSame DEF NamedBlob
<1>11. CASE Drop(p)
  <2>1. seen = {} /\ GoesOn(p) /\ Name(p) \in Names /\ Doc(p) \in Documents /\ pc[p] = "drop" /\ pc'[p] = "keep"
    BY <1>1, <1>11 DEF Drop, GoesOn, Goto, TypeOK, Types, InHand, Naming, Writing
  <2>2. \A d : NamedBlob(d) => NamedBlob(d)'
    BY <1>1, <1>2, <1>10, <1>11, <2>1 DEF Drop, Has, TypeOK
  <2>3. Noted(p)'
    BY <2>1 DEF Noted
  <2>4. QED
    BY <1>1, <1>2, <1>11, <2>1, <2>2, <2>3, CleanKept DEF Drop, Work, Holds
<1>12. CASE Keep(p)
  <2>1. seen = {} /\ Name(p) \in Names /\ Doc(p) \in Documents /\ pc[p] = "keep"
    BY <1>1, <1>12 DEF Keep, TypeOK, Types, InHand, Naming, Writing
  <2>2. UNCHANGED <<blobs, v2>> /\ legacy' = [legacy EXCEPT ![Name(p)] = Doc(p)]
    BY <1>12 DEF Keep
  <2>3. \A d : NamedBlob(d) => NamedBlob(d)'
    BY <1>1, <1>2, <1>10, <2>1, <2>2 DEF Has, TypeOK
  <2>4. CASE Prunes(p)
    BY <1>1, <1>2, <2>1, <2>2, <2>3, <2>4, PrunesClean
  <2>5. CASE Goto(p, "anchor") /\ UNCHANGED Work
    <3>1. GoesOn(p) /\ pc'[p] = "anchor" /\ cand' = cand
      BY <1>1, <2>1, <2>5 DEF GoesOn, Goto, Work, TypeOK
    <3>2. Noted(p)'
      BY <3>1 DEF Noted
    <3>3. QED
      BY <1>1, <1>2, <2>1, <2>2, <2>3, <3>1, <3>2, CleanKept DEF Holds
  <2>6. QED
    BY <1>12, <2>4, <2>5 DEF Keep
<1>13. CASE Anchor(p)
  <2>1. seen = {} /\ Name(p) \in Names /\ Doc(p) \in Documents /\ pc[p] = "anchor" /\ Prunes(p)
    BY <1>1, <1>13 DEF Anchor, TypeOK, Types, InHand, Naming, Writing
  <2>2. UNCHANGED <<blobs, v2>> /\ \A n \in Names : n # Name(p) => legacy'[n] = legacy[n]
    BY <1>1, <1>13 DEF Anchor, TypeOK
  <2>3. \A d : NamedBlob(d) => NamedBlob(d)'
    BY <1>2, <1>10, <2>1, <2>2 DEF Has
  <2>4. QED
    BY <1>1, <1>2, <2>1, <2>2, <2>3, PrunesClean
<1>14. CASE Unname(p)
  <2>1. seen = {} /\ pc[p] = "unname" /\ pc'[p] = "unlegacy" /\ GoesOn(p) /\ Name(p) \in Names
    BY <1>1, <1>14 DEF Unname, GoesOn, Goto, TypeOK, Types, InHand, Naming
  <2>2. v2' = [v2 EXCEPT ![Name(p)] = None] /\ UNCHANGED <<blobs, legacy, job, cand>>
    BY <1>14 DEF Unname, Work
  <2>3. \A n \in Names : n # Name(p) => ListedBy(n)' = ListedBy(n)
    <3> SUFFICES ASSUME NEW n \in Names, n # Name(p) PROVE ListedBy(n)' = ListedBy(n)
      OBVIOUS
    <3>1. Reference(n)' = Reference(n)
      BY <1>1, <2>1, <2>2 DEF Reference, TypeOK
    <3>2. QED
      BY <1>1, <3>1, ListsSame
  <2>4. ListedBy(Name(p)) \cap blobs \subseteq cand[p]
    BY <1>2, <2>1 DEF Noted
  <2>5. ListedBy(Name(p))' \subseteq ListedBy(Name(p))
    <3> DEFINE n == Name(p)
    <3>1. n \in Names /\ n' = n /\ v2'[n] = None /\ legacy' = legacy
      BY <1>1, <2>1, <2>2 DEF TypeOK, Name
    <3>2. v2[n] # None => legacy[n] \in {None, v2[n]}
      <4>1. \A q \in Actors : pc[q] # "drop"
        BY <1>1, <1>2, <2>1, AloneKept
      <4>2. QED
        BY <1>2, <2>1, <4>1 DEF Copies
    <3>3. ListedBy(n)' = IF legacy[n] = None THEN {} ELSE Listed(legacy[n])
      BY <3>1 DEF ListedBy, Dangling, Reference, Listed
    <3>4. ListedBy(n) = IF Reference(n) = None THEN {} ELSE Listed(Reference(n))
      BY <1>1, <3>1, ListsReference
    <3>5. legacy[n] # None => legacy[n] = Reference(n)
      BY <3>2 DEF Reference
    <3>6. QED
      BY <3>3, <3>4, <3>5
  <2>6. Noted(p)'
    BY <2>1, <2>2, <2>4, <2>5 DEF Noted
  <2>7. QED
    BY <1>1, <1>2, <2>1, <2>2, <2>3, <2>4, <2>6, CleanKept DEF NamedBlob, Holds
<1>15. CASE Unlegacy(p)
  <2>1. seen = {} /\ pc[p] = "unlegacy" /\ Prunes(p) /\ Name(p) \in Names
    BY <1>1, <1>15 DEF Unlegacy, Types, InHand, Naming
  <2>2. UNCHANGED <<blobs, v2>> /\ \A n \in Names : n # Name(p) => legacy'[n] = legacy[n]
    BY <1>1, <1>15 DEF Unlegacy, TypeOK
  <2>3. \A n \in Names : n # Name(p) => ListedBy(n)' = ListedBy(n)
    BY <1>1, <2>2, ListsSame DEF Reference
  <2>4. ListedBy(Name(p)) \cap blobs \subseteq cand[p]
    BY <1>2, <2>1 DEF Noted
  <2>5. QED
    BY <1>1, <1>2, <2>1, <2>2, <2>3, <2>4, PrunesClean DEF NamedBlob
<1>16. CASE FetchFails(p) \/ WriteFails(p)
  BY <1>16, Happened DEF FetchFails, WriteFails
<1>17. QED
  BY <1>3, <1>4, <1>5, <1>7, <1>8, <1>9, <1>11, <1>12, <1>13, <1>14, <1>15, <1>16 DEF Handle

LEMMA PruneTidy ==
  ASSUME Types, Safe, Safe', Undisturbed, Tidy, NEW p \in Actors, Prune(p)
  PROVE  Tidy'
<1> SUFFICES ASSUME seen' = {} PROVE Clean'
  BY DEF Tidy
<1>1. TypeOK /\ NamesLead /\ NamesLead'
  BY DEF Types, Safe
<1>2. ASSUME seen = {} PROVE Clean /\ Alone /\ Noted(p)
  BY <1>2 DEF Undisturbed, Whole, Tidy, Clean
<1>3. ASSUME v2' = v2, legacy' = legacy PROVE \A d : NamedBlob(d) => NamedBlob(d)'
  <2>1. \A n \in Names : Reference(n)' = Reference(n)
    BY <1>3 DEF Reference
  <2>2. QED
    BY <1>1, <2>1, ListsSame DEF NamedBlob
<1>4. ASSUME NEW unread \in SUBSET Linked, Retain(p, unread) PROVE Clean'
  <2>1. ~Blind(unread)
    BY <1>4, Happened DEF Retain
  <2>2. unread = {} /\ seen = {} /\ pc[p] = "retain" /\ pc'[p] = "remove" /\ GoesOn(p) /\ UNCHANGED Store
    BY <1>1, <1>4, <2>1 DEF Retain, Blind, GoesOn, Goto, TypeOK
  <2>3. cand' = [cand EXCEPT ![p] = @ \ Retained]
    BY <1>4, <2>1, <2>2 DEF Retain, Retained
  <2>4. \A q \in Actors : q # p => cand'[q] = cand[q]
    BY <1>1, <2>3 DEF TypeOK
  <2>5. \A d \in cand[p] : d \in cand'[p] \/ NamedBlob(d)
    BY <1>1, <2>3 DEF TypeOK, Retained, NamedBlob
  <2>6. Noted(p)'
    BY <2>2 DEF Noted
  <2>7. QED
    BY <1>2, <1>3, <2>2, <2>4, <2>5, <2>6, CleanKept DEF Store, Holds
<1>5. CASE RemoveEnds(p)
  <2>1. seen = {} /\ cand[p] = {} /\ pc[p] = "remove" /\ UNCHANGED Store /\ Ends(p)
    BY <1>5, Happened DEF RemoveEnds
  <2>2. cand' = cand /\ pc'[p] = "idle" /\ GoesOn(p)
    BY <1>1, <2>1 DEF Ends, Goto, GoesOn, TypeOK
  <2>3. Noted(p)'
    BY <2>1, <2>2 DEF Noted
  <2>4. QED
    BY <1>2, <1>3, <2>1, <2>2, <2>3, CleanKept DEF Store, Holds
<1>6. ASSUME NEW d \in Digests, Remove(p, d) PROVE Clean'
  <2>1. seen = {} /\ pc[p] = "remove" /\ pc' = pc /\ GoesOn(p) /\ UNCHANGED <<v2, legacy>> /\ blobs' = blobs \ {d}
    BY <1>6 DEF Remove, GoesOn
  <2>2. \A q \in Actors : q # p => cand'[q] = cand[q]
    BY <1>1, <1>6 DEF Remove, TypeOK
  <2>3. cand'[p] = cand[p] \ {d}
    BY <1>1, <1>6 DEF Remove, TypeOK
  <2>4. Noted(p)'
    BY <2>1 DEF Noted
  <2>5. QED
    BY <1>2, <1>3, <2>1, <2>2, <2>3, <2>4, CleanKept DEF Holds
<1>7. QED
  BY <1>4, <1>5, <1>6 DEF Prune

LEMMA TidyNext == Types /\ Safe /\ Safe' /\ Undisturbed /\ Tidy /\ [Next]_vars => Tidy'
<1> SUFFICES ASSUME Types, Safe, Safe', Undisturbed, Tidy, [Next]_vars PROVE Tidy'
  OBVIOUS
<1>1. TypeOK /\ NamesLead /\ NamesLead' /\ Boot \in Actors /\ (seen = {} => Clean /\ Alone /\ Noted(Boot))
  BY Constants DEF Types, Safe, Undisturbed, Whole, Tidy, Clean
<1>2. ASSUME NEW to, to \in {"idle", "retain"}, Goto(Boot, to), to = "idle" => cand' = cand, pc[Boot] = "boot",
             seen' = seen, UNCHANGED Store, \A q \in Actors : q # Boot => cand'[q] = cand[q]
      PROVE  Tidy'
  <2> SUFFICES ASSUME seen = {} PROVE Clean'
    BY <1>2 DEF Tidy
  <2>1. pc'[Boot] = to /\ GoesOn(Boot) /\ cand[Boot] = {}
    BY <1>1, <1>2 DEF Goto, GoesOn, TypeOK, Noted
  <2>2. Noted(Boot)'
    BY <1>2, <2>1 DEF Noted
  <2>3. \A d : NamedBlob(d) => NamedBlob(d)'
    BY <1>2 DEF NamedBlob, ListedBy, Dangling, Reference, Listed, Store
  <2>4. QED
    BY <1>1, <1>2, <2>1, <2>2, <2>3, CleanKept DEF Holds, Store
<1>3. ASSUME NEW old \in SUBSET blobs, BootSweeps(old) PROVE Tidy'
  BY <1>1, <1>2, <1>3 DEF BootSweeps, TypeOK
<1>4. CASE BootSkips
  BY <1>2, <1>4 DEF BootSkips, Work
<1>5. CASE Crash
  BY <1>5, Happened DEF Crash, Tidy
<1>6. CASE UNCHANGED vars
  BY <1>6 DEF vars, Tidy, Clean, Accounted, Noted, NamedBlob, Holds, ListedBy, Dangling, Reference, Listed, Name, Doc
<1>7. QED
  BY <1>3, <1>4, <1>5, <1>6, HandleTidy, PruneTidy DEF Next

LEMMA TidyInit == Init => Tidy
BY Constants DEF Init, Tidy, Clean, Accounted, Noted

\* Without a failure, what a pull, a create or a delete makes unused is removed
\* by it: a server at rest has no blob that no name lists.
THEOREM StoreTidied == Spec => []NothingLeftBehind
<1>1. ASSUME Types, Tidy PROVE NothingLeftBehind
  <2> SUFFICES ASSUME seen = {}, \A p \in Actors : pc[p] = "idle", NEW d \in blobs PROVE d \in Retained
    BY DEF NothingLeftBehind
  <2>1. \A p \in Actors : ~Holds(p, d)
    BY <1>1 DEF Tidy, Clean, Noted, Holds
  <2>2. QED
    BY <1>1, <2>1 DEF Tidy, Clean, Accounted, NamedBlob, Retained
<1>2. Types /\ Tidy => NothingLeftBehind
  BY <1>1
<1>3. QED
  BY <1>2, InvariantHolds, UndisturbedInit, UndisturbedNext, TidyInit, TidyNext, PTL DEF Spec
===============================================================================
