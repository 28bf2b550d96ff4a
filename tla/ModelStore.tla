----------------------------- MODULE ModelStore ------------------------------
(* The local model store: blobs and the manifests that name them.            *)
(*                                                                            *)
(* manifest/manifest.go writes, removes and prunes under manifestStoreMu;     *)
(* server/images.go (PullModel, CopyModel, PruneLayers) and server/create.go  *)
(* use it from handlers that run side by side, and hold the lock only inside  *)
(* one call: what they have read or fetched may be gone when they use it.     *)
(*                                                                            *)
(* A manifest is the set of layers it lists, and stands for its own digest.   *)
(* A name has a link to the manifest's blob in manifests-v2/ and a copy in    *)
(* manifests/ for an older ollama on the same store (legacy_keep.go).         *)
EXTENDS Naturals, FiniteSets

CONSTANTS
  Handlers,   \* requests that may be served at once
  Names,      \* model names
  Layers,     \* digests of layers
  Documents,  \* manifests
  Boot,       \* the sweep when a server starts
  None        \* no manifest; no holder of the lock

ASSUME DocumentsAssumption == Documents \subseteq SUBSET Layers
ASSUME BlobsAssumption == Layers \cap Documents = {}
ASSUME BootAssumption == Boot \notin Handlers
ASSUME NoneAssumption == None \notin Documents /\ None \notin Handlers \cup {Boot}

VARIABLES
  blobs,      \* the blob files
  v2,         \* the manifest that a name links to
  legacy,     \* the manifest in its copy
  mu,         \* the holder of manifestStoreMu
  pc,         \* where each handler is
  job,        \* its name and manifest, and what it does
  need,       \* layers that it has still to fetch
  cand,       \* blobs that it may remove: deleteMap, candidates
  seen        \* history: what has happened that leaves garbage or gaps

vars == <<blobs, v2, legacy, mu, pc, job, need, cand, seen>>

Actors == Handlers \cup {Boot}
Digests == Layers \cup Documents
Name(p) == job[p].name
Doc(p) == job[p].doc

\* resolveManifestPath: the link, or else the copy.
Resolved(n) == IF v2[n] # None /\ v2[n] \in blobs THEN v2[n] ELSE legacy[n]
Readable(n) == Resolved(n) # None

\* Names with a link.  A mount or a permission may make a link unreadable, and
\* readable again: which ones the system follows is chosen at each reading.
Linked == {n \in Names : v2[n] # None}

\* referencedBlobDigestsForData
Listed(d) == {d} \cup d

\* namedManifestRefs: the link of a name hides its copy, even one that dangles.
Reference(n) == IF v2[n] # None THEN v2[n] ELSE legacy[n]
Dangling(n) == v2[n] # None /\ v2[n] \notin blobs
ListedBy(n) == IF Reference(n) = None \/ Dangling(n) THEN {} ELSE Listed(Reference(n))

\* retainedBlobDigestsLocked
Retained == UNION {ListedBy(n) : n \in Names}

-----------------------------------------------------------------------------
(* The lock, and the ends of a handler.                                     *)

Goto(p, to) == pc' = [pc EXCEPT ![p] = to]
Store == <<blobs, v2, legacy>>
Work == <<job, need, cand>>
Unlock(p) == mu' = IF mu = p THEN None ELSE mu
\* "gap" goes on for ever, and excuses all that "trouble" does.
Happens(what) == seen' = IF "gap" \in seen \cup what THEN {"gap"} ELSE seen \cup what

NoJob == [op |-> "none", name |-> None, doc |-> None]

\* A handler is over, with or without an error.
Ends(p) ==
  /\ Goto(p, "idle") /\ Unlock(p)
  /\ need' = [need EXCEPT ![p] = {}] /\ cand' = [cand EXCEPT ![p] = {}]
  /\ job' = [job EXCEPT ![p] = NoJob]

\* A handler has only its candidates left to remove.
Prunes(p) ==
  IF cand[p] = {} THEN Ends(p)
  ELSE Goto(p, "retain") /\ Unlock(p) /\ job' = [job EXCEPT ![p] = NoJob] /\ UNCHANGED <<need, cand>>

\* A request is taken up by an idle handler of a server that has started.
Begins(p, op, n, d, at, layers, blobsToRemove, why) ==
  /\ pc[p] = "idle" /\ pc[Boot] = "idle" /\ mu = None
  /\ job' = [job EXCEPT ![p] = [op |-> op, name |-> n, doc |-> d]]
  /\ need' = [need EXCEPT ![p] = layers] /\ cand' = [cand EXCEPT ![p] = blobsToRemove]
  /\ Goto(p, at)
  /\ Happens(why \cup IF \A q \in Actors : pc[q] = "idle" THEN {} ELSE {"gap"})
  /\ UNCHANGED <<Store, mu>>

-----------------------------------------------------------------------------
(* Handlers.                                                                *)

\* Mutant of PullBegins: the blobs of the manifest before are not noted.
PullBeginsAfresh(p, n, d, follows) ==
  Begins(p, "pull", n, d, "fetch", d, {}, {})

\* PullModel: of the manifest before, the blobs that are there, less the layers
\* that it lists still; or none of them, when the link is not followed.  The
\* manifest is what the registry sends.
PullBegins(p, n, d, follows) ==
  /\ follows \/ n \in Linked
  /\ Begins(p, "pull", n, d, "fetch", d,
            IF follows /\ Readable(n) THEN (Listed(Resolved(n)) \cap blobs) \ d ELSE {},
            IF follows THEN {} ELSE {"trouble"})

\* CreateHandler: the same without a look at the blobs or the new layers.
CreateBegins(p, n, d, follows) ==
  /\ follows \/ n \in Linked
  /\ Begins(p, "write", n, d, "fetch", d,
            IF follows /\ Readable(n) THEN Listed(Resolved(n)) ELSE {},
            IF follows THEN {} ELSE {"trouble"})

\* CopyModel; what the name listed before is left to the sweep.
CopyBegins(p, n, to) ==
  /\ n # to /\ Readable(n)
  /\ Begins(p, "write", to, Resolved(n), "fetch", {}, {},
            IF Reference(to) # None THEN {"trouble"} ELSE {})

\* RemoveNamed
DeleteBegins(p, n) ==
  /\ Readable(n)
  /\ Begins(p, "delete", n, None, "unname", {}, Listed(Resolved(n)), {})

\* A layer is there already, or is downloaded, uploaded or made.
Fetch(p, l) ==
  /\ pc[p] = "fetch" /\ l \in need[p]
  /\ blobs' = blobs \cup {l}
  /\ need' = [need EXCEPT ![p] = @ \ {l}]
  /\ UNCHANGED <<v2, legacy, mu, pc, job, cand, seen>>

\* A download or an upload fails, or the client leaves.
FetchFails(p) ==
  /\ pc[p] = "fetch"
  /\ Ends(p) /\ Happens({"trouble"})
  /\ UNCHANGED Store

-----------------------------------------------------------------------------
(* writeManifestData, with manifestStoreMu.                                 *)

\* Mutant of WriteBlob: the manifest is written before its layers are there.
WriteBlobEarly(p) ==
  /\ pc[p] = "fetch" /\ mu = None
  /\ mu' = p /\ Goto(p, "link")
  /\ blobs' = blobs \cup {Doc(p)}
  /\ UNCHANGED <<v2, legacy, job, need, cand, seen>>

\* writeManifestBlob
WriteBlob(p) ==
  /\ pc[p] = "fetch" /\ need[p] = {} /\ mu = None
  /\ mu' = p /\ Goto(p, "link")
  /\ blobs' = blobs \cup {Doc(p)}
  /\ UNCHANGED <<v2, legacy, job, need, cand, seen>>

\* Mutant of Link: the link is made after the lock is let go.
LinkUnlocked(p) ==
  /\ pc[p] = "link"
  /\ IF mu = p
     THEN mu' = None /\ UNCHANGED <<v2, pc>>
     ELSE mu = None /\ mu' = p /\ v2' = [v2 EXCEPT ![Name(p)] = Doc(p)] /\ Goto(p, "drop")
  /\ UNCHANGED <<blobs, legacy, Work, seen>>

\* linkManifest: the name is replaced in one rename.
Link(p) ==
  /\ pc[p] = "link" /\ Doc(p) \in blobs
  /\ v2' = [v2 EXCEPT ![Name(p)] = Doc(p)]
  /\ Goto(p, "drop")
  /\ UNCHANGED <<blobs, legacy, mu, Work, seen>>

\* keepLegacyManifest: the old copy is removed, ...
Drop(p) ==
  /\ pc[p] = "drop"
  /\ legacy' = [legacy EXCEPT ![Name(p)] = None]
  /\ Goto(p, "keep")
  /\ UNCHANGED <<blobs, v2, mu, Work, seen>>

\* ... and the new one written.  What a handler does after the write.
Keep(p) ==
  /\ pc[p] = "keep"
  /\ legacy' = [legacy EXCEPT ![Name(p)] = Doc(p)]
  /\ IF job[p].op = "pull" THEN Goto(p, "anchor") /\ Unlock(p) /\ UNCHANGED Work
     ELSE Prunes(p)
  /\ UNCHANGED <<blobs, v2, seen>>

\* Mutant of WriteFails: an early return without the unlock.
WriteFailsLocked(p) ==
  /\ pc[p] \in {"link", "drop", "keep"}
  /\ Goto(p, "idle") /\ Happens({"trouble"})
  /\ UNCHANGED <<Store, mu, Work>>

\* The file system refuses one of them.  A copy of another manifest than the
\* one that is linked now may stay behind.
WriteFails(p) ==
  /\ pc[p] \in {"link", "drop", "keep"}
  /\ Ends(p)
  /\ Happens({IF pc[p] = "drop" THEN "gap" ELSE "trouble"})
  /\ UNCHANGED Store

\* writePullDowngradeAnchor: the copy once more, after the lock was let go.
Anchor(p) ==
  /\ pc[p] = "anchor" /\ mu = None
  /\ legacy' = IF Doc(p) \in blobs THEN [legacy EXCEPT ![Name(p)] = Doc(p)] ELSE legacy
  /\ Prunes(p)
  /\ UNCHANGED <<blobs, v2, seen>>

-----------------------------------------------------------------------------
(* removeNamedManifestPaths, without the lock.                              *)

Unname(p) ==
  /\ pc[p] = "unname"
  /\ v2' = [v2 EXCEPT ![Name(p)] = None]
  /\ Goto(p, "unlegacy")
  /\ UNCHANGED <<blobs, legacy, mu, Work, seen>>

Unlegacy(p) ==
  /\ pc[p] = "unlegacy"
  /\ legacy' = [legacy EXCEPT ![Name(p)] = None]
  /\ Prunes(p)
  /\ UNCHANGED <<blobs, v2, seen>>

-----------------------------------------------------------------------------
(* RemoveUnreferencedBlobs, with manifestStoreMu.                           *)

\* Mutant of Blind: an unreadable manifest is skipped like a damaged one.
BlindNever(unread) == FALSE

\* prune_guard.go: a link that the system does not follow.
Blind(unread) == unread # {}

\* What the names list is kept; or, when one cannot be read, everything is.
\* A manifest that cannot be read is not among Retained.
Retain(p, unread) ==
  /\ pc[p] = "retain" /\ mu = None
  /\ LET kept == UNION {ListedBy(n) : n \in Names \ unread} IN
       IF Blind(unread) THEN Ends(p) /\ Happens({"trouble"})
       ELSE /\ mu' = p /\ Goto(p, "remove")
            /\ cand' = [cand EXCEPT ![p] = @ \ kept]
            /\ UNCHANGED <<job, need, seen>>
  /\ UNCHANGED Store

Remove(p, d) ==
  /\ pc[p] = "remove" /\ d \in cand[p]
  /\ blobs' = blobs \ {d}
  /\ cand' = [cand EXCEPT ![p] = @ \ {d}]
  /\ UNCHANGED <<v2, legacy, mu, pc, job, need, seen>>

\* All are removed, or one cannot be.
RemoveEnds(p) ==
  /\ pc[p] = "remove"
  /\ Ends(p) /\ Happens(IF cand[p] = {} THEN {} ELSE {"trouble"})
  /\ UNCHANGED Store

-----------------------------------------------------------------------------
(* The system around it.                                                    *)

\* The server dies with whatever its handlers were doing, and starts again.
Crash ==
  /\ pc' = [p \in Actors |-> IF p = Boot THEN "boot" ELSE "idle"]
  /\ mu' = None
  /\ job' = [p \in Actors |-> NoJob]
  /\ need' = [p \in Actors |-> {}] /\ cand' = [p \in Actors |-> {}]
  /\ Happens({IF \E p \in Actors : pc[p] = "drop" THEN "gap" ELSE "trouble"})
  /\ UNCHANGED Store

\* Serve: with every manifest readable, PruneLayers takes the blobs that are
\* older than an hour, whichever those are.
BootSweeps(old) ==
  /\ pc[Boot] = "boot" /\ \A n \in Names : Reference(n) = None \/ Readable(n)
  /\ cand' = [cand EXCEPT ![Boot] = old] /\ Goto(Boot, "retain")
  /\ UNCHANGED <<Store, mu, job, need, seen>>

BootSkips ==
  /\ pc[Boot] = "boot" /\ \E n \in Names : Reference(n) # None /\ (n \in Linked \/ ~Readable(n))
  /\ Goto(Boot, "idle")
  /\ UNCHANGED <<Store, mu, Work, seen>>

-----------------------------------------------------------------------------
Init ==
  /\ blobs = {}
  /\ v2 = [n \in Names |-> None] /\ legacy = [n \in Names |-> None]
  /\ mu = None
  /\ pc = [p \in Actors |-> IF p = Boot THEN "boot" ELSE "idle"]
  /\ job = [p \in Actors |-> NoJob]
  /\ need = [p \in Actors |-> {}] /\ cand = [p \in Actors |-> {}]
  /\ seen = {}

Handle(p) ==
  \/ \E n \in Names, d \in Documents, follows \in BOOLEAN :
       PullBegins(p, n, d, follows) \/ CreateBegins(p, n, d, follows)
  \/ \E n, to \in Names : CopyBegins(p, n, to)
  \/ \E n \in Names : DeleteBegins(p, n)
  \/ \E l \in Layers : Fetch(p, l)
  \/ FetchFails(p)
  \/ WriteBlob(p) \/ Link(p) \/ Drop(p) \/ Keep(p) \/ WriteFails(p) \/ Anchor(p)
  \/ Unname(p) \/ Unlegacy(p)

Prune(p) ==
  \/ \E unread \in SUBSET Linked : Retain(p, unread)
  \/ RemoveEnds(p)
  \/ \E d \in Digests : Remove(p, d)

Next ==
  \/ \E p \in Handlers : Handle(p)
  \/ \E p \in Actors : Prune(p)
  \/ \E old \in SUBSET blobs : BootSweeps(old)
  \/ BootSkips \/ Crash

Spec == Init /\ [][Next]_vars

-----------------------------------------------------------------------------
(* Properties.                                                             *)

Jobs == [op : {"none", "pull", "write", "delete"},
         name : Names \cup {None}, doc : Documents \cup {None}]
Locked == {"link", "drop", "keep", "remove"}
Places == Locked \cup {"idle", "boot", "fetch", "anchor", "unname", "unlegacy", "retain"}

\* Types; and manifestStoreMu is held by the one who is in a section of it,
\* however that section ends.
TypeOK ==
  /\ blobs \subseteq Digests
  /\ v2 \in [Names -> Documents \cup {None}]
  /\ legacy \in [Names -> Documents \cup {None}]
  /\ mu \in Actors \cup {None}
  /\ pc \in [Actors -> Places]
  /\ job \in [Actors -> Jobs]
  /\ need \in [Actors -> SUBSET Layers]
  /\ cand \in [Actors -> SUBSET Digests]
  /\ \A p \in Actors : mu = p <=> pc[p] \in Locked

\* The link of a name leads to a manifest, in every interleaving and after
\* every crash: writeManifestData and the prune exclude each other.
NamesLead == \A n \in Names : v2[n] # None => v2[n] \in blobs

\* A request that is not disturbed by another, however the server dies and
\* whatever the file system refuses, leaves no name without a layer: all
\* layers are there before the name is.
\* (A "gap" is two requests at once; or a write that was cut off and left the
\* copy of the manifest before: a delete that is cut off in turn brings that
\* one back, without its blobs.)
NamedComplete ==
  "gap" \notin seen =>
    \A n \in Names : v2[n] # None => Listed(v2[n]) \subseteq blobs

\* Without a failure nothing is left that no name lists: what a pull, a create
\* or a delete makes unused is removed by it.
NothingLeftBehind ==
  seen = {} /\ (\A p \in Actors : pc[p] = "idle") => blobs \subseteq Retained

\* A prune, by whichever request or by a server that starts, takes no blob
\* that a name lists, be its manifest readable or not, unless that name is
\* itself being deleted (prune_guard.go: "A model whose manifest cannot be
\* READ still owns its blobs").
BeingDeleted(n) == \E p \in Actors : pc[p] = "unlegacy" /\ Name(p) = n
ListedKept ==
  [][\A n \in Names : ~BeingDeleted(n) => ListedBy(n) \cap blobs \subseteq blobs']_vars

=============================================================================
