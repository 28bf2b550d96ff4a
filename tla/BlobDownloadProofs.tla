------------------------- MODULE BlobDownloadProofs -------------------------
(* Proofs about BlobDownload: types, one writer, and that a download which   *)
(* knows all parts publishes all bytes, for any number of pulls, parts,      *)
(* crashes and failures.                                                     *)
EXTENDS BlobDownload, FiniteSetTheorems, TLAPS

-----------------------------------------------------------------------------
(* The inductive invariant.                                                *)

Preparing == {"idle", "store", "prepare", "head", "newPart"}
BeforeChunks == {"start", "open", "url"}
Working == BeforeChunks \cup {"chunks", "remove"}

Waiters(d) == {p \in Pullers : pc[p] = "wait" /\ obj[p] = d}

\* references counts the callers of Wait.
Counted == \A d \in Pullers : references[d] = Cardinality(Waiters(d))

\* The goroutine of a download starts after its Prepare, and removes nothing
\* before the parts are there.
RunAfterPrepare ==
  \A d \in Pullers :
    /\ pc[d] \in Preparing => run[d] = "none"
    /\ run[d] \in {"none", "chunks"} \cup BeforeChunks => removed[d] = 0

\* A Prepare that found no part files makes them in order.
NewParts ==
  \A p \in Pullers :
    /\ pc[p] = "head" =>
         \A i \in Parts : partFiles[i] = "absent" /\ parts[p][i] = "unknown"
    /\ pc[p] = "newPart" =>
         \E n \in Parts : \A i \in Parts :
           /\ parts[p][i] = IF i < n THEN "fetch" ELSE "unknown"
           /\ i < n => partFiles[i] # "absent"
           /\ i > n => partFiles[i] = "absent"
           /\ partFiles[i] # "done"

\* A download knows the part files that exist; those it knows exist until it
\* removes them.
KnownFiles ==
  \A d \in Pullers :
    /\ run[d] \in Working =>
         \A i \in Parts : partFiles[i] # "absent" => i \in Known(d)
    /\ run[d] \in BeforeChunks \cup {"chunks"} =>
         \A i \in Known(d) : partFiles[i] # "absent"

\* What a goroutine says of its part is so, as long as no part is missing.
CopiedBytes ==
  \A d \in Pullers, i \in Parts : parts[d][i] = "copied" =>
    /\ run[d] \notin BeforeChunks
    /\ run[d] = "chunks" => partial[i] \in Written

CompleteBytes ==
  \A d \in Pullers : run[d] \in Working /\ Known(d) = Parts =>
    \A i \in Parts : parts[d][i] = "complete" => partial[i] \in Written

RemovedFiles ==
  \A d \in Pullers : run[d] = "remove" =>
    /\ \A j \in Parts : j < removed[d] => partFiles[j] = "absent"
    /\ \A i \in Known(d) : parts[d][i] = "complete"

Files ==
  /\ RunAfterPrepare /\ NewParts /\ KnownFiles /\ CopiedBytes
  /\ CompleteBytes /\ RemovedFiles /\ RecordedBytes

IInv == TypeOK /\ Counted /\ OneWriter /\ Files

-----------------------------------------------------------------------------
(* Lemmas about the helpers.                                               *)

\* Parts are the numbers below NParts, and there is one.
LEMMA PartsFacts ==
  /\ NParts \in Nat /\ NParts > 0
  /\ Parts = 0..(NParts - 1) /\ 0 \in Parts
  /\ IsFiniteSet(Parts) /\ Cardinality(Parts) = NParts
<1>1. NParts \in Nat /\ NParts > 0 BY ConstantsAssumption
<1>2. IsFiniteSet(0..(NParts - 1)) /\ Cardinality(0..(NParts - 1)) = NParts
  BY <1>1, FS_Interval
<1> QED BY <1>1, <1>2 DEF Parts

\* The total of a download is a number of parts, all of them if it knows all.
LEMMA TotalFacts ==
  ASSUME NEW d \in Pullers
  PROVE  /\ Total(d) \in 0..NParts
         /\ Known(d) = Parts => Total(d) = NParts
         /\ Total(d) = 0 => Known(d) = {}
<1>1. Known(d) \subseteq Parts BY DEF Known
<1>2. IsFiniteSet(Known(d)) /\ Cardinality(Known(d)) <= NParts
  BY <1>1, PartsFacts, FS_Subset
<1>3. Cardinality(Known(d)) \in Nat BY <1>2, FS_CardinalityType
<1>4. Cardinality(Known(d)) = 0 => Known(d) = {} BY <1>2, FS_EmptySet
<1> QED BY <1>2, <1>3, <1>4, PartsFacts DEF Total

\* The next part is the first that newPart has not made.
LEMMA NextPartFacts ==
  ASSUME NEW p \in Pullers, NEW n \in Parts,
         \A i \in Parts : parts[p][i] = IF i < n THEN "fetch" ELSE "unknown"
  PROVE  NextPart(p) = n
<1>1. Known(p) = 0..(n - 1) BY PartsFacts DEF Known
<1>2. n \in Nat BY PartsFacts
<1> QED BY <1>1, <1>2, FS_Interval DEF NextPart, Total

\* The bytes that are there stay there when a file is written or made longer.
LEMMA BytesStay ==
  ASSUME NEW i \in Parts, partial[i] \in Written
  PROVE  /\ Truncated(partial, NParts)[i] = partial[i]
         /\ \A j \in Parts, b \in Written : WrittenAt(partial, j, b)[i] \in Written
BY PartsFacts DEF Truncated, WrittenAt, Written

LEMMA FileTypes ==
  ASSUME partial \in [Parts -> Bytes]
  PROVE  /\ \A n \in 0..NParts : Truncated(partial, n) \in [Parts -> Bytes]
         /\ \A j \in Parts, b \in Written : WrittenAt(partial, j, b) \in [Parts -> Bytes]
         /\ Empty \in [Parts -> Bytes]
         /\ \A j \in Parts, b \in Written : WrittenAt(partial, j, b)[j] = b
         /\ \A j \in Parts : Completed(j) \subseteq Written
BY PartsFacts DEF Truncated, WrittenAt, Written, Bytes, Empty, Served, Completed

-----------------------------------------------------------------------------
(* What most steps leave alone.                                            *)

\* The waiters are the same.
LEMMA CountedFrame ==
  ASSUME Counted, references' = references,
         \A p \in Pullers : pc'[p] = "wait" <=> pc[p] = "wait",
         \A p \in Pullers : pc[p] = "wait" => obj'[p] = obj[p]
  PROVE  Counted'
<1>1. \A d \in Pullers : Waiters(d)' = Waiters(d) BY DEF Waiters
<1> QED BY <1>1 DEF Counted

\* A puller moves on, outside Prepare.
LEMMA PullerFrame ==
  ASSUME Files, UNCHANGED <<partial, partFiles, run, parts, removed>>,
         \A p \in Pullers : pc'[p] \in {"head", "newPart"} => pc'[p] = pc[p],
         \A p \in Pullers : pc'[p] \in Preparing => pc[p] \in Preparing
  PROVE  Files'
<1>1. RunAfterPrepare' BY DEF Files, RunAfterPrepare
<1>2. NewParts' BY DEF Files, NewParts
<1>3. KnownFiles' /\ CopiedBytes' /\ CompleteBytes' /\ RemovedFiles' /\ RecordedBytes'
  BY DEF Files, KnownFiles, CopiedBytes, CompleteBytes, RemovedFiles, RecordedBytes, Known
<1> QED BY <1>1, <1>2, <1>3 DEF Files

\* The goroutine of a download goes on its way out.
LEMMA LeavesFrame ==
  ASSUME TypeOK, Files, UNCHANGED <<partial, partFiles, parts, removed, pc>>,
         NEW d \in Pullers, run[d] \notin {"none", "ended"},
         NEW label \in {"delete", "close"}, run' = [run EXCEPT ![d] = label]
  PROVE  Files'
<1> USE DEF TypeOK
<1>1. RunAfterPrepare' BY DEF Files, RunAfterPrepare, BeforeChunks
<1>2. NewParts' BY DEF Files, NewParts
<1>3. KnownFiles' BY DEF Files, KnownFiles, Known, Working, BeforeChunks
<1>4. CopiedBytes' BY DEF Files, CopiedBytes, BeforeChunks
<1>5. CompleteBytes' BY DEF Files, CompleteBytes, Known, Working, BeforeChunks
<1>6. RemovedFiles' BY DEF Files, RemovedFiles, Known
<1>7. RecordedBytes' BY DEF Files, RecordedBytes
<1> QED BY <1>1, <1>2, <1>3, <1>4, <1>5, <1>6, <1>7 DEF Files

\* Next to the download in the manager no other touches the files.
LEMMA Alone ==
  ASSUME OneWriter, NEW d \in Pullers, Active(d), NEW e \in Pullers, e # d
  PROVE  ~Active(e)
BY DEF OneWriter

\* While a download works on the files no other does, and nobody prepares one.
LEMMA Busy ==
  ASSUME OneWriter, RunAfterPrepare, NEW d \in Pullers, run[d] \in Working
  PROVE  /\ \A e \in Pullers : run[e] \in Working => e = d
         /\ \A p \in Pullers : pc[p] \notin {"prepare", "head", "newPart"}
BY DEF OneWriter, RunAfterPrepare, Active, Working, BeforeChunks, Preparing

-----------------------------------------------------------------------------
(* Types.                                                                  *)

\* A waiter is counted.
LEMMA WaiterCounted ==
  ASSUME TypeOK, Counted, NEW p \in Pullers, pc[p] = "wait"
  PROVE  /\ obj[p] \in Pullers /\ references[obj[p]] \in Nat \ {0}
         /\ IsFiniteSet(Waiters(obj[p])) /\ p \in Waiters(obj[p])
<1>1. obj[p] \in Pullers /\ references[obj[p]] \in Nat BY DEF TypeOK
<1>2. p \in Waiters(obj[p]) BY DEF Waiters
<1>3. IsFiniteSet(Waiters(obj[p]))
  BY ConstantsAssumption, FS_Subset DEF Waiters
<1>4. Cardinality(Waiters(obj[p])) # 0 BY <1>2, <1>3, FS_EmptySet
<1> QED BY <1>1, <1>2, <1>3, <1>4 DEF Counted

LEMMA ReleaseType ==
  ASSUME TypeOK, Counted, NEW p \in Pullers, pc[p] = "wait", Release(obj[p])
  PROVE  references' \in [Pullers -> Nat] /\ cancelled' \subseteq Pullers
<1>1. obj[p] \in Pullers /\ references[obj[p]] - 1 \in Nat BY WaiterCounted
<1>2. references' \in [Pullers -> Nat] BY <1>1 DEF TypeOK, Release
<1>3. cancelled' \subseteq Pullers BY <1>1 DEF TypeOK, Release
<1> QED BY <1>2, <1>3

\* A puller that returns holds nothing.
LEMMA ReturnType ==
  ASSUME TypeOK, NEW p \in Pullers, NEW value \in {"success", "failed", "canceled"},
         Return(p, value), UNCHANGED <<partial, partFiles, parts, removed, err, run, crashes>>,
         published' \in BOOLEAN, blob' \in [Parts -> Bytes],
         manifests' \subseteq Pullers, manager' \in Pullers \cup {NoPuller},
         UNCHANGED <<obj, ctxDone>>,
         references' \in [Pullers -> Nat], cancelled' \subseteq Pullers
  PROVE  TypeOK'
BY DEF TypeOK, Return

\* A puller outside Prepare goes on to a place where it holds nothing.
LEMMA GoToType ==
  ASSUME TypeOK, NEW p \in Pullers, NEW label \in {"store", "verify", "discard", "write"},
         GoTo(p, label),
         UNCHANGED <<disk, manager, obj, result, ctxDone, run, parts, removed, err, crashes>>,
         references' \in [Pullers -> Nat], cancelled' \subseteq Pullers
  PROVE  TypeOK'
BY DEF TypeOK, GoTo, disk

\* Prepare fails.
LEMMA PrepareFailsType ==
  ASSUME TypeOK, NEW p \in Pullers, NEW error \in {"failed", "canceled"},
         PrepareFails(p, error), UNCHANGED <<disk, obj, ctxDone, downloads, crashes>>
  PROVE  TypeOK'
BY DEF TypeOK, PrepareFails, Return, disk, downloads

\* Prepare ends.
LEMMA PreparedType ==
  ASSUME TypeOK, NEW p \in Pullers, pc[p] \in {"prepare", "head", "newPart"}, Prepared(p),
         UNCHANGED <<published, blob, partial, manifests, obj, ctxDone,
                     removed, err, references, cancelled, crashes>>,
         partFiles' \in [Parts -> Records],
         parts' \in [Pullers -> [Parts -> {"unknown", "fetch", "copied", "interrupted",
                                           "complete", "failed"}]]
  PROVE  TypeOK'
BY DEF TypeOK, Prepared, GoTo, RunTo

LEMMA PullerType ==
  ASSUME TypeOK, Counted, NEW p \in Pullers, PullerStep(p) \/ Cancel(p)
  PROVE  TypeOK'
<1> USE ConstantsAssumption DEF TypeOK
<1>1. CASE Stat(p)
  <2>1. UNCHANGED <<disk, manager, obj, ctxDone, downloads, crashes>> BY <1>1 DEF Stat
  <2>2. \/ GoTo(p, "store") /\ UNCHANGED result
        \/ Return(p, "success")
        \/ GoTo(p, "write") /\ UNCHANGED result
    BY <1>1, Zenon DEF Stat
  <2> QED BY <2>1, <2>2, ReturnType, GoToType DEF disk, downloads
<1>2. CASE LoadOrStore(p)
  BY <1>2 DEF LoadOrStore, GoTo, disk, pullers, downloads
<1>3. CASE ReadParts(p)
  <2>1. UNCHANGED <<disk, obj, ctxDone, removed, err, references, cancelled, crashes>>
    BY <1>3 DEF ReadParts
  <2>2. CASE PrepareFails(p, "failed") /\ UNCHANGED <<run, parts>>
    BY <2>1, <2>2, PrepareFailsType DEF downloads
  <2>3. CASE parts' = [parts EXCEPT ![p] = [i \in Parts |-> PartRead(i)]]
    <3>1. \A i \in Parts : PartRead(i) \in {"unknown", "fetch", "complete"} BY DEF PartRead
    <3>2. parts' \in [Pullers -> [Parts -> {"unknown", "fetch", "copied", "interrupted",
                                            "complete", "failed"}]]
      BY <2>3, <3>1
    <3>3. CASE GoTo(p, "head") /\ UNCHANGED <<manager, result, run>>
      BY <1>3, <2>1, <3>2, <3>3 DEF ReadParts, GoTo, disk
    <3>4. CASE Prepared(p)
      BY <1>3, <2>1, <3>2, <3>4, PreparedType DEF ReadParts, disk
    <3> QED BY <1>3, <2>2, <3>3, <3>4, Zenon DEF ReadParts
  <2> QED BY <1>3, <2>2, <2>3, Zenon DEF ReadParts
<1>4. CASE HeadAnswers(p)
  <2>1. CASE GoTo(p, "newPart") /\ UNCHANGED <<manager, result, run>>
    BY <1>4, <2>1 DEF HeadAnswers, GoTo, disk
  <2>2. CASE Prepared(p)
    BY <1>4, <2>2, PreparedType DEF HeadAnswers, disk
  <2> QED BY <1>4, <2>1, <2>2, Zenon DEF HeadAnswers
<1>5. CASE HeadFails(p)
  BY <1>5, PrepareFailsType DEF HeadFails
<1>6. CASE CreatePart(p)
  BY <1>6 DEF CreatePart, pullers, downloads, Records
<1>7. CASE EncodePart(p)
  <2>1. /\ partFiles' \in [Parts -> Records]
        /\ parts' \in [Pullers -> [Parts -> {"unknown", "fetch", "copied", "interrupted",
                                             "complete", "failed"}]]
    BY <1>7 DEF EncodePart, PartTo, Records
  <2>2. CASE Prepared(p)
    BY <1>7, <2>1, <2>2, PreparedType DEF EncodePart
  <2>3. CASE UNCHANGED <<manager, pc, result, run>>
    BY <1>7, <2>1, <2>3 DEF EncodePart
  <2> QED BY <1>7, <2>2, <2>3, Zenon DEF EncodePart
<1>8. CASE NewPartFails(p)
  BY <1>8, PrepareFailsType DEF NewPartFails
<1>9. CASE Acquire(p)
  BY <1>9 DEF Acquire, GoTo, disk, pullers, downloads
<1>10. CASE WaitDone(p)
  <2>1. /\ references' \in [Pullers -> Nat] /\ cancelled' \subseteq Pullers
        /\ manager' = manager /\ err[obj[p]] \in {"nil", "canceled", "failed"}
    BY <1>10, ReleaseType, WaiterCounted DEF WaitDone, Release
  <2>2. UNCHANGED <<disk, obj, ctxDone, run, parts, removed, err, crashes>>
    BY <1>10 DEF WaitDone
  <2>3. \/ err[obj[p]] # "nil" /\ Return(p, err[obj[p]])
        \/ Return(p, "success")
        \/ GoTo(p, "verify") /\ UNCHANGED result
    BY <1>10, Zenon DEF WaitDone
  <2>4. CASE err[obj[p]] # "nil" /\ Return(p, err[obj[p]])
    <3>1. PICK value \in {"success", "failed", "canceled"} : Return(p, value) BY <2>1, <2>4
    <3> QED BY <2>1, <2>2, <3>1, ReturnType DEF disk
  <2>5. CASE Return(p, "success")
    BY <2>1, <2>2, <2>5, ReturnType DEF disk
  <2>6. CASE GoTo(p, "verify") /\ UNCHANGED result
    BY <2>1, <2>2, <2>6, GoToType DEF disk
  <2> QED BY <2>3, <2>4, <2>5, <2>6, Zenon
<1>11. CASE WaitCancelled(p)
  <2>1. references' \in [Pullers -> Nat] /\ cancelled' \subseteq Pullers /\ manager' = manager
    BY <1>11, ReleaseType DEF WaitCancelled, Release
  <2> QED BY <1>11, <2>1, ReturnType DEF WaitCancelled, disk
<1>12. CASE Verify(p)
  <2>1. UNCHANGED <<disk, manager, obj, ctxDone, downloads, crashes>> BY <1>12 DEF Verify
  <2>2. \/ Return(p, "failed")
        \/ GoTo(p, "write") /\ UNCHANGED result
        \/ GoTo(p, "discard") /\ UNCHANGED result
    BY <1>12, Zenon DEF Verify
  <2> QED BY <2>1, <2>2, ReturnType, GoToType DEF disk, downloads
<1>13. CASE Discard(p)
  BY <1>13, FileTypes, ReturnType DEF Discard, downloads
<1>14. CASE WriteManifest(p)
  BY <1>14, ReturnType DEF WriteManifest, downloads
<1>15. CASE Cancel(p)
  BY <1>15 DEF Cancel, disk, pullers, downloads
<1> QED BY <1>1, <1>2, <1>3, <1>4, <1>5, <1>6, <1>7, <1>8, <1>9, <1>10, <1>11, <1>12, <1>13, <1>14, <1>15 DEF PullerStep, PrepareStep

LEMMA ChunkType ==
  ASSUME TypeOK, NEW d \in Pullers, NEW i \in Parts, ChunkStep(d, i)
  PROVE  TypeOK'
<1> USE DEF TypeOK
<1>1. CASE CopyAll(d, i)
  BY <1>1, FileTypes DEF CopyAll, PartTo, disk, pullers, downloads
<1>2. CASE CopySome(d, i)
  BY <1>2 DEF CopySome, PartTo, disk, pullers, downloads
<1>3. CASE ChunkGivesUp(d, i)
  BY <1>3 DEF ChunkGivesUp, ChunkError, PartTo, disk, pullers, downloads
<1>4. CASE ChunkCancelled(d, i)
  BY <1>4 DEF ChunkCancelled, ChunkError, PartTo, disk, pullers, downloads
<1>5. CASE TruncatePart(d, i)
  BY <1>5 DEF TruncatePart, disk, pullers, downloads, Records
<1>6. CASE RecordPart(d, i)
  <2>1. CASE ChunkError(d, i, "canceled")
    BY <1>6, <2>1 DEF RecordPart, ChunkError, PartTo, disk, pullers, downloads, Records
  <2>2. CASE PartTo(d, i, IF parts[d][i] = "copied" THEN "complete" ELSE "fetch") /\ UNCHANGED err
    BY <1>6, <2>2 DEF RecordPart, ChunkError, PartTo, disk, pullers, downloads, Records
  <2> QED BY <1>6, <2>1, <2>2 DEF RecordPart
<1>7. CASE RecordFails(d, i)
  BY <1>7 DEF RecordFails, ChunkError, PartTo, disk, pullers, downloads
<1> QED BY <1>1, <1>2, <1>3, <1>4, <1>5, <1>6, <1>7 DEF ChunkStep

LEMMA RunType ==
  ASSUME TypeOK, NEW d \in Pullers, RunStep(d)
  PROVE  TypeOK'
<1> USE DEF TypeOK
<1>1. CASE StartRun(d)
  BY <1>1 DEF StartRun, RunTo, disk, pullers, downloads
<1>2. CASE OpenPartial(d)
  BY <1>2, FileTypes, TotalFacts DEF OpenPartial, RunTo, disk, pullers, downloads
<1>3. CASE OpenFails(d)
  BY <1>3 DEF OpenFails, Fails, RunTo, disk, pullers, downloads
<1>4. CASE DirectURL(d)
  BY <1>4 DEF DirectURL, RunTo, disk, pullers, downloads
<1>5. CASE DirectURLFails(d)
  BY <1>5 DEF DirectURLFails, Fails, RunTo, disk, pullers, downloads
<1>6. CASE Gathered(d)
  BY <1>6 DEF Gathered, RunTo, disk, pullers, downloads
<1>7. CASE RemovePart(d)
  <2>1. CASE partFiles[removed[d]] = "absent"
    BY <1>7, <2>1, TotalFacts, PartsFacts DEF RemovePart, Fails, RunTo, disk, pullers, downloads
  <2>2. CASE partFiles[removed[d]] # "absent"
    <3>1. removed[d] + 1 \in 0..NParts
      BY <1>7, TotalFacts, PartsFacts DEF RemovePart
    <3> QED BY <1>7, <2>2, <3>1 DEF RemovePart, disk, pullers, downloads, Records
  <2> QED BY <1>7, <2>1, <2>2 DEF RemovePart
<1>8. CASE Rename(d)
  BY <1>8, FileTypes DEF Rename, RunTo, disk, pullers, downloads
<1>9. CASE Delete(d)
  BY <1>9 DEF Delete, RunTo, disk, pullers, downloads
<1>10. CASE Close(d)
  BY <1>10, PartsFacts DEF Close, RunTo, Forget, NoParts, disk, pullers, downloads
<1> QED BY <1>1, <1>2, <1>3, <1>4, <1>5, <1>6, <1>7, <1>8, <1>9, <1>10 DEF RunStep

\* A prune only takes part files away; while they are all there, the bytes of
\* a part recorded as complete are there too, or said to be pruned.
LEMMA PruneFacts ==
  ASSUME TypeOK, Prune
  PROVE  /\ \A i \in Parts : partFiles'[i] \in {"absent", partFiles[i]}
         /\ partFiles' \in [Parts -> Records]
         /\ partial' \in {PartialKept, PartialGone}
         /\ partial' \in [Parts -> Bytes]
<1>1. /\ \A i \in Parts : partFiles'[i] \in {"absent", partFiles[i]}
      /\ partFiles' \in [Parts -> Records]
  <2>1. CASE partFiles' = partFiles BY <2>1 DEF TypeOK
  <2>2. CASE partFiles' # partFiles
    <3>1. PICK old \in SUBSET Parts :
            partFiles' = [i \in Parts |-> IF i \in old THEN "absent" ELSE partFiles[i]]
      BY <2>2 DEF Prune
    <3> QED BY <3>1 DEF TypeOK, Records
  <2> QED BY <2>1, <2>2
<1>2. partial' \in {PartialKept, PartialGone} BY DEF Prune
<1>3. PartialKept \in [Parts -> Bytes] /\ PartialGone \in [Parts -> Bytes]
  BY DEF PartialKept, PartialGone, Bytes, TypeOK
<1> QED BY <1>1, <1>2, <1>3

LEMMA PruneType ==
  ASSUME TypeOK, Prune
  PROVE  /\ published' \in BOOLEAN /\ blob' \in [Parts -> Bytes]
         /\ partial' \in [Parts -> Bytes]
         /\ partFiles' \in [Parts -> Records]
<1>1. Empty \in [Parts -> Bytes] BY DEF Empty, Bytes
<1>2. UNCHANGED <<published, blob>> \/ (published' = FALSE /\ blob' = Empty) BY DEF Prune
<1> QED BY <1>1, <1>2, PruneFacts DEF TypeOK

LEMMA RestartType ==
  ASSUME TypeOK, Restart
  PROVE  TypeOK'
BY ConstantsAssumption, PartsFacts, PruneType DEF TypeOK, Restart, NoParts

\* Types are kept by every step.
LEMMA TypeStep ==
  ASSUME TypeOK, Counted, [Next]_vars
  PROVE  TypeOK'
<1>1. CASE Next BY <1>1, PullerType, ChunkType, RunType, RestartType DEF Next
<1>2. CASE UNCHANGED vars
  BY <1>2 DEF TypeOK, vars, disk, pullers, downloads
<1> QED BY <1>1, <1>2

-----------------------------------------------------------------------------
(* references.                                                             *)

\* A waiter that leaves is taken off.
LEMMA ReleaseCounts ==
  ASSUME TypeOK, Counted, NEW p \in Pullers, pc[p] = "wait", Release(obj[p]), obj' = obj,
         \E label \in {"verify", "end"} : GoTo(p, label)
  PROVE  Counted'
<1>1. Waiters(obj[p])' = Waiters(obj[p]) \ {p} BY DEF Waiters, GoTo, TypeOK
<1>2. \A d \in Pullers : d # obj[p] => Waiters(d)' = Waiters(d)
  BY DEF Waiters, GoTo, TypeOK
<1>3. Cardinality(Waiters(obj[p]) \ {p}) = Cardinality(Waiters(obj[p])) - 1
  BY WaiterCounted, FS_RemoveElement
<1>4. references' = [references EXCEPT ![obj[p]] = @ - 1] BY DEF Release
<1> QED BY <1>1, <1>2, <1>3, <1>4, WaiterCounted DEF Counted, TypeOK

LEMMA CountedStep ==
  ASSUME TypeOK, Counted, [Next]_vars
  PROVE  Counted'
<1>1. ASSUME NEW p \in Pullers, Acquire(p)
      PROVE  Counted'
  <2>1. obj[p] \in Pullers BY <1>1 DEF Acquire, TypeOK
  <2>2. Waiters(obj[p])' = Waiters(obj[p]) \cup {p} /\ p \notin Waiters(obj[p])
    BY <1>1 DEF Waiters, Acquire, GoTo, TypeOK
  <2>3. \A d \in Pullers : d # obj[p] => Waiters(d)' = Waiters(d)
    BY <1>1 DEF Waiters, Acquire, GoTo, TypeOK
  <2>4. IsFiniteSet(Waiters(obj[p])) BY ConstantsAssumption, FS_Subset DEF Waiters
  <2>5. Cardinality(Waiters(obj[p]) \cup {p}) = Cardinality(Waiters(obj[p])) + 1
    BY <2>2, <2>4, FS_AddElement
  <2> QED BY <1>1, <2>1, <2>2, <2>3, <2>5 DEF Acquire, Counted, TypeOK
<1>2. ASSUME NEW p \in Pullers, WaitDone(p) \/ WaitCancelled(p)
      PROVE  Counted'
  <2>1. pc[p] = "wait" /\ Release(obj[p]) /\ obj' = obj BY <1>2 DEF WaitDone, WaitCancelled
  <2>2. \E label \in {"verify", "end"} : GoTo(p, label)
    <3>1. CASE WaitDone(p)
      <4>1. Return(p, err[obj[p]]) \/ Return(p, "success") \/ GoTo(p, "verify")
        BY <3>1, Zenon DEF WaitDone
      <4> QED BY <4>1 DEF Return, GoTo
    <3>2. CASE WaitCancelled(p) BY <3>2 DEF WaitCancelled, Return, GoTo
    <3> QED BY <1>2, <3>1, <3>2
  <2> QED BY <2>1, <2>2, ReleaseCounts
<1>3. ASSUME NEW p \in Pullers,
             Stat(p) \/ PrepareStep(p) \/ Verify(p) \/ Discard(p) \/ WriteManifest(p)
      PROVE  Counted'
  <2>1. references' = references /\ obj' = obj
    BY <1>3 DEF Stat, PrepareStep, Verify, Discard, WriteManifest, ReadParts, HeadAnswers,
                HeadFails, CreatePart, EncodePart, NewPartFails, pullers, downloads
  <2>2. pc[p] # "wait"
    BY <1>3 DEF Stat, PrepareStep, Verify, Discard, WriteManifest, ReadParts, HeadAnswers,
                HeadFails, CreatePart, EncodePart, NewPartFails
  <2>3. (\E label \in {"store", "head", "newPart", "acquire", "discard", "write", "end"} :
           GoTo(p, label)) \/ UNCHANGED pc
    <3>1. CASE Stat(p)
      <4>1. GoTo(p, "store") \/ Return(p, "success") \/ GoTo(p, "write") BY <3>1, Zenon DEF Stat
      <4> QED BY <4>1 DEF Return, GoTo
    <3>2. CASE Verify(p)
      <4>1. Return(p, "failed") \/ GoTo(p, "discard") \/ GoTo(p, "write") BY <3>2, Zenon DEF Verify
      <4> QED BY <4>1 DEF Return, GoTo
    <3>3. CASE PrepareStep(p)
      <4>1. \/ \E error \in {"failed", "canceled"} : PrepareFails(p, error)
            \/ Prepared(p) \/ GoTo(p, "head") \/ GoTo(p, "newPart") \/ UNCHANGED pc
        BY <3>3 DEF PrepareStep, ReadParts, HeadAnswers, HeadFails, CreatePart, EncodePart,
                    NewPartFails, pullers
      <4> QED BY <4>1 DEF PrepareFails, Prepared, Return, GoTo
    <3>4. CASE Discard(p) \/ WriteManifest(p) BY <3>4 DEF Discard, WriteManifest, Return, GoTo
    <3> QED BY <1>3, <3>1, <3>2, <3>3, <3>4
  <2>4. \A q \in Pullers : pc'[q] = "wait" <=> pc[q] = "wait" BY <2>2, <2>3 DEF GoTo, TypeOK
  <2> QED BY <2>1, <2>4, CountedFrame
<1>4. ASSUME NEW p \in Pullers, LoadOrStore(p)
      PROVE  Counted'
  <2>1. references' = references BY <1>4 DEF LoadOrStore, downloads
  <2>2. \A q \in Pullers : pc'[q] = "wait" <=> pc[q] = "wait"
    BY <1>4 DEF LoadOrStore, GoTo, TypeOK
  <2>3. \A q \in Pullers : pc[q] = "wait" => obj'[q] = obj[q]
    BY <1>4 DEF LoadOrStore, TypeOK
  <2> QED BY <2>1, <2>2, <2>3, CountedFrame
<1>5. ASSUME UNCHANGED <<pc, obj, references>>
      PROVE  Counted'
  BY <1>5, CountedFrame
<1>6. ASSUME NEW d \in Pullers, RunStep(d) \/ Cancel(d) \/ \E i \in Parts : ChunkStep(d, i)
      PROVE  UNCHANGED <<pc, obj, references>>
  <2>1. CASE RunStep(d) \/ Cancel(d)
    BY <2>1 DEF RunStep, Cancel, StartRun, OpenPartial, OpenFails, DirectURL, DirectURLFails,
                Gathered, RemovePart, Rename, Delete, Close, pullers, downloads
  <2>2. ASSUME NEW i \in Parts, ChunkStep(d, i)
        PROVE  UNCHANGED <<pc, obj, references>>
    BY <2>2 DEF ChunkStep, CopyAll, CopySome, ChunkGivesUp, ChunkCancelled, TruncatePart,
                RecordPart, RecordFails, pullers, downloads
  <2> QED BY <1>6, <2>1, <2>2
<1>7. CASE Restart
  <2>1. \A p \in Pullers : pc'[p] # "wait" BY <1>7 DEF Restart
  <2>2. \A d \in Pullers : references'[d] = 0 BY <1>7 DEF Restart
  <2>3. \A d \in Pullers : Waiters(d)' = {} BY <2>1 DEF Waiters
  <2> QED BY <2>2, <2>3, FS_EmptySet DEF Counted
<1>8. CASE UNCHANGED vars BY <1>8, <1>5 DEF vars, pullers, downloads
<1> QED BY <1>1, <1>2, <1>3, <1>4, <1>5, <1>6, <1>7, <1>8 DEF Next, PullerStep

-----------------------------------------------------------------------------
(* One writer.                                                             *)

\* Nobody starts to use the files, the manager keeps its download.
LEMMA WriterFrame ==
  ASSUME OneWriter, manager' = manager, \A d \in Pullers : Active(d)' => Active(d)
  PROVE  OneWriter'
BY DEF OneWriter

\* The manager's download leaves.
LEMMA WriterLeaves ==
  ASSUME OneWriter, NEW d \in Pullers, Active(d), ~Active(d)',
         \A e \in Pullers : e # d => (Active(e)' => Active(e))
  PROVE  OneWriter'
BY Alone DEF OneWriter

LEMMA OneWriterPuller ==
  ASSUME TypeOK, OneWriter, RunAfterPrepare, NEW p \in Pullers, PullerStep(p)
  PROVE  OneWriter'
<1>1. ASSUME NEW error, pc[p] \in {"prepare", "head", "newPart"}, PrepareFails(p, error), run' = run
      PROVE  OneWriter'
  <2>1. Active(p) BY <1>1 DEF Active
  <2>2. run[p] = "none" BY <1>1 DEF RunAfterPrepare, Preparing
  <2>3. ~Active(p)' BY <1>1, <2>2 DEF Active, PrepareFails, Return, TypeOK
  <2>4. \A e \in Pullers : e # p => (Active(e)' => Active(e))
    BY <1>1 DEF Active, PrepareFails, Return, TypeOK
  <2> QED BY <2>1, <2>3, <2>4, WriterLeaves
<1>2. ASSUME pc[p] \in {"prepare", "head", "newPart"}, Prepared(p)
      PROVE  OneWriter'
  <2>1. \A d \in Pullers : Active(d)' => Active(d)
    BY <1>2 DEF Active, Prepared, GoTo, RunTo, TypeOK
  <2> QED BY <1>2, <2>1, WriterFrame DEF Prepared
<1>3. ASSUME NEW label, GoTo(p, label), UNCHANGED <<manager, run>>,
             label \in {"head", "newPart"} => pc[p] \in {"prepare", "head"},
             label # "prepare"
      PROVE  OneWriter'
  <2>1. \A d \in Pullers : Active(d)' => Active(d)
    BY <1>3 DEF Active, GoTo, TypeOK
  <2> QED BY <1>3, <2>1, WriterFrame
<1>4. ASSUME NEW value, Return(p, value), UNCHANGED <<manager, run>>
      PROVE  OneWriter'
  <2>1. \A d \in Pullers : Active(d)' => Active(d)
    BY <1>4 DEF Active, Return, TypeOK
  <2> QED BY <1>4, <2>1, WriterFrame
<1>5. CASE LoadOrStore(p)
  <2>1. CASE manager = NoPuller
    <3>1. \A d \in Pullers : ~Active(d) BY <2>1, ConstantsAssumption DEF OneWriter
    <3>2. manager' = p /\ \A d \in Pullers : Active(d)' => d = p
      BY <1>5, <2>1, <3>1 DEF LoadOrStore, Active, GoTo, TypeOK, downloads
    <3> QED BY <3>2 DEF OneWriter
  <2>2. CASE manager # NoPuller
    BY <1>5, <1>3, <2>2 DEF LoadOrStore, downloads
  <2> QED BY <2>1, <2>2
<1>6. CASE Stat(p)
  <2>1. Return(p, "success") \/ GoTo(p, "store") \/ GoTo(p, "write") BY <1>6, Zenon DEF Stat
  <2> QED BY <1>3, <1>4, <1>6, <2>1 DEF Stat, downloads
<1>7. CASE ReadParts(p)
  <2>1. \/ PrepareFails(p, "failed") /\ run' = run
        \/ GoTo(p, "head") /\ UNCHANGED <<manager, run>>
        \/ Prepared(p)
    BY <1>7, Zenon DEF ReadParts
  <2> QED BY <1>1, <1>2, <1>3, <1>7, <2>1 DEF ReadParts
<1>8. CASE HeadAnswers(p)
  BY <1>8, <1>2, <1>3 DEF HeadAnswers
<1>9. CASE HeadFails(p) \/ NewPartFails(p)
  BY <1>9, <1>1 DEF HeadFails, NewPartFails, downloads
<1>10. CASE CreatePart(p)
  <2>1. \A d \in Pullers : Active(d)' = Active(d)
    BY <1>10 DEF CreatePart, Active, pullers, downloads
  <2> QED BY <1>10, <2>1, WriterFrame DEF CreatePart
<1>11. CASE EncodePart(p)
  <2>1. CASE UNCHANGED <<manager, pc, result, run>>
    BY <2>1, WriterFrame DEF Active
  <2> QED BY <1>2, <1>11, <2>1, Zenon DEF EncodePart
<1>12. CASE Acquire(p)
  BY <1>12, <1>3 DEF Acquire
<1>13. CASE WaitDone(p)
  <2>1. Return(p, err[obj[p]]) \/ Return(p, "success") \/ GoTo(p, "verify")
    BY <1>13, Zenon DEF WaitDone
  <2> QED BY <1>3, <1>4, <1>13, <2>1 DEF WaitDone, Release
<1>14. CASE WaitCancelled(p)
  BY <1>4, <1>14 DEF WaitCancelled, Release
<1>15. CASE Verify(p)
  <2>1. Return(p, "failed") \/ GoTo(p, "discard") \/ GoTo(p, "write") BY <1>15, Zenon DEF Verify
  <2> QED BY <1>3, <1>4, <1>15, <2>1 DEF Verify, downloads
<1>16. CASE Discard(p) \/ WriteManifest(p)
  BY <1>4, <1>16 DEF Discard, WriteManifest, downloads
<1> QED BY <1>5, <1>6, <1>7, <1>8, <1>9, <1>10, <1>11, <1>12, <1>13, <1>14, <1>15, <1>16 DEF PullerStep, PrepareStep

LEMMA OneWriterStep ==
  ASSUME TypeOK, OneWriter, RunAfterPrepare, [Next]_vars
  PROVE  OneWriter'
<1>1. ASSUME NEW d \in Pullers, NEW i \in Parts, ChunkStep(d, i)
      PROVE  OneWriter'
  <2>1. UNCHANGED <<manager, pc, run>>
    BY <1>1 DEF ChunkStep, CopyAll, CopySome, ChunkGivesUp, ChunkCancelled, TruncatePart,
                RecordPart, RecordFails, pullers, downloads
  <2> QED BY <2>1, WriterFrame DEF Active
<1>2. ASSUME NEW d \in Pullers, Delete(d)
      PROVE  OneWriter'
  <2>1. Active(d) BY <1>2 DEF Active, Delete
  <2>2. pc[d] \notin Preparing BY <1>2 DEF RunAfterPrepare, Delete
  <2>3. ~Active(d)' BY <1>2, <2>2 DEF Active, Delete, RunTo, TypeOK, pullers, Preparing
  <2>4. \A e \in Pullers : e # d => (Active(e)' => Active(e))
    BY <1>2 DEF Active, Delete, RunTo, TypeOK, pullers
  <2> QED BY <2>1, <2>3, <2>4, WriterLeaves
<1>3. ASSUME NEW d \in Pullers, RunStep(d), ~Delete(d)
      PROVE  OneWriter'
  <2>1. UNCHANGED <<manager, pc>>
    BY <1>3 DEF RunStep, StartRun, OpenPartial, OpenFails, DirectURL, DirectURLFails,
                Gathered, RemovePart, Rename, Close, pullers
  <2>2. run' = run \/ \E label : RunTo(d, label) /\ (run[d] = "close" => label = "ended")
    BY <1>3 DEF RunStep, StartRun, OpenPartial, OpenFails, DirectURL, DirectURLFails,
                Gathered, RemovePart, Rename, Close, Fails
  <2>3. run[d] \in {"start", "open", "url", "chunks", "remove", "close"}
    BY <1>3 DEF RunStep, StartRun, OpenPartial, OpenFails, DirectURL, DirectURLFails,
                Gathered, RemovePart, Rename, Close
  <2>4. \A e \in Pullers : Active(e)' => Active(e)
    BY <2>1, <2>2, <2>3 DEF Active, RunTo, TypeOK
  <2> QED BY <2>1, <2>4, WriterFrame
<1>4. ASSUME NEW p \in Pullers, Cancel(p)
      PROVE  OneWriter'
  BY <1>4, WriterFrame DEF Cancel, Active, downloads
<1>5. CASE Restart
  BY <1>5 DEF Restart, OneWriter, Active
<1>6. CASE UNCHANGED vars
  BY <1>6, WriterFrame DEF Active, vars, pullers, downloads
<1> QED BY <1>1, <1>2, <1>3, <1>4, <1>5, <1>6, OneWriterPuller DEF Next

-----------------------------------------------------------------------------
(* The files, while Prepare runs.                                          *)

\* Prepare fails.
LEMMA FilesPrepareFails ==
  ASSUME TypeOK, Files, NEW p \in Pullers, NEW error, PrepareFails(p, error),
         UNCHANGED <<partial, partFiles, run, parts, removed>>
  PROVE  Files'
<1>1. \A q \in Pullers : pc'[q] = pc[q] \/ pc'[q] = "end"
  BY DEF PrepareFails, Return, TypeOK
<1> QED BY <1>1, PullerFrame DEF Preparing

\* The part files of an earlier attempt: the download knows those that exist,
\* and holds for complete those that are done.
LEMMA FilesReadParts ==
  ASSUME TypeOK, OneWriter, Files, NEW p \in Pullers, ReadParts(p)
  PROVE  Files'
<1>1. /\ pc[p] = "prepare" /\ run[p] = "none" /\ removed[p] = 0
      /\ UNCHANGED <<partial, partFiles, removed>>
  BY DEF ReadParts, disk, Files, RunAfterPrepare, Preparing
<1>2. CASE PrepareFails(p, "failed") /\ UNCHANGED <<run, parts>>
  BY <1>1, <1>2, FilesPrepareFails
<1>3. CASE /\ parts' = [parts EXCEPT ![p] = [i \in Parts |-> PartRead(i)]]
           /\ \A i \in Parts : partFiles[i] = "absent"
           /\ GoTo(p, "head") /\ UNCHANGED <<manager, result, run>>
  <2>1. \A i \in Parts : parts'[p][i] = "unknown" BY <1>3 DEF TypeOK, PartRead
  <2>2. \A q \in Pullers : q # p => parts'[q] = parts[q] /\ pc'[q] = pc[q]
    BY <1>3 DEF TypeOK, GoTo
  <2>3. pc'[p] = "head" BY <1>3 DEF TypeOK, GoTo
  <2>4. RunAfterPrepare' BY <1>1, <1>3, <2>2 DEF Files, RunAfterPrepare, Preparing
  <2>5. NewParts' BY <1>1, <1>3, <2>1, <2>2, <2>3 DEF Files, NewParts
  <2>6. \A d \in Pullers : d # p => Known(d)' = Known(d) BY <2>2 DEF Known
  <2>9. \A d \in Pullers : run'[d] = run[d] BY <1>3
  <2>10. run[p] \notin Working BY <1>1 DEF Working, BeforeChunks
  <2>11. KnownFiles'
    BY <1>1, <2>6, <2>9, <2>10 DEF Files, KnownFiles, Working
  <2>12. CompleteBytes'
    BY <1>1, <2>2, <2>6, <2>9, <2>10 DEF Files, CompleteBytes
  <2>13. RemovedFiles'
    BY <1>1, <2>2, <2>6, <2>9, <2>10 DEF Files, RemovedFiles, Working
  <2>7. CopiedBytes' BY <1>1, <1>3, <2>1, <2>2 DEF Files, CopiedBytes
  <2>8. RecordedBytes' BY <1>1 DEF Files, RecordedBytes
  <2> QED BY <2>4, <2>5, <2>7, <2>8, <2>11, <2>12, <2>13 DEF Files
<1>4. CASE /\ parts' = [parts EXCEPT ![p] = [i \in Parts |-> PartRead(i)]]
           /\ \A i \in Parts : partFiles[i] # "empty"
           /\ Prepared(p)
  <2>1. \A i \in Parts : parts'[p][i] = PartRead(i) BY <1>4 DEF TypeOK
  <2>2. \A q \in Pullers : q # p =>
          parts'[q] = parts[q] /\ pc'[q] = pc[q] /\ run'[q] = run[q]
    BY <1>4 DEF TypeOK, Prepared, GoTo, RunTo
  <2>3. pc'[p] = "acquire" /\ run'[p] = "start"
    BY <1>4 DEF TypeOK, Prepared, GoTo, RunTo
  <2>4. RunAfterPrepare'
    BY <1>1, <2>2, <2>3 DEF Files, RunAfterPrepare, Preparing, BeforeChunks
  <2>5. NewParts' BY <1>1, <2>2, <2>3 DEF Files, NewParts
  <2>6. KnownFiles'
    BY <1>1, <2>1, <2>2, <2>3 DEF Files, KnownFiles, Known, PartRead, Working, BeforeChunks
  <2>7. CopiedBytes'
    BY <1>1, <2>1, <2>2, <2>3 DEF Files, CopiedBytes, PartRead
  <2>8. CompleteBytes'
    <3>1. ASSUME Known(p)' = Parts, NEW i \in Parts, parts'[p][i] = "complete"
          PROVE  partial[i] \in Written
      <4>1. \A j \in Parts : partFiles[j] # "absent" BY <2>1, <3>1 DEF Known, PartRead
      <4>2. partFiles[i] = "done" BY <2>1, <3>1 DEF PartRead
      <4> QED BY <4>1, <4>2 DEF Files, RecordedBytes, Written
    <3>2. ASSUME NEW d \in Pullers, d # p, run'[d] \in Working, Known(d)' = Parts,
                 NEW i \in Parts, parts'[d][i] = "complete"
          PROVE  partial[i] \in Written
      BY <2>2, <3>2 DEF Files, CompleteBytes, Known
    <3> QED BY <1>1, <3>1, <3>2 DEF CompleteBytes
  <2>9. RemovedFiles' BY <1>1, <2>2, <2>3 DEF Files, RemovedFiles, Known
  <2>10. RecordedBytes' BY <1>1 DEF Files, RecordedBytes
  <2> QED BY <2>4, <2>5, <2>6, <2>7, <2>8, <2>9, <2>10 DEF Files
<1> QED BY <1>2, <1>3, <1>4, Zenon DEF ReadParts

LEMMA FilesHeadAnswers ==
  ASSUME TypeOK, OneWriter, Files, NEW p \in Pullers, HeadAnswers(p)
  PROVE  Files'
<1>1. /\ pc[p] = "head" /\ run[p] = "none" /\ removed[p] = 0
      /\ \A i \in Parts : partFiles[i] = "absent" /\ parts[p][i] = "unknown"
      /\ UNCHANGED <<partial, partFiles, parts, removed>>
  BY DEF HeadAnswers, disk, Files, NewParts, RunAfterPrepare, Preparing
<1>2. /\ pc'[p] \in {"newPart", "acquire"}
      /\ pc'[p] = "newPart" => run'[p] = "none"
      /\ run'[p] \in {"none", "start"}
      /\ \A q \in Pullers : q # p => pc'[q] = pc[q] /\ run'[q] = run[q]
  <2>1. CASE GoTo(p, "newPart") /\ UNCHANGED <<manager, result, run>>
    BY <1>1, <2>1 DEF TypeOK, GoTo
  <2>2. CASE Prepared(p)
    BY <1>1, <2>2 DEF TypeOK, Prepared, GoTo, RunTo
  <2> QED BY <2>1, <2>2 DEF HeadAnswers
<1>3. RunAfterPrepare'
  BY <1>1, <1>2 DEF Files, RunAfterPrepare, Preparing, BeforeChunks
<1>4. NewParts'
  <2>1. \A i \in Parts :
          /\ parts'[p][i] = IF i < 0 THEN "fetch" ELSE "unknown"
          /\ i < 0 => partFiles'[i] # "absent"
          /\ i > 0 => partFiles'[i] = "absent"
          /\ partFiles'[i] # "done"
    BY <1>1, PartsFacts
  <2>2. \E n \in Parts : \A i \in Parts :
          /\ parts'[p][i] = IF i < n THEN "fetch" ELSE "unknown"
          /\ i < n => partFiles'[i] # "absent"
          /\ i > n => partFiles'[i] = "absent"
          /\ partFiles'[i] # "done"
    <3>1. 0 \in Parts BY PartsFacts
    <3> WITNESS 0 \in Parts
    <3> QED BY <2>1
  <2>3. pc'[p] # "head" BY <1>2
  <2>4. \A q \in Pullers : q # p => pc'[q] = pc[q] BY <1>2
  <2> QED BY <1>1, <2>2, <2>3, <2>4 DEF Files, NewParts
<1>5. KnownFiles'
  BY <1>1, <1>2 DEF Files, KnownFiles, Known, Working, BeforeChunks
<1>6. CopiedBytes' BY <1>1, <1>2 DEF Files, CopiedBytes
<1>7. CompleteBytes' BY <1>1, <1>2 DEF Files, CompleteBytes, Known
<1>8. RemovedFiles' BY <1>1, <1>2 DEF Files, RemovedFiles, Known
<1>9. RecordedBytes' BY <1>1 DEF Files, RecordedBytes
<1> QED BY <1>3, <1>4, <1>5, <1>6, <1>7, <1>8, <1>9 DEF Files

\* The next part that newPart makes, and what that says of the part files.
LEMMA NewPartFacts ==
  ASSUME TypeOK, OneWriter, Files, NEW p \in Pullers, pc[p] = "newPart"
  PROVE  /\ run[p] = "none" /\ NextPart(p) \in Parts
         /\ \A i \in Parts :
              /\ parts[p][i] = IF i < NextPart(p) THEN "fetch" ELSE "unknown"
              /\ i < NextPart(p) => partFiles[i] # "absent"
              /\ i > NextPart(p) => partFiles[i] = "absent"
              /\ partFiles[i] # "done"
         /\ \A d \in Pullers : run[d] \notin Working
         /\ \A q \in Pullers : q # p => pc[q] \notin {"prepare", "head", "newPart"}
<1>1. run[p] = "none" BY DEF Files, RunAfterPrepare, Preparing
<1>2. PICK n \in Parts : \A i \in Parts :
              /\ parts[p][i] = IF i < n THEN "fetch" ELSE "unknown"
              /\ i < n => partFiles[i] # "absent"
              /\ i > n => partFiles[i] = "absent"
              /\ partFiles[i] # "done"
  BY DEF Files, NewParts
<1>3. NextPart(p) = n BY <1>2, NextPartFacts
<1>4. Active(p) BY DEF Active
<1>5. \A d \in Pullers : run[d] \notin Working
  BY <1>1, <1>4, Alone DEF Active, Working, BeforeChunks
<1>6. \A q \in Pullers : q # p => pc[q] \notin {"prepare", "head", "newPart"}
  BY <1>4, Alone DEF Active
<1> QED BY <1>1, <1>2, <1>3, <1>5, <1>6

LEMMA FilesCreatePart ==
  ASSUME TypeOK, OneWriter, Files, NEW p \in Pullers, CreatePart(p)
  PROVE  Files'
<1> DEFINE n == NextPart(p)
<1>1. /\ pc[p] = "newPart"
      /\ partFiles' = [partFiles EXCEPT ![n] = "empty"]
      /\ UNCHANGED <<partial, pc, run, parts, removed>>
  BY DEF CreatePart, pullers, downloads
<1>2. n \in Parts BY <1>1, NewPartFacts
<1>3. PICK m \in Parts : m = n BY <1>2
<1> HIDE DEF n
<1>4. /\ partFiles'[m] = "empty"
      /\ \A i \in Parts : i # m => partFiles'[i] = partFiles[i]
  BY <1>1, <1>3 DEF TypeOK
<1>5. RunAfterPrepare' BY <1>1 DEF Files, RunAfterPrepare
<1>6. NewParts'
  <2>1. \A i \in Parts :
          /\ parts'[p][i] = IF i < m THEN "fetch" ELSE "unknown"
          /\ i < m => partFiles'[i] # "absent"
          /\ i > m => partFiles'[i] = "absent"
          /\ partFiles'[i] # "done"
    BY <1>1, <1>3, <1>4, NewPartFacts, PartsFacts DEF n
  <2>2. \A q \in Pullers : q # p => pc'[q] \notin {"head", "newPart"}
    BY <1>1, NewPartFacts
  <2> QED BY <1>1, <2>1, <2>2 DEF NewParts
<1>7. \A d \in Pullers : run'[d] \notin Working BY <1>1, NewPartFacts
<1>8. KnownFiles' /\ CompleteBytes' /\ RemovedFiles'
  BY <1>7 DEF KnownFiles, CompleteBytes, RemovedFiles, Working, BeforeChunks
<1>9. CopiedBytes' BY <1>1 DEF Files, CopiedBytes
<1>10. RecordedBytes'
  <2>1. \A i \in Parts : partFiles'[i] # "done" BY <1>1, <1>4, NewPartFacts
  <2> QED BY <2>1 DEF RecordedBytes
<1> QED BY <1>5, <1>6, <1>8, <1>9, <1>10 DEF Files

LEMMA FilesEncodePart ==
  ASSUME TypeOK, OneWriter, Files, NEW p \in Pullers, EncodePart(p)
  PROVE  Files'
<1>1. pc[p] = "newPart" BY DEF EncodePart
<1>2. PICK m \in Parts : m = NextPart(p) BY <1>1, NewPartFacts
<1>3. /\ partFiles' = [partFiles EXCEPT ![m] = "started"]
      /\ parts' = [parts EXCEPT ![p][m] = "fetch"]
      /\ UNCHANGED <<partial, removed>>
  BY <1>2 DEF EncodePart, PartTo
<1>4. /\ partFiles'[m] = "started" /\ parts'[p][m] = "fetch"
      /\ \A i \in Parts : i # m => partFiles'[i] = partFiles[i] /\ parts'[p][i] = parts[p][i]
      /\ \A q \in Pullers : q # p => parts'[q] = parts[q]
  BY <1>3 DEF TypeOK
<1>5. \A i \in Parts :
        /\ parts'[p][i] = IF i < m + 1 THEN "fetch" ELSE "unknown"
        /\ i < m + 1 => partFiles'[i] # "absent"
        /\ i > m => partFiles'[i] = "absent"
        /\ partFiles'[i] # "done"
  BY <1>1, <1>2, <1>4, NewPartFacts, PartsFacts
<1>6. \A q \in Pullers : q # p => pc[q] \notin {"head", "newPart"} BY <1>1, NewPartFacts
<1>7. RecordedBytes' BY <1>5 DEF RecordedBytes
<1>8. CASE UNCHANGED <<manager, pc, result, run>> /\ m # NParts - 1
  <2>1. m + 1 \in Parts BY <1>8, PartsFacts
  <2>2. RunAfterPrepare' BY <1>3, <1>8 DEF Files, RunAfterPrepare
  <2>3. \E n \in Parts : \A i \in Parts :
          /\ parts'[p][i] = IF i < n THEN "fetch" ELSE "unknown"
          /\ i < n => partFiles'[i] # "absent"
          /\ i > n => partFiles'[i] = "absent"
          /\ partFiles'[i] # "done"
    <3> WITNESS m + 1 \in Parts
    <3>1. \A i \in Parts : i > m + 1 => i > m BY PartsFacts
    <3> QED BY <1>5, <3>1
  <2>4. NewParts' BY <1>1, <1>6, <1>8, <2>3 DEF NewParts
  <2>5. \A d \in Pullers : run'[d] \notin Working BY <1>1, <1>8, NewPartFacts
  <2>6. KnownFiles' /\ CompleteBytes' /\ RemovedFiles'
    BY <2>5 DEF KnownFiles, CompleteBytes, RemovedFiles, Working, BeforeChunks
  <2>7. CopiedBytes' BY <1>3, <1>4, <1>5, <1>8 DEF Files, CopiedBytes
  <2> QED BY <1>7, <2>2, <2>4, <2>6, <2>7 DEF Files
<1>9. CASE Prepared(p) /\ m = NParts - 1
  <2>1. /\ pc'[p] = "acquire" /\ run'[p] = "start"
        /\ \A q \in Pullers : q # p => pc'[q] = pc[q] /\ run'[q] = run[q]
    BY <1>9 DEF TypeOK, Prepared, GoTo, RunTo
  <2>2. run[p] = "none" /\ removed[p] = 0
    BY <1>1 DEF Files, RunAfterPrepare, Preparing
  <2>3. \A i \in Parts : parts'[p][i] = "fetch" /\ partFiles'[i] # "absent"
    BY <1>5, <1>9, PartsFacts
  <2>4. \A d \in Pullers : d # p => run'[d] \notin Working BY <1>1, <2>1, NewPartFacts
  <2>5. RunAfterPrepare'
    BY <1>3, <2>1, <2>2 DEF Files, RunAfterPrepare, Preparing, BeforeChunks
  <2>6. NewParts' BY <1>6, <2>1 DEF NewParts
  <2>7. KnownFiles' BY <2>3, <2>4 DEF KnownFiles, Known, Working, BeforeChunks
  <2>8. CopiedBytes' BY <1>3, <1>4, <2>1, <2>3 DEF Files, CopiedBytes
  <2>9. CompleteBytes' BY <2>3, <2>4 DEF CompleteBytes
  <2>10. RemovedFiles' BY <2>1, <2>4 DEF RemovedFiles, Working
  <2> QED BY <1>7, <2>5, <2>6, <2>7, <2>8, <2>9, <2>10 DEF Files
<1> QED BY <1>2, <1>8, <1>9, Zenon DEF EncodePart

-----------------------------------------------------------------------------
(* The files, while a download runs.                                       *)

\* The goroutine of a part changes the files, or only what it says of it.
LEMMA FilesChunk ==
  ASSUME TypeOK, OneWriter, Files, NEW d \in Pullers, NEW i \in Parts,
         run[d] = "chunks", parts[d][i] # "unknown",
         UNCHANGED <<pc, run, removed>>,
         NEW label \in {"fetch", "copied", "interrupted", "complete", "failed"},
         parts' = [parts EXCEPT ![d][i] = label],
         \A j \in Parts : partial[j] \in Written => partial'[j] \in Written,
         \A j \in Parts : partFiles[j] # "absent" => partFiles'[j] # "absent",
         \A j \in Parts : j # i => partFiles'[j] = partFiles[j],
         label = "copied" => partial'[i] \in Written,
         label = "complete" => parts[d][i] = "complete" \/ partial[i] \in Written,
         partFiles'[i] = "done" => partFiles[i] = "done" \/ partial[i] \in Written
  PROVE  Files'
<1>1. /\ \A e \in Pullers : run[e] \in Working => e = d
      /\ \A p \in Pullers : pc[p] \notin {"prepare", "head", "newPart"}
  BY Busy DEF Files, Working
<1>2. /\ parts'[d][i] = label
      /\ \A j \in Parts : j # i => parts'[d][j] = parts[d][j]
      /\ \A e \in Pullers : e # d => parts'[e] = parts[e]
  BY DEF TypeOK
<1>3. Known(d)' = Known(d) BY <1>2 DEF Known
<1>4. i \in Known(d) BY DEF Known
<1>5. RunAfterPrepare' BY DEF Files, RunAfterPrepare
<1>6. NewParts' BY <1>1 DEF NewParts
<1>7. \A j \in Parts : j \in Known(d) <=> partFiles[j] # "absent"
  BY DEF Files, KnownFiles, Working
<1>8. KnownFiles'
  <2>1. \A j \in Parts : j \in Known(d) <=> partFiles'[j] # "absent" BY <1>4, <1>7
  <2>2. \A e \in Pullers : run'[e] \in Working => e = d BY <1>1
  <2> QED BY <1>3, <2>1, <2>2 DEF KnownFiles, Working, Known
<1>9. CopiedBytes'
  <2>1. \A e \in Pullers : run'[e] = "chunks" => e = d BY <1>1 DEF Working
  <2> QED BY <1>2, <2>1 DEF Files, CopiedBytes, BeforeChunks
<1>10. CompleteBytes'
  <2>1. ASSUME Known(d) = Parts, NEW j \in Parts, parts'[d][j] = "complete"
        PROVE  partial'[j] \in Written
    <3>1. parts[d][j] = "complete" => partial[j] \in Written
      BY <2>1 DEF Files, CompleteBytes, Working
    <3> QED BY <1>2, <2>1, <3>1
  <2> QED BY <1>1, <1>3, <2>1 DEF CompleteBytes
<1>11. RemovedFiles' BY <1>1 DEF RemovedFiles, Working
<1>12. RecordedBytes'
  <2>1. ASSUME \A j \in Parts : partFiles'[j] # "absent", NEW j \in Parts, partFiles'[j] = "done"
        PROVE  partial'[j] \in Written
    <3>1. \A k \in Parts : partFiles[k] # "absent" BY <1>4, <1>7, <2>1
    <3>2. partFiles[j] = "done" => partial[j] \in Written
      BY <3>1 DEF Files, RecordedBytes, Written
    <3> QED BY <2>1, <3>2
  <2> QED BY <2>1 DEF RecordedBytes, Written
<1> QED BY <1>5, <1>6, <1>8, <1>9, <1>10, <1>11, <1>12 DEF Files

LEMMA FilesChunkStep ==
  ASSUME TypeOK, OneWriter, Files, NEW d \in Pullers, NEW i \in Parts, ChunkStep(d, i)
  PROVE  Files'
<1>1. /\ run[d] = "chunks" /\ parts[d][i] \in {"fetch", "copied", "interrupted"}
      /\ UNCHANGED <<pc, run, removed>>
  BY DEF ChunkStep, CopyAll, CopySome, ChunkGivesUp, ChunkCancelled, TruncatePart,
         RecordPart, RecordFails, pullers, downloads
<1>2. parts[d][i] = "copied" => partial[i] \in Written
  BY <1>1 DEF Files, CopiedBytes
<1>3. CASE CopyAll(d, i)
  <2>1. PICK bytes \in Written : partial' = WrittenAt(partial, i, bytes)
    BY <1>3, FileTypes DEF CopyAll, TypeOK
  <2>2. \A j \in Parts : partial[j] \in Written => partial'[j] \in Written
    BY <2>1, BytesStay
  <2>3. partial'[i] \in Written BY <2>1, FileTypes DEF TypeOK
  <2>4. partFiles' = partFiles /\ parts' = [parts EXCEPT ![d][i] = "copied"]
    BY <1>3 DEF CopyAll, PartTo
  <2> QED BY <1>1, <2>2, <2>3, <2>4, FilesChunk
<1>4. CASE CopySome(d, i) \/ ChunkGivesUp(d, i) \/ ChunkCancelled(d, i) \/ RecordFails(d, i)
  <2>1. UNCHANGED <<partial, partFiles>>
    BY <1>4 DEF CopySome, ChunkGivesUp, ChunkCancelled, RecordFails, disk
  <2>2. PICK label \in {"interrupted", "failed"} : parts' = [parts EXCEPT ![d][i] = label]
    BY <1>4 DEF CopySome, ChunkGivesUp, ChunkCancelled, RecordFails, ChunkError, PartTo
  <2> QED BY <1>1, <2>1, <2>2, FilesChunk
<1>5. CASE TruncatePart(d, i)
  <2>1. UNCHANGED <<partial, parts>> BY <1>5 DEF TruncatePart, downloads
  <2>2. /\ partFiles'[i] = "empty"
        /\ \A j \in Parts : j # i => partFiles'[j] = partFiles[j]
    BY <1>5 DEF TruncatePart, TypeOK
  <2>3. PICK label \in {"copied", "interrupted"} : parts[d][i] = label
    BY <1>5 DEF TruncatePart
  <2>4. parts' = [parts EXCEPT ![d][i] = label] BY <2>1, <2>3 DEF TypeOK
  <2> QED BY <1>1, <1>2, <2>1, <2>2, <2>3, <2>4, FilesChunk
<1>6. CASE RecordPart(d, i)
  <2>1. /\ partial' = partial
        /\ partFiles'[i] = IF parts[d][i] = "copied" THEN "done" ELSE "partly"
        /\ \A j \in Parts : j # i => partFiles'[j] = partFiles[j]
    BY <1>6 DEF RecordPart, TypeOK
  <2>2. PICK label \in {"fetch", "complete", "failed"} :
          /\ parts' = [parts EXCEPT ![d][i] = label]
          /\ label = "complete" => parts[d][i] = "copied"
    BY <1>6 DEF RecordPart, ChunkError, PartTo
  <2> QED BY <1>1, <1>2, <2>1, <2>2, FilesChunk
<1> QED BY <1>3, <1>4, <1>5, <1>6 DEF ChunkStep

\* A download goes on, with the files as they are.
LEMMA FilesGoOn ==
  ASSUME TypeOK, OneWriter, Files, NEW d \in Pullers, NEW label,
         \/ run[d] = "start" /\ label = "open"
         \/ run[d] = "url" /\ label = "chunks"
         \/ /\ run[d] = "chunks" /\ label = "remove"
            /\ \A i \in Known(d) : parts[d][i] = "complete",
         run' = [run EXCEPT ![d] = label],
         UNCHANGED <<partial, partFiles, parts, removed, pc>>
  PROVE  Files'
<1>1. /\ run[d] \in {"start", "url", "chunks"} /\ run'[d] = label
      /\ \A e \in Pullers : e # d => run'[e] = run[e]
  BY DEF TypeOK
<1>2. /\ \A e \in Pullers : run[e] \in Working => e = d
      /\ \A p \in Pullers : pc[p] \notin {"prepare", "head", "newPart"}
  BY <1>1, Busy DEF Files, Working, BeforeChunks
<1>3. RunAfterPrepare' BY <1>1 DEF Files, RunAfterPrepare, BeforeChunks
<1>4. NewParts' BY <1>2 DEF NewParts
<1>5. KnownFiles' BY <1>1 DEF Files, KnownFiles, Known, Working, BeforeChunks
<1>6. CopiedBytes'
  <2>1. \A i \in Parts : run[d] \in BeforeChunks => parts[d][i] # "copied"
    BY DEF Files, CopiedBytes
  <2> QED BY <1>1, <2>1 DEF Files, CopiedBytes, BeforeChunks
<1>7. CompleteBytes' BY <1>1 DEF Files, CompleteBytes, Known, Working, BeforeChunks
<1>8. RemovedFiles'
  <2>1. run[d] = "chunks" => removed[d] = 0 BY DEF Files, RunAfterPrepare
  <2>2. \A j \in Parts : ~(j < 0) BY PartsFacts
  <2>3. \A e \in Pullers : run'[e] = "remove" => e = d BY <1>1, <1>2 DEF Working
  <2> QED BY <1>1, <2>1, <2>2, <2>3 DEF RemovedFiles, Known
<1>9. RecordedBytes' BY DEF Files, RecordedBytes
<1> QED BY <1>3, <1>4, <1>5, <1>6, <1>7, <1>8, <1>9 DEF Files

LEMMA FilesOpenPartial ==
  ASSUME TypeOK, OneWriter, Files, NEW d \in Pullers, OpenPartial(d)
  PROVE  Files'
<1>1. /\ run[d] = "open" /\ run'[d] = "url"
      /\ \A e \in Pullers : e # d => run'[e] = run[e]
      /\ partial' \in {Truncated(partial, Total(d)), partial}
      /\ UNCHANGED <<partFiles, parts, removed, pc>>
  BY DEF OpenPartial, RunTo, TypeOK, pullers
<1>2. /\ \A e \in Pullers : run[e] \in Working => e = d
      /\ \A p \in Pullers : pc[p] \notin {"prepare", "head", "newPart"}
  BY <1>1, Busy DEF Files, Working, BeforeChunks
<1>3. ASSUME Known(d) = Parts, NEW i \in Parts, partial[i] \in Written
      PROVE  partial'[i] \in Written
  BY <1>1, <1>3, TotalFacts, BytesStay
<1>4. RunAfterPrepare' BY <1>1 DEF Files, RunAfterPrepare, BeforeChunks
<1>5. NewParts' BY <1>1, <1>2 DEF NewParts
<1>6. KnownFiles' BY <1>1 DEF Files, KnownFiles, Known, Working, BeforeChunks
<1>7. CopiedBytes'
  <2>1. \A i \in Parts : parts[d][i] # "copied" BY <1>1 DEF Files, CopiedBytes, BeforeChunks
  <2>2. \A e \in Pullers : run'[e] # "chunks" BY <1>1, <1>2 DEF Working
  <2> QED BY <1>1, <2>1, <2>2 DEF Files, CopiedBytes, BeforeChunks
<1>8. CompleteBytes'
  <2>1. \A e \in Pullers : run'[e] \in Working => e = d BY <1>1, <1>2
  <2>2. Known(d)' = Known(d) BY <1>1 DEF Known
  <2>3. Known(d) = Parts => \A i \in Parts : parts[d][i] = "complete" => partial[i] \in Written
    BY <1>1 DEF Files, CompleteBytes, Working, BeforeChunks
  <2> QED BY <1>1, <1>3, <2>1, <2>2, <2>3 DEF CompleteBytes
<1>9. RemovedFiles' BY <1>1, <1>2 DEF RemovedFiles, Working
<1>10. RecordedBytes'
  <2>1. ASSUME \A i \in Parts : partFiles'[i] # "absent", NEW i \in Parts, partFiles'[i] = "done"
        PROVE  partial'[i] \in Written
    <3>1. \A k \in Parts : k \in Known(d)
      BY <1>1, <2>1 DEF Files, KnownFiles, Working, BeforeChunks
    <3>2. Known(d) = Parts BY <3>1 DEF Known
    <3>3. partial[i] \in Written BY <1>1, <2>1 DEF Files, RecordedBytes, Written
    <3> QED BY <1>3, <3>2, <3>3
  <2> QED BY <2>1 DEF RecordedBytes, Written
<1> QED BY <1>4, <1>5, <1>6, <1>7, <1>8, <1>9, <1>10 DEF Files

LEMMA FilesRemovePart ==
  ASSUME TypeOK, OneWriter, Files, NEW d \in Pullers, RemovePart(d),
         partFiles[removed[d]] # "absent"
  PROVE  Files'
<1>1. /\ run[d] = "remove" /\ UNCHANGED <<run, pc, parts, partial>>
      /\ partFiles' = [partFiles EXCEPT ![removed[d]] = "absent"]
      /\ removed' = [removed EXCEPT ![d] = @ + 1]
  BY DEF RemovePart, pullers
<1>2. removed[d] \in Parts
  BY TotalFacts, PartsFacts DEF RemovePart, TypeOK
<1>3. PICK m \in Parts : m = removed[d] BY <1>2
<1>4. /\ partFiles'[m] = "absent" /\ removed'[d] = m + 1
      /\ \A i \in Parts : i # m => partFiles'[i] = partFiles[i]
      /\ \A e \in Pullers : e # d => removed'[e] = removed[e]
  BY <1>1, <1>3 DEF TypeOK
<1>5. /\ \A e \in Pullers : run[e] \in Working => e = d
      /\ \A p \in Pullers : pc[p] \notin {"prepare", "head", "newPart"}
  BY <1>1, Busy DEF Files, Working
<1>6. RunAfterPrepare' BY <1>1, <1>4 DEF Files, RunAfterPrepare, BeforeChunks, Preparing
<1>7. NewParts' BY <1>1, <1>5 DEF NewParts
<1>8. KnownFiles'
  <2>1. \A i \in Parts : partFiles'[i] # "absent" => i \in Known(d)
    BY <1>1, <1>4 DEF Files, KnownFiles, Working
  <2>2. Known(d)' = Known(d) BY <1>1 DEF Known
  <2>3. \A e \in Pullers : run'[e] \in Working => e = d BY <1>1, <1>5
  <2> QED BY <1>1, <2>1, <2>2, <2>3 DEF KnownFiles, Working, BeforeChunks
<1>9. CopiedBytes' BY <1>1 DEF Files, CopiedBytes
<1>10. CompleteBytes' BY <1>1 DEF Files, CompleteBytes, Known
<1>11. RemovedFiles'
  <2>1. \A j \in Parts : j < m => partFiles[j] = "absent"
    BY <1>1, <1>3 DEF Files, RemovedFiles
  <2>2. \A j \in Parts : j < m + 1 => j < m \/ j = m BY PartsFacts
  <2>3. \A e \in Pullers : run'[e] = "remove" => e = d BY <1>1, <1>5 DEF Working
  <2>4. \A i \in Known(d)' : parts'[d][i] = "complete"
    BY <1>1 DEF Files, RemovedFiles, Known
  <2>5. \A j \in Parts : j < removed'[d] => partFiles'[j] = "absent"
    BY <1>4, <2>1, <2>2
  <2> QED BY <2>3, <2>4, <2>5 DEF RemovedFiles
<1>12. RecordedBytes' BY <1>4 DEF RecordedBytes
<1> QED BY <1>6, <1>7, <1>8, <1>9, <1>10, <1>11, <1>12 DEF Files

\* -partial gets another name when no part file is left.
LEMMA FilesRename ==
  ASSUME TypeOK, OneWriter, Files, NEW d \in Pullers, Rename(d)
  PROVE  Files'
<1>1. /\ run[d] = "remove" /\ run'[d] = "delete" /\ removed[d] = Total(d)
      /\ \A e \in Pullers : e # d => run'[e] = run[e]
      /\ UNCHANGED <<partFiles, parts, removed, pc>>
  BY DEF Rename, RunTo, TypeOK, pullers
<1>2. /\ \A e \in Pullers : run[e] \in Working => e = d
      /\ \A p \in Pullers : pc[p] \notin {"prepare", "head", "newPart"}
  BY <1>1, Busy DEF Files, Working
<1>3. \A e \in Pullers : run'[e] \notin Working BY <1>1, <1>2 DEF Working, BeforeChunks
<1>4. RunAfterPrepare' BY <1>1 DEF Files, RunAfterPrepare, BeforeChunks, Preparing
<1>5. NewParts' BY <1>1, <1>2 DEF NewParts
<1>6. KnownFiles' /\ CompleteBytes' /\ RemovedFiles'
  BY <1>3 DEF KnownFiles, CompleteBytes, RemovedFiles, Working
<1>7. CopiedBytes' BY <1>1, <1>3 DEF Files, CopiedBytes, Working, BeforeChunks
<1>8. RecordedBytes'
  <2>1. partFiles[0] = "absent"
    <3>1. CASE Total(d) = 0
      <4>1. Known(d) = {} BY <3>1, TotalFacts
      <4> QED BY <1>1, <4>1, PartsFacts DEF Files, KnownFiles, Working
    <3>2. CASE Total(d) > 0
      BY <1>1, <3>2, PartsFacts DEF Files, RemovedFiles
    <3> QED BY <3>1, <3>2, TotalFacts
  <2> QED BY <1>1, <2>1, PartsFacts DEF RecordedBytes
<1> QED BY <1>4, <1>5, <1>6, <1>7, <1>8 DEF Files

LEMMA FilesClose ==
  ASSUME TypeOK, OneWriter, Files, NEW d \in Pullers, Close(d)
  PROVE  Files'
<1>1. /\ run[d] = "close" /\ run'[d] = "ended" /\ removed'[d] = 0
      /\ \A i \in Parts : parts'[d][i] = "unknown"
      /\ \A e \in Pullers : e # d =>
           run'[e] = run[e] /\ parts'[e] = parts[e] /\ removed'[e] = removed[e]
      /\ UNCHANGED <<partial, partFiles, pc>>
  BY DEF Close, RunTo, Forget, NoParts, TypeOK, disk, pullers
<1>2. pc[d] \notin Preparing BY <1>1 DEF Files, RunAfterPrepare
<1>3. \A e \in Pullers : e # d => Known(e)' = Known(e) BY <1>1 DEF Known
<1>4. RunAfterPrepare' BY <1>1, <1>2 DEF Files, RunAfterPrepare
<1>5. NewParts' BY <1>1, <1>2 DEF Files, NewParts, Preparing
<1>6. KnownFiles' BY <1>1, <1>3 DEF Files, KnownFiles, Working, BeforeChunks
<1>7. CopiedBytes' BY <1>1 DEF Files, CopiedBytes, BeforeChunks
<1>8. CompleteBytes' BY <1>1, <1>3 DEF Files, CompleteBytes, Working, BeforeChunks
<1>9. RemovedFiles' BY <1>1, <1>3 DEF Files, RemovedFiles
<1>10. RecordedBytes' BY <1>1 DEF Files, RecordedBytes
<1> QED BY <1>4, <1>5, <1>6, <1>7, <1>8, <1>9, <1>10 DEF Files

LEMMA FilesRunStep ==
  ASSUME TypeOK, OneWriter, Files, NEW d \in Pullers, RunStep(d)
  PROVE  Files'
<1>1. CASE StartRun(d)
  BY <1>1, FilesGoOn DEF StartRun, RunTo, disk, pullers
<1>2. CASE DirectURL(d)
  BY <1>2, FilesGoOn DEF DirectURL, RunTo, disk, pullers
<1>3. CASE OpenFails(d) \/ DirectURLFails(d)
  BY <1>3, LeavesFrame DEF OpenFails, DirectURLFails, Fails, RunTo, disk, pullers
<1>4. CASE Gathered(d)
  <2>1. /\ run[d] = "chunks" /\ UNCHANGED <<partial, partFiles, parts, removed, pc>>
        /\ \A i \in Known(d) : parts[d][i] \in {"complete", "failed"}
    BY <1>4 DEF Gathered, disk, pullers
  <2>2. CASE Failed(d)
    <3>1. run' = [run EXCEPT ![d] = "delete"] BY <1>4, <2>2 DEF Gathered, RunTo
    <3> QED BY <2>1, <3>1, LeavesFrame
  <2>3. CASE ~Failed(d)
    <3>1. run' = [run EXCEPT ![d] = "remove"] BY <1>4, <2>3 DEF Gathered, RunTo
    <3>2. \A i \in Known(d) : parts[d][i] = "complete" BY <2>1, <2>3 DEF Failed, Known
    <3> QED BY <2>1, <3>1, <3>2, FilesGoOn
  <2> QED BY <2>2, <2>3
<1>5. CASE RemovePart(d)
  <2>1. CASE partFiles[removed[d]] = "absent"
    BY <1>5, <2>1, LeavesFrame DEF RemovePart, Fails, RunTo, pullers
  <2>2. CASE partFiles[removed[d]] # "absent"
    BY <1>5, <2>2, FilesRemovePart
  <2> QED BY <2>1, <2>2
<1>6. CASE Delete(d)
  BY <1>6, LeavesFrame DEF Delete, RunTo, disk, pullers
<1> QED BY <1>1, <1>2, <1>3, <1>4, <1>5, <1>6, FilesOpenPartial, FilesRename, FilesClose DEF RunStep

-----------------------------------------------------------------------------
(* The other steps.                                                        *)

\* A puller before or after its Prepare.
LEMMA FilesPuller ==
  ASSUME TypeOK, Files, NEW p \in Pullers, NEW label, GoTo(p, label),
         label \notin Preparing \/ (label \in {"store", "prepare"} /\ pc[p] \in Preparing),
         UNCHANGED <<partial, partFiles, run, parts, removed>>
  PROVE  Files'
<1>1. \A q \in Pullers : pc'[q] = IF q = p THEN label ELSE pc[q] BY DEF GoTo, TypeOK
<1> QED BY <1>1, PullerFrame DEF Preparing

LEMMA FilesPullerStep ==
  ASSUME TypeOK, OneWriter, Files, NEW p \in Pullers, PullerStep(p)
  PROVE  Files'
<1>1. CASE PrepareStep(p)
  <2>1. CASE HeadFails(p) \/ NewPartFails(p)
    BY <2>1, FilesPrepareFails DEF HeadFails, NewPartFails, disk, downloads
  <2> QED BY <1>1, <2>1, FilesReadParts, FilesHeadAnswers, FilesCreatePart, FilesEncodePart
          DEF PrepareStep
<1>2. CASE ~PrepareStep(p)
  <2>1. UNCHANGED <<partial, partFiles, run, parts, removed>>
    BY <1>2 DEF PullerStep, Stat, LoadOrStore, Acquire, WaitDone, WaitCancelled, Verify,
                Discard, WriteManifest, disk, downloads
  <2>2. CASE Stat(p)
    <3>1. GoTo(p, "store") \/ Return(p, "success") \/ GoTo(p, "write")
      BY <2>2, Zenon DEF Stat
    <3>2. GoTo(p, "store") \/ GoTo(p, "end") \/ GoTo(p, "write") BY <3>1 DEF Return, GoTo
    <3>3. pc[p] \in Preparing BY <2>2 DEF Stat, Preparing
    <3> QED BY <2>1, <3>2, <3>3, FilesPuller DEF Preparing
  <2>3. CASE LoadOrStore(p)
    <3>1. pc[p] \in Preparing /\ (GoTo(p, "prepare") \/ GoTo(p, "acquire"))
      BY <2>3 DEF LoadOrStore, Preparing
    <3> QED BY <2>1, <3>1, FilesPuller DEF Preparing
  <2>4. CASE WaitDone(p)
    <3>1. Return(p, err[obj[p]]) \/ Return(p, "success") \/ GoTo(p, "verify")
      BY <2>4, Zenon DEF WaitDone
    <3>2. GoTo(p, "end") \/ GoTo(p, "verify") BY <3>1 DEF Return, GoTo
    <3> QED BY <2>1, <3>2, FilesPuller DEF Preparing
  <2>5. CASE Verify(p)
    <3>1. Return(p, "failed") \/ GoTo(p, "discard") \/ GoTo(p, "write") BY <2>5, Zenon DEF Verify
    <3>2. GoTo(p, "end") \/ GoTo(p, "discard") \/ GoTo(p, "write") BY <3>1 DEF Return, GoTo
    <3> QED BY <2>1, <3>2, FilesPuller DEF Preparing
  <2>6. CASE Acquire(p) \/ WaitCancelled(p) \/ Discard(p) \/ WriteManifest(p)
    <3>1. GoTo(p, "end") \/ GoTo(p, "wait")
      BY <2>6 DEF Acquire, WaitCancelled, Discard, WriteManifest, Return, GoTo
    <3> QED BY <2>1, <3>1, FilesPuller DEF Preparing
  <2> QED BY <1>2, <2>2, <2>3, <2>4, <2>5, <2>6 DEF PullerStep
<1> QED BY <1>1, <1>2

LEMMA FilesRestart ==
  ASSUME TypeOK, Files, Restart
  PROVE  Files'
<1>1. \A d \in Pullers :
        /\ run'[d] = "none" /\ removed'[d] = 0
        /\ \A i \in Parts : parts'[d][i] = "unknown"
        /\ pc'[d] \in {"idle", "end"}
  BY DEF Restart, NoParts
<1>2. RunAfterPrepare' /\ NewParts' /\ KnownFiles' /\ CopiedBytes' /\ CompleteBytes' /\ RemovedFiles'
  BY <1>1 DEF RunAfterPrepare, NewParts, KnownFiles, CopiedBytes, CompleteBytes, RemovedFiles,
              Working, BeforeChunks
<1>3. RecordedBytes'
  <2>1. ASSUME \A i \in Parts : partFiles'[i] # "absent", NEW i \in Parts, partFiles'[i] = "done"
        PROVE  partial'[i] \in Written
    <3>1. /\ \A j \in Parts : partFiles'[j] \in {"absent", partFiles[j]}
          /\ partial' \in {PartialKept, PartialGone}
      BY PruneFacts DEF Restart
    <3>2. partial[i] \in Written BY <2>1, <3>1 DEF Files, RecordedBytes
    <3> QED BY <2>1, <3>1, <3>2 DEF PartialKept, PartialGone, Recorded, Written
  <2> QED BY <2>1 DEF RecordedBytes
<1> QED BY <1>2, <1>3 DEF Files

LEMMA FilesStep ==
  ASSUME TypeOK, OneWriter, Files, [Next]_vars
  PROVE  Files'
<1>1. ASSUME NEW p \in Pullers, Cancel(p)
      PROVE  Files'
  BY <1>1, PullerFrame DEF Cancel, disk, downloads
<1>2. CASE UNCHANGED vars
  BY <1>2, PullerFrame DEF vars, disk, pullers, downloads
<1> QED BY <1>1, <1>2, FilesPullerStep, FilesRunStep, FilesChunkStep, FilesRestart DEF Next

-----------------------------------------------------------------------------
(* The invariant.                                                          *)

LEMMA InitIInv == Init => IInv
<1> SUFFICES ASSUME Init PROVE IInv
  OBVIOUS
<1>1. TypeOK
  <2>1. /\ published \in BOOLEAN /\ manifests \subseteq Pullers
        /\ manager \in Pullers \cup {NoPuller}
        /\ ctxDone \subseteq Pullers /\ cancelled \subseteq Pullers
    BY DEF Init
  <2>2. /\ blob \in [Parts -> Bytes] /\ partial \in [Parts -> Bytes]
        /\ partFiles \in [Parts -> Records]
    BY DEF Init, Empty, Bytes, Records
  <2>3. crashes \in 0..MaxCrashes /\ 0 \in 0..NParts
    BY ConstantsAssumption, PartsFacts DEF Init
  <2> QED BY <2>1, <2>2, <2>3 DEF Init, TypeOK, NoParts
<1>2. Counted
  <2>1. \A d \in Pullers : Waiters(d) = {} BY DEF Init, Waiters
  <2> QED BY <2>1, FS_EmptySet DEF Init, Counted
<1>3. OneWriter BY DEF Init, OneWriter, Active
<1>4. Files
  BY DEF Init, Files, RunAfterPrepare, NewParts, KnownFiles, CopiedBytes, CompleteBytes,
         RemovedFiles, RecordedBytes, NoParts, Working, BeforeChunks
<1> QED BY <1>1, <1>2, <1>3, <1>4 DEF IInv

LEMMA StepIInv == IInv /\ [Next]_vars => IInv'
BY TypeStep, CountedStep, OneWriterStep, FilesStep DEF IInv, Files

LEMMA Invariance == Spec => []IInv
BY InitIInv, StepIInv, PTL DEF Spec

\* Every variable has its type, and references never goes below zero.
THEOREM TypeCorrect == Spec => []TypeOK
<1>1. IInv => TypeOK BY DEF IInv
<1> QED BY <1>1, Invariance, PTL

\* However pulls start, leave, fail and crash, the files -partial and
\* -partial-N have one writer, the download in blobDownloadManager.
THEOREM OneWriterAlways == Spec => []OneWriter
<1>1. IInv => OneWriter BY DEF IInv
<1> QED BY <1>1, Invariance, PTL

\* A part recorded as complete has its bytes in -partial as long as no part
\* file is missing, unless a prune removed -partial and left the part file:
\* downloadChunk records after it copies, newPart and readPart agree with what
\* is there.
THEOREM RecordedBytesAlways == Spec => []RecordedBytes
<1>1. IInv => RecordedBytes BY DEF IInv, Files
<1> QED BY <1>1, Invariance, PTL

\* A download that knows all parts has all bytes when it starts to remove part
\* files and gives -partial the name of the digest, but for those that a prune
\* removed with -partial while it left the part file that records them.
THEOREM WholeAlways == Spec => []WholeBeforePublished
<1>1. ASSUME IInv
      PROVE  WholeBeforePublished
  <2>1. ASSUME NEW d \in Pullers, run[d] = "remove", Known(d) = Parts, NEW i \in Parts
        PROVE  partial[i] \in Written
    <3>1. parts[d][i] = "complete" BY <1>1, <2>1 DEF IInv, Files, RemovedFiles
    <3> QED BY <1>1, <2>1, <3>1 DEF IInv, Files, CompleteBytes, Working
  <2> QED BY <2>1 DEF WholeBeforePublished
<1> QED BY <1>1, Invariance, PTL

-----------------------------------------------------------------------------
(* Without a prune there is no exception.                                  *)

Unpruned == \A i \in Parts : partial[i] # "pruned"

\* Only a prune makes pruned bytes.
LEMMA UnprunedStep ==
  ASSUME ~Prunes, TypeOK, Unpruned, [Next]_vars
  PROVE  Unpruned'
<1>1. CASE partial' = partial BY <1>1 DEF Unpruned
<1>2. ASSUME NEW d \in Pullers, OpenPartial(d)
      PROVE  Unpruned'
  BY <1>2, FileTypes, TotalFacts DEF OpenPartial, Truncated, Unpruned, TypeOK
<1>3. ASSUME NEW d \in Pullers, NEW i \in Parts, CopyAll(d, i)
      PROVE  Unpruned'
  BY <1>3 DEF CopyAll, Completed, Served, WrittenAt, Unpruned, TypeOK
<1>4. ASSUME NEW d \in Pullers, Rename(d)
      PROVE  Unpruned'
  BY <1>4 DEF Rename, Empty, Unpruned
<1>5. CASE Restart
  BY <1>5 DEF Restart, Prune, PartialKept, Unpruned, TypeOK
<1>6. ASSUME NEW p \in Pullers, PullerStep(p) \/ Cancel(p)
      PROVE  partial' = partial
  BY <1>6 DEF PullerStep, PrepareStep, Stat, LoadOrStore, ReadParts, HeadAnswers, HeadFails,
              CreatePart, EncodePart, NewPartFails, Acquire, WaitDone, WaitCancelled,
              Verify, Discard, WriteManifest, Cancel, disk
<1>7. ASSUME NEW d \in Pullers, RunStep(d), ~OpenPartial(d), ~Rename(d)
      PROVE  partial' = partial
  BY <1>7 DEF RunStep, StartRun, OpenFails, DirectURL, DirectURLFails, Gathered,
              RemovePart, Delete, Close, disk
<1>8. ASSUME NEW d \in Pullers, NEW i \in Parts, ChunkStep(d, i), ~CopyAll(d, i)
      PROVE  partial' = partial
  BY <1>8 DEF ChunkStep, CopySome, ChunkGivesUp, ChunkCancelled, TruncatePart, RecordPart,
              RecordFails, disk
<1>9. CASE UNCHANGED vars BY <1>1, <1>9 DEF vars, disk
<1> QED BY <1>1, <1>2, <1>3, <1>4, <1>5, <1>6, <1>7, <1>8, <1>9 DEF Next

\* With OLLAMA_NOPRUNE set, a download that knows all parts publishes bytes that
\* the registry sent, whatever crashed, failed and was cancelled before.
THEOREM WholeWithoutPrune ==
  ASSUME ~Prunes
  PROVE  Spec => [](\A d \in Pullers :
                      run[d] = "remove" /\ Known(d) = Parts =>
                        \A i \in Parts : partial[i] \in {"good", "bad"})
<1>1. Init => Unpruned BY DEF Init, Empty, Unpruned
<1>2. TypeOK /\ Unpruned /\ [Next]_vars => Unpruned' BY UnprunedStep
<1>3. WholeBeforePublished /\ Unpruned =>
        \A d \in Pullers :
          run[d] = "remove" /\ Known(d) = Parts =>
            \A i \in Parts : partial[i] \in {"good", "bad"}
  BY DEF WholeBeforePublished, Unpruned, Written
<1> QED BY <1>1, <1>2, <1>3, TypeCorrect, WholeAlways, PTL DEF Spec
=============================================================================
