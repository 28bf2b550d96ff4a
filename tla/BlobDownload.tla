---------------------------- MODULE BlobDownload ----------------------------
(* The download of one blob, server/download.go, with what its two callers   *)
(* make of it: PullModel (server/images.go), which verifies the blob and     *)
(* writes a manifest that names it, and MediaPullHandler                     *)
(* (server/media_pull.go), which does neither.                               *)
(*                                                                           *)
(* A puller is one call of one of them.  The blobDownload that a puller      *)
(* creates is named after it.  Disk state survives a crash of the server.    *)
EXTENDS Integers, FiniteSets

CONSTANTS
  Pullers,       \* calls of PullModel and MediaPullHandler
  MediaPullers,  \* the latter
  NoPuller,
  Cancellable,   \* pullers whose client may leave
  NParts,        \* parts of the blob
  BadParts,      \* parts for which the registry may send other bytes
  NoLength,      \* the registry may leave out Content-Length
  FullDisk,      \* a write may fail
  Prunes,        \* the server prunes when it starts (OLLAMA_NOPRUNE unset)
  MaxCrashes     \* bound

ASSUME ConstantsAssumption ==
  /\ IsFiniteSet(Pullers) /\ NoPuller \notin Pullers
  /\ MediaPullers \subseteq Pullers /\ Cancellable \subseteq Pullers
  /\ NParts \in Nat \ {0} /\ MaxCrashes \in Nat
  /\ BadParts \subseteq 0..(NParts - 1) /\ NoLength \in BOOLEAN
  /\ FullDisk \in BOOLEAN /\ Prunes \in BOOLEAN

VARIABLES
  \* Disk.
  published,  \* whether the file named by the digest exists
  blob,       \* its bytes
  partial,    \* the bytes of the file -partial
  partFiles,  \* the files -partial-N
  manifests,  \* pullers whose manifest names the blob
  \* The process.
  manager,    \* blobDownloadManager: the download of the digest
  pc, obj,    \* where a puller is, the download it waits for
  ctxDone,    \* pullers whose context is done
  result,     \* what a puller returned
  run,        \* where the goroutine of a download is
  parts,      \* Parts of a download: where the goroutine of each part is
  removed,    \* part files the goroutine of a download has removed
  err,        \* its error
  references, \* its waiters
  cancelled,  \* downloads whose context is cancelled
  crashes

disk == <<published, blob, partial, partFiles, manifests>>
pullers == <<pc, obj, result, ctxDone>>
downloads == <<run, parts, removed, err, references, cancelled>>
vars == <<disk, manager, pullers, downloads, crashes>>

Parts == 0..NParts-1

(* The bytes of a part in a file: beyond its end, never written, written, and *)
(* "pruned" when the part file says that they were written but PruneLayers    *)
(* has taken the file they were in: a hole that the download takes for bytes. *)
(* A part is written whole or not: an interrupted one is fetched from where   *)
(* it stopped.                                                                *)
Bytes == {"none", "hole", "good", "bad", "pruned"}
Empty == [i \in Parts |-> "none"]
Good == [i \in Parts |-> "good"]
Served(i) == IF i \in BadParts THEN {"good", "bad"} ELSE {"good"}

\* Part files: missing, opened with O_TRUNC, and with Completed zero (newPart),
\* some of the part, all of it.
Records == {"absent", "empty", "started", "partly", "done"}

\* Truncate makes the file so many parts long, whichever parts they are.
Truncated(file, total) ==
  [i \in Parts |-> CASE file[i] = "pruned" -> "pruned"
                     [] file[i] # "pruned" /\ i >= total -> "none"
                     [] file[i] = "none" /\ i < total -> "hole"
                     [] OTHER -> file[i]]

\* A write at an offset; what it skips is a hole.
WrittenAt(file, i, bytes) ==
  [j \in Parts |-> IF j = i THEN bytes
                   ELSE IF j < i /\ file[j] = "none" THEN "hole" ELSE file[j]]

NoParts == [i \in Parts |-> "unknown"]

\* The parts a download knows, b.Parts, whose sizes add up to b.Total.
Known(d) == {i \in Parts : parts[d][i] # "unknown"}
Total(d) == Cardinality(Known(d))

\* Whether done is closed; whether run has set CancelFunc.
Done(d) == run[d] = "ended"
HasCancel(d) == run[d] \notin {"none", "start"}

GoTo(p, label) == pc' = [pc EXCEPT ![p] = label]
RunTo(d, label) == run' = [run EXCEPT ![d] = label]
PartTo(d, i, label) == parts' = [parts EXCEPT ![d][i] = label]
Return(p, value) ==
  /\ pc' = [pc EXCEPT ![p] = "end"]
  /\ result' = [result EXCEPT ![p] = value]

-----------------------------------------------------------------------------
(* downloadBlob up to Wait, in the goroutine of the puller.                *)

\* A file of that name is a cache hit: nobody verifies it.
Stat(p) ==
  /\ pc[p] = "idle"
  /\ CASE ~published -> GoTo(p, "store") /\ UNCHANGED result
       [] published /\ p \in MediaPullers -> Return(p, "success")
       [] OTHER -> GoTo(p, "write") /\ UNCHANGED result
  /\ UNCHANGED <<disk, manager, obj, ctxDone, downloads, crashes>>

LoadOrStore(p) ==
  /\ pc[p] = "store"
  /\ IF manager = NoPuller
     THEN manager' = p /\ GoTo(p, "prepare")
     ELSE manager' = manager /\ GoTo(p, "acquire")
  /\ obj' = [obj EXCEPT ![p] = manager']
  /\ UNCHANGED <<disk, result, ctxDone, downloads, crashes>>

\* Prepare failed: the entry is deleted, done is never closed.
PrepareFails(p, error) ==
  /\ manager' = NoPuller
  /\ Return(p, error)

\* go Run, then Wait.
Prepared(p) ==
  /\ RunTo(p, "start") /\ GoTo(p, "acquire")
  /\ UNCHANGED <<manager, result>>

\* readPart.
PartRead(i) ==
  CASE partFiles[i] = "absent" -> "unknown"
    [] partFiles[i] = "done" -> "complete"
    [] OTHER -> "fetch"

\* Prepare with the part files of an earlier attempt; a truncated one does
\* not decode.
ReadParts(p) ==
  /\ pc[p] = "prepare"
  /\ IF \E i \in Parts : partFiles[i] = "empty"
     THEN PrepareFails(p, "failed") /\ UNCHANGED <<run, parts>>
     ELSE /\ parts' = [parts EXCEPT ![p] = [i \in Parts |-> PartRead(i)]]
          /\ IF \A i \in Parts : partFiles[i] = "absent"
             THEN GoTo(p, "head") /\ UNCHANGED <<manager, result, run>>
             ELSE Prepared(p)
  /\ UNCHANGED <<disk, obj, ctxDone, removed, err, references, cancelled, crashes>>

\* Without Content-Length the blob has no parts.
HeadAnswers(p) ==
  /\ pc[p] = "head"
  /\ \/ GoTo(p, "newPart") /\ UNCHANGED <<manager, result, run>>
     \/ NoLength /\ Prepared(p)
  /\ UNCHANGED <<disk, obj, ctxDone, parts, removed, err, references, cancelled, crashes>>

HeadFails(p) ==
  /\ pc[p] = "head"
  /\ PrepareFails(p, IF p \in ctxDone THEN "canceled" ELSE "failed")
  /\ UNCHANGED <<disk, obj, ctxDone, downloads, crashes>>

\* The part that newPart makes next.
NextPart(p) == Total(p)

\* newPart: writePart opens the file with O_TRUNC ...
CreatePart(p) ==
  /\ pc[p] = "newPart" /\ partFiles[NextPart(p)] = "absent"
  /\ partFiles' = [partFiles EXCEPT ![NextPart(p)] = "empty"]
  /\ UNCHANGED <<published, blob, partial, manifests, manager, pullers, downloads, crashes>>

\* ... and encodes the part.
EncodePart(p) ==
  /\ pc[p] = "newPart" /\ partFiles[NextPart(p)] = "empty"
  /\ partFiles' = [partFiles EXCEPT ![NextPart(p)] = "started"]
  /\ PartTo(p, NextPart(p), "fetch")
  /\ IF NextPart(p) = NParts - 1
     THEN Prepared(p)
     ELSE UNCHANGED <<manager, pc, result, run>>
  /\ UNCHANGED <<published, blob, partial, manifests, obj, ctxDone, removed, err,
                 references, cancelled, crashes>>

\* writePart cannot open the file, or cannot fill it.
NewPartFails(p) ==
  /\ FullDisk /\ pc[p] = "newPart"
  /\ PrepareFails(p, "failed")
  /\ UNCHANGED <<disk, obj, ctxDone, downloads, crashes>>

-----------------------------------------------------------------------------
(* Run, in a goroutine of its own.                                         *)

\* context.WithCancel.
StartRun(d) ==
  /\ run[d] = "start"
  /\ RunTo(d, "open")
  /\ UNCHANGED <<disk, manager, pullers, parts, removed, err, references, cancelled, crashes>>

\* run returns: its deferred functions, then b.err and done.
Fails(d, error) ==
  /\ RunTo(d, "delete")
  /\ err' = [err EXCEPT ![d] = error]

\* OpenFile; the error of Truncate is ignored.
OpenPartial(d) ==
  /\ run[d] = "open"
  /\ RunTo(d, "url")
  /\ partial' \in {Truncated(partial, Total(d))} \cup (IF FullDisk THEN {partial} ELSE {})
  /\ UNCHANGED <<published, blob, partFiles, manifests, manager, pullers,
                 parts, removed, err, references, cancelled, crashes>>

OpenFails(d) ==
  /\ FullDisk /\ run[d] = "open"
  /\ Fails(d, "failed")
  /\ UNCHANGED <<disk, manager, pullers, parts, removed, references, cancelled, crashes>>

\* The redirect to the file; 30 seconds of retries.
DirectURL(d) ==
  /\ run[d] = "url"
  /\ RunTo(d, "chunks")
  /\ UNCHANGED <<disk, manager, pullers, parts, removed, err, references, cancelled, crashes>>

DirectURLFails(d) ==
  /\ run[d] = "url"
  /\ Fails(d, IF d \in cancelled THEN "canceled" ELSE "failed")
  /\ UNCHANGED <<disk, manager, pullers, parts, removed, references, cancelled, crashes>>

\* What a part consists of when the rest of it was fetched.
Completed(i) == Served(i) \cup (IF partial[i] = "pruned" THEN {"pruned"} ELSE {})

\* downloadChunk copies the body to its place: all that the part lacks,
CopyAll(d, i) ==
  /\ run[d] = "chunks" /\ parts[d][i] = "fetch"
  /\ \E bytes \in Completed(i) : partial' = WrittenAt(partial, i, bytes)
  /\ PartTo(d, i, "copied")
  /\ UNCHANGED <<published, blob, partFiles, manifests, manager, pullers,
                 run, removed, err, references, cancelled, crashes>>

\* Mutant of CopySome: a body that stops short is taken for the whole part.
CopySomeAsAll(d, i) ==
  /\ run[d] = "chunks" /\ parts[d][i] = "fetch"
  /\ PartTo(d, i, "copied")
  /\ UNCHANGED <<disk, manager, pullers, run, removed, err, references, cancelled, crashes>>

\* or what came before the connection broke, the transfer stalled or the
\* context ended.
CopySome(d, i) ==
  /\ run[d] = "chunks" /\ parts[d][i] = "fetch"
  /\ PartTo(d, i, "interrupted")
  /\ UNCHANGED <<disk, manager, pullers, run, removed, err, references, cancelled, crashes>>

\* The first error of the group cancels the others.
ChunkError(d, i, error) ==
  /\ PartTo(d, i, "failed")
  /\ err' = [err EXCEPT ![d] = IF @ = "nil" THEN error ELSE @]

GroupDone(d) == d \in cancelled \/ err[d] # "nil"

\* maxRetries.
ChunkGivesUp(d, i) ==
  /\ run[d] = "chunks" /\ parts[d][i] = "fetch"
  /\ ChunkError(d, i, "failed")
  /\ UNCHANGED <<disk, manager, pullers, run, removed, references, cancelled, crashes>>

ChunkCancelled(d, i) ==
  /\ run[d] = "chunks" /\ parts[d][i] = "fetch" /\ GroupDone(d)
  /\ ChunkError(d, i, "canceled")
  /\ UNCHANGED <<disk, manager, pullers, run, removed, references, cancelled, crashes>>

\* writePart records the progress of the part: O_TRUNC ...
TruncatePart(d, i) ==
  /\ run[d] = "chunks" /\ parts[d][i] \in {"copied", "interrupted"}
  /\ partFiles[i] # "empty"
  /\ partFiles' = [partFiles EXCEPT ![i] = "empty"]
  /\ UNCHANGED <<published, blob, partial, manifests, manager, pullers, downloads, crashes>>

\* ... and the part.  The attempt is over: a whole part ends its goroutine,
\* an interrupted one is retried, and in either case the goroutine may find
\* the context done.
RecordPart(d, i) ==
  /\ run[d] = "chunks" /\ parts[d][i] \in {"copied", "interrupted"}
  /\ partFiles[i] = "empty"
  /\ partFiles' = [partFiles EXCEPT ![i] = IF parts[d][i] = "copied" THEN "done" ELSE "partly"]
  /\ \/ PartTo(d, i, IF parts[d][i] = "copied" THEN "complete" ELSE "fetch") /\ UNCHANGED err
     \/ GroupDone(d) /\ ChunkError(d, i, "canceled")
  /\ UNCHANGED <<published, blob, partial, manifests, manager, pullers,
                 run, removed, references, cancelled, crashes>>

\* ENOSPC ends the attempt at once.
RecordFails(d, i) ==
  /\ FullDisk /\ run[d] = "chunks" /\ parts[d][i] \in {"copied", "interrupted"}
  /\ ChunkError(d, i, "failed")
  /\ UNCHANGED <<disk, manager, pullers, run, removed, references, cancelled, crashes>>

\* Mutant of Failed: the error of the group is not looked at.
FailedNever(d) == FALSE

Failed(d) == \E i \in Parts : parts[d][i] = "failed"

\* g.Wait.
Gathered(d) ==
  /\ run[d] = "chunks"
  /\ \A i \in Known(d) : parts[d][i] \in {"complete", "failed"}
  /\ RunTo(d, IF Failed(d) THEN "delete" ELSE "remove")
  /\ UNCHANGED <<disk, manager, pullers, parts, removed, err, references, cancelled, crashes>>

\* The part files go first, by their index in b.Parts ...
RemovePart(d) ==
  /\ run[d] = "remove" /\ removed[d] < Total(d)
  /\ IF partFiles[removed[d]] = "absent"
     THEN Fails(d, "failed") /\ UNCHANGED <<partFiles, removed>>
     ELSE /\ partFiles' = [partFiles EXCEPT ![removed[d]] = "absent"]
          /\ removed' = [removed EXCEPT ![d] = @ + 1]
          /\ UNCHANGED <<run, err>>
  /\ UNCHANGED <<published, blob, partial, manifests, manager, pullers,
                 parts, references, cancelled, crashes>>

\* ... then the file gets its name.
Rename(d) ==
  /\ run[d] = "remove" /\ removed[d] = Total(d)
  /\ published' = TRUE /\ blob' = partial /\ partial' = Empty
  /\ RunTo(d, "delete")
  /\ UNCHANGED <<partFiles, manifests, manager, pullers, parts, removed, err,
                 references, cancelled, crashes>>

\* blobDownloadManager.Delete, deferred.
Delete(d) ==
  /\ run[d] = "delete"
  /\ manager' = NoPuller
  /\ RunTo(d, "close")
  /\ UNCHANGED <<disk, pullers, parts, removed, err, references, cancelled, crashes>>

\* Nothing reads Parts when the goroutine has ended.
Forget(d) ==
  /\ parts' = [parts EXCEPT ![d] = NoParts]
  /\ removed' = [removed EXCEPT ![d] = 0]

\* Mutant of Close: done is closed on the way to success only.
CloseIfNil(d) ==
  /\ run[d] = "close" /\ err[d] = "nil"
  /\ RunTo(d, "ended") /\ Forget(d)
  /\ UNCHANGED <<disk, manager, pullers, err, references, cancelled, crashes>>

\* b.err, close(b.done).
Close(d) ==
  /\ run[d] = "close"
  /\ RunTo(d, "ended") /\ Forget(d)
  /\ UNCHANGED <<disk, manager, pullers, err, references, cancelled, crashes>>

-----------------------------------------------------------------------------
(* Wait, and what the callers do then.                                     *)

\* Mutant of Acquire: the one that started the download is not counted.
AcquireJoined(p) ==
  /\ pc[p] = "acquire"
  /\ references' = IF obj[p] = p THEN references ELSE [references EXCEPT ![obj[p]] = @ + 1]
  /\ GoTo(p, "wait")
  /\ UNCHANGED <<disk, manager, obj, result, ctxDone, run, parts, removed, err, cancelled, crashes>>

Acquire(p) ==
  /\ pc[p] = "acquire"
  /\ references' = [references EXCEPT ![obj[p]] = @ + 1]
  /\ GoTo(p, "wait")
  /\ UNCHANGED <<disk, manager, obj, result, ctxDone, run, parts, removed, err, cancelled, crashes>>

\* Mutant of Release: a download that nobody waits for makes room at once.
ReleaseDeletes(d) ==
  /\ references' = [references EXCEPT ![d] = @ - 1]
  /\ IF references'[d] = 0 /\ HasCancel(d)
     THEN cancelled' = cancelled \cup {d} /\ manager' = IF manager = d THEN NoPuller ELSE manager
     ELSE UNCHANGED <<cancelled, manager>>

\* release: the last waiter cancels the download, if it has a CancelFunc yet.
Release(d) ==
  /\ references' = [references EXCEPT ![d] = @ - 1]
  /\ cancelled' = IF references'[d] = 0 /\ HasCancel(d) THEN cancelled \cup {d} ELSE cancelled
  /\ UNCHANGED manager

\* Wait returns b.err; MediaPullHandler has what it wants, PullModel verifies.
WaitDone(p) ==
  /\ pc[p] = "wait" /\ Done(obj[p])
  /\ Release(obj[p])
  /\ CASE err[obj[p]] # "nil" -> Return(p, err[obj[p]])
       [] err[obj[p]] = "nil" /\ p \in MediaPullers -> Return(p, "success")
       [] OTHER -> GoTo(p, "verify") /\ UNCHANGED result
  /\ UNCHANGED <<disk, obj, ctxDone, run, parts, removed, err, crashes>>

WaitCancelled(p) ==
  /\ pc[p] = "wait" /\ p \in ctxDone
  /\ Release(obj[p])
  /\ Return(p, "canceled")
  /\ UNCHANGED <<disk, obj, ctxDone, run, parts, removed, err, crashes>>

\* verifyBlob.
Verify(p) ==
  /\ pc[p] = "verify"
  /\ CASE ~published -> Return(p, "failed")
       [] published /\ blob = Good -> GoTo(p, "write") /\ UNCHANGED result
       [] OTHER -> GoTo(p, "discard") /\ UNCHANGED result
  /\ UNCHANGED <<disk, manager, obj, ctxDone, downloads, crashes>>

\* errDigestMismatch: whatever has the name by now is removed.
Discard(p) ==
  /\ pc[p] = "discard"
  /\ published' = FALSE /\ blob' = Empty
  /\ Return(p, "failed")
  /\ UNCHANGED <<partial, partFiles, manifests, manager, obj, ctxDone, downloads, crashes>>

\* WriteManifestData.
WriteManifest(p) ==
  /\ pc[p] = "write"
  /\ manifests' = manifests \cup {p}
  /\ Return(p, "success")
  /\ UNCHANGED <<published, blob, partial, partFiles, manager, obj, ctxDone, downloads, crashes>>

\* The client leaves.
Cancel(p) ==
  /\ p \in Cancellable /\ pc[p] \notin {"idle", "end"}
  /\ ctxDone' = ctxDone \cup {p}
  /\ UNCHANGED <<disk, manager, pc, obj, result, downloads, crashes>>

-----------------------------------------------------------------------------
(* A crash and a new start of the server.                                  *)

\* -partial after a prune that removed it, and after one that did not.  A part
\* without a record is not asked for its bytes.
Recorded(i) == partFiles'[i] \in {"partly", "done"}
PartialGone == [i \in Parts |-> IF Recorded(i) THEN "pruned" ELSE "none"]
PartialKept ==
  [i \in Parts |-> IF partial[i] = "pruned" /\ ~Recorded(i) THEN "hole" ELSE partial[i]]

(* PruneLayers removes the files that were not written for an hour and are no *)
(* blobs, each by itself: -partial, then the part files.  A file that is      *)
(* younger stays, as does one that cannot be removed, or that comes after a   *)
(* crash.  A blob that no manifest names goes too.                            *)
Prune ==
  \/ UNCHANGED <<published, blob, partFiles>> /\ partial' = PartialKept
  \/ /\ Prunes
     /\ \E old \in SUBSET Parts :
          partFiles' = [i \in Parts |-> IF i \in old THEN "absent" ELSE partFiles[i]]
     /\ partial' \in {PartialKept, PartialGone}
     /\ \/ UNCHANGED <<published, blob>>
        \/ manifests = {} /\ published' = FALSE /\ blob' = Empty

Restart ==
  /\ crashes < MaxCrashes
  /\ crashes' = crashes + 1
  /\ Prune
  /\ manager' = NoPuller
  /\ pc' = [p \in Pullers |-> IF pc[p] = "idle" THEN "idle" ELSE "end"]
  /\ result' = [p \in Pullers |-> IF pc[p] \in {"idle", "end"} THEN result[p] ELSE "lost"]
  /\ obj' = [p \in Pullers |-> NoPuller]
  /\ run' = [d \in Pullers |-> "none"]
  /\ parts' = [d \in Pullers |-> NoParts]
  /\ removed' = [d \in Pullers |-> 0]
  /\ err' = [d \in Pullers |-> "nil"]
  /\ references' = [d \in Pullers |-> 0]
  /\ cancelled' = {}
  /\ UNCHANGED <<manifests, ctxDone>>

-----------------------------------------------------------------------------

Init ==
  /\ published = FALSE /\ blob = Empty /\ partial = Empty
  /\ partFiles = [i \in Parts |-> "absent"] /\ manifests = {}
  /\ manager = NoPuller
  /\ pc = [p \in Pullers |-> "idle"] /\ obj = [p \in Pullers |-> NoPuller]
  /\ ctxDone = {} /\ result = [p \in Pullers |-> "none"]
  /\ run = [d \in Pullers |-> "none"]
  /\ parts = [d \in Pullers |-> NoParts]
  /\ removed = [d \in Pullers |-> 0] /\ err = [d \in Pullers |-> "nil"]
  /\ references = [d \in Pullers |-> 0] /\ cancelled = {}
  /\ crashes = 0

PrepareStep(p) ==
  \/ ReadParts(p) \/ HeadAnswers(p) \/ HeadFails(p)
  \/ CreatePart(p) \/ EncodePart(p) \/ NewPartFails(p)

PullerStep(p) ==
  \/ Stat(p) \/ LoadOrStore(p) \/ PrepareStep(p) \/ Acquire(p)
  \/ WaitDone(p) \/ WaitCancelled(p)
  \/ Verify(p) \/ Discard(p) \/ WriteManifest(p)

ChunkStep(d, i) ==
  \/ CopyAll(d, i) \/ CopySome(d, i) \/ ChunkGivesUp(d, i) \/ ChunkCancelled(d, i)
  \/ TruncatePart(d, i) \/ RecordPart(d, i) \/ RecordFails(d, i)

RunStep(d) ==
  \/ StartRun(d) \/ OpenPartial(d) \/ OpenFails(d)
  \/ DirectURL(d) \/ DirectURLFails(d)
  \/ Gathered(d) \/ RemovePart(d) \/ Rename(d) \/ Delete(d) \/ Close(d)

Next ==
  \/ \E p \in Pullers : PullerStep(p) \/ RunStep(p) \/ Cancel(p)
  \/ \E d \in Pullers, i \in Parts : ChunkStep(d, i)
  \/ Restart

Spec == Init /\ [][Next]_vars

(* While some goroutine can go on, one does: far less than fairness to each.  *)
(* The network lets a transfer that is tried again and again succeed.        *)
GoesOn ==
  \E p \in Pullers :
    \/ pc[p] # "idle" /\ PullerStep(p)
    \/ RunStep(p)
    \/ \E i \in Parts : ChunkStep(p, i)

Fairness ==
  /\ WF_vars(GoesOn)
  /\ SF_vars(\E d \in Pullers, i \in Parts : CopyAll(d, i))

FairSpec == Spec /\ Fairness

-----------------------------------------------------------------------------
(* Properties.                                                             *)

\* Types: every variable has its type, and the references of a download are
\* a number of waiters.
TypeOK ==
  /\ published \in BOOLEAN /\ blob \in [Parts -> Bytes] /\ partial \in [Parts -> Bytes]
  /\ partFiles \in [Parts -> Records]
  /\ manifests \subseteq Pullers
  /\ manager \in Pullers \cup {NoPuller}
  /\ pc \in [Pullers -> {"idle", "store", "prepare", "head", "newPart", "acquire",
                         "wait", "verify", "discard", "write", "end"}]
  /\ obj \in [Pullers -> Pullers \cup {NoPuller}]
  /\ \A p \in Pullers :
       pc[p] \in {"prepare", "head", "newPart", "acquire", "wait"} => obj[p] \in Pullers
  /\ ctxDone \subseteq Pullers
  /\ result \in [Pullers -> {"none", "success", "failed", "canceled", "lost"}]
  /\ run \in [Pullers -> {"none", "start", "open", "url", "chunks", "remove",
                          "delete", "close", "ended"}]
  /\ parts \in [Pullers -> [Parts -> {"unknown", "fetch", "copied", "interrupted",
                                      "complete", "failed"}]]
  /\ removed \in [Pullers -> 0..NParts]
  /\ err \in [Pullers -> {"nil", "canceled", "failed"}]
  /\ references \in [Pullers -> Nat]
  /\ cancelled \subseteq Pullers
  /\ crashes \in 0..MaxCrashes

\* The downloads that use the files of the digest.
Active(d) ==
  \/ pc[d] \in {"prepare", "head", "newPart"}
  \/ run[d] \in {"start", "open", "url", "chunks", "remove", "delete"}

\* However pulls start, leave and fail, the files -partial and -partial-N have
\* one writer: the download in the manager (sync.Map, the deferred Delete).
OneWriter == \A d \in Pullers : Active(d) => manager = d

\* Bytes that were written, or were before a prune took their file.
Written == {"good", "bad", "pruned"}

\* A part recorded as complete was copied to its place before: whatever
\* crashes, a download that resumes from a full set of part files misses none
\* of their bytes (the order of CopyN and writePart in downloadChunk), except
\* those of a -partial that a prune took while it left their part file.
RecordedBytes ==
  (\A i \in Parts : partFiles[i] # "absent") =>
    \A i \in Parts : partFiles[i] = "done" => partial[i] \in Written

\* A download that knows every part has all bytes, with the same exception,
\* when it starts to remove part files and to publish (g.Wait before the end
\* of run).
WholeBeforePublished ==
  \A d \in Pullers :
    run[d] = "remove" /\ Known(d) = Parts => \A i \in Parts : partial[i] \in Written

\* A download whose Prepare failed: it is in nobody's hands and never ends.
Orphan(d) == run[d] = "none" /\ pc[d] = "end"

\* A pull that has started ends, or waits for a download whose Prepare failed
\* (close(b.done) in Run, the group of run, retries).
PullEnds ==
  \A p \in Pullers :
    pc[p] # "idle" ~> pc[p] = "end" \/ (pc[p] = "wait" /\ Orphan(obj[p]))

\* "Cancelled pulls are resumed from where they left off", also by a server
\* that was stopped and started again while no pull was under way: what an
\* honest registry sends is published whole (Prepare, PruneLayers).
CancelledPullsResume ==
  published /\ (\A p \in Pullers : result[p] # "lost") => blob = Good
=============================================================================
