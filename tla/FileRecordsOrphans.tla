-------------------------- MODULE FileRecordsOrphans --------------------------
(***************************************************************************)
(* What run orphan finds is for good, for all values of the constants of   *)
(* FileRecords: a location without a blob is never removed, and no upload  *)
(* of its key to its store is answered with success any more.              *)
(***************************************************************************)
EXTENDS FileRecordsAnswers

Orphan(l) == l \in locs /\ blobs[l.blob] = "absent"

\* Between its first write and its commit a request has the lock to itself.
LockOwned == \A q \in Requests : pc[q] \in {"putLocked", "fanout", "deleteLocked"} => writer = q

\* As long as its snapshot is current, what a delete has read are rows that
\* exist; nothing else reads files to delete.
Uploading == {"setup", "setupTx", "putLocked", "transfer", "writing", "stored",
              "finalizeTx", "fanout"}
Read(q) == cur[q] \cup victims[q] \cup doomed[q]
ReadsCurrent ==
    \A q \in Requests :
        /\ q \in Uploads \/ pc[q] = "idle" => Read(q) = {}
        /\ pc[q] \in Erasing => q \notin Uploads
        /\ pc[q] \in Uploading => q \in Uploads
        /\ fresh[q] => Read(q) \subseteq Present

\* The path that a fan-out has found free stays free up to its commit.
PathsFree == \A r \in Uploads : pc[r] = "fanout" => ~PathTaken(r, store[r])

\* The lock goes to requests one after the other, and back at their end.
LEMMA OwnedStep ==
    ASSUME TypeOK, LockOwned, [Next]_vars
    PROVE  LockOwned'
<1> USE RequestsAssumption DEF TypeOK, LockOwned
<1>1. ASSUME NEW r \in Requests,
             \/ Reject(r) \/ Arrive(r) \/ BeginDelete(r) \/ BeginS3Delete(r)
             \/ BeginSetup(r) \/ UploadRemote(r) \/ UploadLocalOpen(r)
             \/ UploadLocalRename(r) \/ BeginFinalize(r) \/ SyncFileToStore(r)
             \/ DeleteObject(r)
      PROVE  LockOwned'
  <2>1. /\ UNCHANGED writer /\ \A q \in Requests \ {r} : pc'[q] = pc[q]
        /\ pc'[r] = pc[r] \/ pc'[r] \notin {"putLocked", "fanout", "deleteLocked"}
    BY <1>1 DEF Reject, Arrive, BeginDelete, BeginS3Delete, BeginSetup, UploadRemote,
       UploadLocalOpen, UploadLocalRename, BeginFinalize, SyncFileToStore, DeleteObject
  <2> QED
    BY <2>1
<1>2. ASSUME NEW r \in Requests,
             \/ SetupFails(r) \/ UploadFails(r) \/ FinalizeConflict(r)
             \/ UploadRetry(r) \/ UploadGivesUp(r) \/ S3DeleteNothing(r)
             \/ DeleteLocked(r) \/ Abort(r)
      PROVE  LockOwned'
  <2>1. /\ writer' = IF writer = r THEN None ELSE writer
        /\ \A q \in Requests \ {r} : pc'[q] = pc[q]
        /\ pc'[r] \in {"failed", "setup", "done", "aborted"}
    BY <1>2 DEF SetupFails, UploadFails, FinalizeConflict, UploadRetry, UploadGivesUp,
       S3DeleteNothing, DeleteLocked, Abort, Fail, Rollback
  <2> QED
    BY <2>1
<1>3. ASSUME NEW r \in Requests,
             PutPrepare(r) \/ Finalize(r) \/ DeleteRows(r) \/ DeleteLastRows(r)
      PROVE  LockOwned'
  <2>1. /\ writer \in {None, r} /\ writer' = r
        /\ \A q \in Requests \ {r} : pc'[q] = pc[q]
    BY <1>3 DEF PutPrepare, Finalize, DeleteRows, DeleteLastRows, Lock, CanWrite
  <2> QED
    BY <2>1
<1>4. ASSUME NEW r \in Requests,
             \/ UploadSetup(r) \/ PutSetup(r) \/ FinalizeCommit(r) \/ DeleteCommit(r)
             \/ S3DeleteRows(r)
      PROVE  LockOwned'
  <2>1. /\ writer \in {None, r}
        /\ \A q \in Requests \ {r} : pc'[q] = pc[q]
        /\ pc'[r] \in {"transfer", "done"}
    BY <1>4 DEF UploadSetup, PutSetup, FinalizeCommit, DeleteCommit, S3DeleteRows, CanWrite
  <2> QED
    BY <2>1
<1>5. CASE OtherCommit \/ UNCHANGED vars
  BY <1>5 DEF OtherCommit, vars
<1> QED
  BY <1>1, <1>2, <1>3, <1>4, <1>5 DEF Next, Step

\* Who writes the rows, in the three ways in which they change, and what it
\* deletes exists.
LEMMA RowWriters ==
    ASSUME TypeOK, LockOwned, ReadsCurrent, LockHeldByOpenTransaction, [Next]_vars
    PROVE  \/ UNCHANGED <<files, blobs, locs>>
           \/ \E r \in Requests :
                /\ writer \in {None, r}
                /\ Commit(r)
                /\ UNCHANGED <<store, deletion>>
                /\ pc' = [pc EXCEPT ![r] = "transfer"] \/ pc' = [pc EXCEPT ![r] = "done"]
                /\ \/ pc[r] \in {"setupTx", "putLocked"} /\ CreatePendingFileUpload(r)
                   \/ \E D \in SUBSET Present : DeleteFileEverywhere(D)
                   \/ pc[r] = "fanout" /\ MarkFileUploadReady(r)
<1> USE DEF TypeOK, rows
<1>1. ASSUME NEW r \in Requests, UploadSetup(r) \/ PutSetup(r) \/ FinalizeCommit(r)
      PROVE  /\ writer \in {None, r} /\ Commit(r)
             /\ UNCHANGED <<store, deletion>>
             /\ pc' = [pc EXCEPT ![r] = "transfer"] \/ pc' = [pc EXCEPT ![r] = "done"]
             /\ \/ pc[r] \in {"setupTx", "putLocked"} /\ CreatePendingFileUpload(r)
                \/ pc[r] = "fanout" /\ MarkFileUploadReady(r)
  BY <1>1 DEF UploadSetup, PutSetup, FinalizeCommit, CanWrite, LockOwned
<1>2. ASSUME NEW r \in Requests, DeleteCommit(r) \/ S3DeleteRows(r)
      PROVE  /\ writer \in {None, r} /\ Commit(r)
             /\ UNCHANGED <<store, deletion>>
             /\ pc' = [pc EXCEPT ![r] = "done"]
             /\ \E D \in SUBSET Present : DeleteFileEverywhere(D)
  <2>1. CASE DeleteCommit(r)
    <3>1. writer = r /\ fresh[r]
      BY <2>1, RequestsAssumption DEF DeleteCommit, LockOwned, LockHeldByOpenTransaction
    <3>2. doomed[r] \subseteq Present
      BY <3>1 DEF ReadsCurrent, Read
    <3> QED
      BY <2>1, <3>1, <3>2 DEF DeleteCommit
  <2>2. CASE S3DeleteRows(r)
    <3>1. cur[r] \subseteq Present
      BY <2>2 DEF S3DeleteRows, CanWrite, ReadsCurrent, Read
    <3> QED
      BY <2>2, <3>1 DEF S3DeleteRows, CanWrite
  <2> QED
    BY <1>2, <2>1, <2>2
<1>3. ASSUME NEW r \in Requests,
             \/ Reject(r) \/ Arrive(r) \/ BeginDelete(r) \/ BeginS3Delete(r)
             \/ BeginSetup(r) \/ SetupFails(r) \/ PutPrepare(r) \/ UploadRemote(r)
             \/ UploadLocalOpen(r) \/ UploadLocalRename(r) \/ UploadFails(r)
             \/ BeginFinalize(r) \/ Finalize(r) \/ FinalizeConflict(r)
             \/ SyncFileToStore(r) \/ UploadRetry(r) \/ UploadGivesUp(r)
             \/ DeleteObject(r) \/ DeleteRows(r) \/ DeleteLastRows(r)
             \/ S3DeleteNothing(r) \/ DeleteLocked(r) \/ Abort(r)
      PROVE  UNCHANGED <<files, blobs, locs>>
  BY <1>3 DEF Reject, Arrive, BeginDelete, BeginS3Delete, BeginSetup, SetupFails,
     PutPrepare, UploadRemote, UploadLocalOpen, UploadLocalRename, UploadFails,
     BeginFinalize, Finalize, FinalizeConflict, SyncFileToStore, UploadRetry,
     UploadGivesUp, DeleteObject, DeleteRows, DeleteLastRows, S3DeleteNothing,
     DeleteLocked, Abort
<1>4. OtherCommit \/ UNCHANGED vars => UNCHANGED <<files, blobs, locs>>
  BY DEF OtherCommit, vars
<1> QED
  BY <1>1, <1>2, <1>3, <1>4 DEF Next, Step

\* Reading happens on a snapshot that is current at that moment; every change of
\* the rows makes all snapshots stale.
LEMMA ReadsStep ==
    ASSUME TypeOK, ReadsCurrent, [Next]_vars
    PROVE  ReadsCurrent'
<1> USE DEF TypeOK, ReadsCurrent, Read, Present, Uploads, Uploading, Erasing, deletion
<1>1. ASSUME NEW r \in Requests,
             \/ Reject(r) \/ Arrive(r) \/ PutPrepare(r) \/ UploadRemote(r)
             \/ UploadLocalOpen(r) \/ UploadLocalRename(r) \/ Finalize(r)
             \/ SyncFileToStore(r) \/ BeginSetup(r) \/ BeginFinalize(r)
      PROVE  ReadsCurrent'
  <2>1. /\ UNCHANGED <<files, cur, victims, doomed>>
        /\ r \in Uploads \/ UNCHANGED fresh
        /\ fresh' = [fresh EXCEPT ![r] = TRUE] \/ UNCHANGED fresh
        /\ \A q \in Requests \ {r} : pc'[q] = pc[q]
        /\ pc'[r] \notin Erasing \cup {"idle"}
        /\ pc'[r] \in Uploading => r \in Uploads
    BY <1>1 DEF Reject, Arrive, PutPrepare, UploadRemote, UploadLocalOpen,
       UploadLocalRename, Finalize, SyncFileToStore, BeginSetup, BeginFinalize,
       Snapshot, rows, Points
  <2> QED
    BY <2>1
<1>2. ASSUME NEW r \in Requests,
             \/ SetupFails(r) \/ UploadFails(r) \/ FinalizeConflict(r)
             \/ UploadRetry(r) \/ UploadGivesUp(r) \/ S3DeleteNothing(r)
             \/ DeleteLocked(r) \/ Abort(r)
      PROVE  ReadsCurrent'
  <2>1. /\ UNCHANGED <<files, cur, victims, doomed>>
        /\ fresh' = [fresh EXCEPT ![r] = FALSE]
        /\ \A q \in Requests \ {r} : pc'[q] = pc[q]
        /\ pc'[r] \notin Erasing \cup {"idle"}
        /\ pc'[r] \in Uploading => r \in Uploads
    BY <1>2 DEF SetupFails, UploadFails, FinalizeConflict, UploadRetry, UploadGivesUp,
       S3DeleteNothing, DeleteLocked, Abort, Fail, Rollback, rows
  <2> QED
    BY <2>1
<1>3. ASSUME NEW r \in Requests, BeginDelete(r) \/ BeginS3Delete(r)
      PROVE  ReadsCurrent'
  <2>1. /\ pc[r] = "idle" /\ r \notin Uploads /\ UNCHANGED files
        /\ pc' = [pc EXCEPT ![r] = "deleteTx"] \/ pc' = [pc EXCEPT ![r] = "s3delTx"]
        /\ fresh' = [fresh EXCEPT ![r] = TRUE]
        /\ UNCHANGED doomed /\ doomed[r] = {}
        /\ \A q \in Requests \ {r} : cur'[q] = cur[q] /\ victims'[q] = victims[q]
    BY <1>3 DEF BeginDelete, BeginS3Delete, Snapshot, rows
  <2>2. cur'[r] \cup victims'[r] \subseteq Present
    <3>1. CASE BeginDelete(r)
      BY <3>1 DEF BeginDelete
    <3>2. CASE BeginS3Delete(r)
      BY <3>2 DEF BeginS3Delete, ReadyAt
    <3> QED
      BY <1>3, <3>1, <3>2
  <2> QED
    BY <2>1, <2>2
<1>4. ASSUME NEW r \in Requests, DeleteObject(r) \/ DeleteRows(r) \/ DeleteLastRows(r)
      PROVE  ReadsCurrent'
  <2>1. /\ r \notin Uploads /\ pc[r] = "deleteTx" /\ UNCHANGED <<files, fresh>>
        /\ \A q \in Requests \ {r} : pc'[q] = pc[q] /\ Read(q)' = Read(q)
        /\ pc'[r] \in {"deleteTx", "deleteLocked"}
    <3>1. CASE DeleteObject(r)
      BY <3>1 DEF DeleteObject, rows
    <3>2. CASE DeleteRows(r)
      BY <3>2 DEF DeleteRows, rows
    <3>3. CASE DeleteLastRows(r)
      BY <3>3 DEF DeleteLastRows, rows
    <3> QED
      BY <1>4, <3>1, <3>2, <3>3
  <2>2. Read(r)' \subseteq Read(r)
    <3>1. CASE DeleteObject(r)
      BY <3>1 DEF DeleteObject
    <3>2. CASE DeleteRows(r)
      BY <3>2 DEF DeleteRows
    <3>3. CASE DeleteLastRows(r)
      BY <3>3 DEF DeleteLastRows
    <3> QED
      BY <1>4, <3>1, <3>2, <3>3
  <2>3. Present' = Present
    BY <2>1
  <2>4. pc'[r] \notin Uploading \cup {"idle"} /\ r \notin Uploads
    BY <2>1
  <2>5. SUFFICES ASSUME NEW q \in Requests
                 PROVE  /\ q \in Uploads \/ pc'[q] = "idle" => Read(q)' = {}
                        /\ pc'[q] \in Erasing => q \notin Uploads
                        /\ pc'[q] \in Uploading => q \in Uploads
                        /\ fresh'[q] => Read(q)' \subseteq Present'
    OBVIOUS
  <2>6. CASE q = r
    BY <2>1, <2>2, <2>3, <2>4, <2>6
  <2>7. CASE q # r
    BY <2>1, <2>3, <2>7
  <2> QED
    BY <2>6, <2>7
<1>5. CASE OtherCommit \/ UNCHANGED vars
  BY <1>5 DEF OtherCommit, vars, rows
<1>6. ASSUME NEW r \in Requests,
             \/ UploadSetup(r) \/ PutSetup(r) \/ FinalizeCommit(r) \/ DeleteCommit(r)
             \/ S3DeleteRows(r)
      PROVE  ReadsCurrent'
  <2>1. /\ \A q \in Requests : ~fresh'[q]
        /\ UNCHANGED <<cur, victims, doomed>>
        /\ \A q \in Requests \ {r} : pc'[q] = pc[q]
        /\ \/ pc'[r] = "done"
           \/ pc'[r] = "transfer" /\ r \in Uploads
    BY <1>6 DEF UploadSetup, PutSetup, FinalizeCommit, DeleteCommit, S3DeleteRows, Commit
  <2> QED
    BY <2>1
<1> QED
  BY <1>1, <1>2, <1>3, <1>4, <1>5, <1>6 DEF Next, Step

\* Where the steps of a request that this is about end.
LEMMA Moments ==
    ASSUME TypeOK, NEW r \in Requests, Acts(r)
    PROVE  /\ pc'[r] = "fanout" => SyncFileToStore(r) \/ Finalize(r)
           /\ pc'[r] = "done" => pc[r] \in Erasing \/ FinalizeCommit(r)
<1> USE DEF TypeOK, Erasing
<1>1. CASE \/ Reject(r) \/ Arrive(r) \/ BeginDelete(r) \/ BeginS3Delete(r)
           \/ BeginSetup(r) \/ UploadSetup(r) \/ PutPrepare(r) \/ PutSetup(r)
           \/ UploadRemote(r) \/ UploadLocalOpen(r) \/ UploadLocalRename(r)
           \/ BeginFinalize(r)
  BY <1>1 DEF Reject, Arrive, BeginDelete, BeginS3Delete, BeginSetup, UploadSetup,
     PutPrepare, PutSetup, UploadRemote, UploadLocalOpen, UploadLocalRename, BeginFinalize
<1>2. CASE \/ SetupFails(r) \/ UploadFails(r) \/ FinalizeConflict(r) \/ UploadRetry(r)
           \/ UploadGivesUp(r) \/ DeleteLocked(r) \/ Abort(r)
  BY <1>2 DEF SetupFails, UploadFails, FinalizeConflict, UploadRetry, UploadGivesUp,
     DeleteLocked, Abort, Fail
<1>3. CASE \/ DeleteObject(r) \/ DeleteRows(r) \/ DeleteLastRows(r) \/ DeleteCommit(r)
           \/ S3DeleteNothing(r) \/ S3DeleteRows(r)
  BY <1>3 DEF DeleteObject, DeleteRows, DeleteLastRows, DeleteCommit, S3DeleteNothing,
     S3DeleteRows
<1>4. CASE SyncFileToStore(r) \/ Finalize(r) \/ FinalizeCommit(r)
  BY <1>4 DEF SyncFileToStore, Finalize, FinalizeCommit
<1> QED
  BY <1>1, <1>2, <1>3, <1>4 DEF Acts, Step

\* A fan-out begins on a free path, and nobody else writes locations during it.
LEMMA PathsStep ==
    ASSUME TypeOK, LockOwned, ReadsCurrent, LockHeldByOpenTransaction, PathsFree,
           [Next]_vars
    PROVE  PathsFree'
<1> SUFFICES ASSUME NEW r \in Uploads, pc'[r] = "fanout"
             PROVE  ~PathTaken(r, store[r])'
  BY DEF PathsFree
<1> USE DEF TypeOK, Uploads
<1>1. /\ UNCHANGED <<files, blobs, locs>>
      /\ pc[r] = "fanout" \/ Finalize(r)
      /\ store'[r] = store[r] /\ attempt'[r] = attempt[r]
  <2>1. UNCHANGED <<files, blobs, locs>>
    <3> SUFFICES ASSUME NEW q \in Requests, writer \in {None, q},
                        \/ pc' = [pc EXCEPT ![q] = "transfer"]
                        \/ pc' = [pc EXCEPT ![q] = "done"]
                 PROVE  FALSE
      BY RowWriters
    <3>1. q # r /\ pc[r] = "fanout"
      OBVIOUS
    <3> QED
      BY <3>1, RequestsAssumption DEF LockOwned
  <2>2. CASE OtherCommit \/ UNCHANGED vars
    BY <2>1, <2>2 DEF OtherCommit, vars
  <2>3. ASSUME NEW q \in Requests \ {r}, Acts(q)
        PROVE  pc[r] = "fanout" /\ store'[r] = store[r] /\ attempt'[r] = attempt[r]
    BY <2>3, OthersStay
  <2>4. CASE Acts(r)
    <3>1. SyncFileToStore(r) \/ Finalize(r)
      BY <2>4, Moments
    <3> QED
      BY <2>1, <3>1 DEF SyncFileToStore, Finalize
  <2> QED
    BY <2>1, <2>2, <2>3, <2>4, Actors
<1>2. ~PathTaken(r, store[r])
  BY <1>1 DEF PathsFree, Finalize
<1> QED
  BY <1>1, <1>2 DEF PathTaken, Id
-----------------------------------------------------------------------------
\* The attempts that own locations are over, so none inserts its blob again.
LEMMA OrphanStep ==
    ASSUME TypeOK, RecordInv, LockOwned, ReadsCurrent, LockHeldByOpenTransaction,
           [Next]_vars, NEW l \in locs, Orphan(l)
    PROVE  Orphan(l)'
<1> USE DEF TypeOK
<1>1. CASE UNCHANGED <<files, blobs, locs>>
  BY <1>1 DEF Orphan
<1>2. l.blob \in Attempts /\ files[l.blob] = "absent" /\ blobs[l.blob] = "absent"
  BY DEF Orphan, RecordInv, RecordsAgree
<1>3. ASSUME NEW r \in Requests, pc[r] \in {"setupTx", "putLocked"},
             CreatePendingFileUpload(r)
      PROVE  Orphan(l)'
  <2>1. l.blob # Id(r)
    BY <1>3 DEF RecordInv, LocationsOfAnswered, Id
  <2>2. l.blob \notin BlobsAt(r.key)
    BY <1>2 DEF BlobsAt
  <2> QED
    BY <1>2, <1>3, <2>1, <2>2 DEF CreatePendingFileUpload, BlobsWithout, LocsWithout, Orphan
<1>4. ASSUME NEW D \in SUBSET Present, DeleteFileEverywhere(D)
      PROVE  Orphan(l)'
  BY <1>2, <1>4 DEF DeleteFileEverywhere, BlobsWithout, LocsWithout, Present, Orphan
<1>5. ASSUME NEW r \in Requests, MarkFileUploadReady(r)
      PROVE  Orphan(l)'
  BY <1>2, <1>5 DEF MarkFileUploadReady, Ready, Orphan
<1> QED
  BY <1>1, <1>3, <1>4, <1>5, RowWriters

\* An upload that is answered with success has found its path free.
LEMMA BlockedStep ==
    ASSUME TypeOK, RecordInv, LockOwned, ReadsCurrent, LockHeldByOpenTransaction,
           PathsFree, [Next]_vars,
           NEW r \in Uploads, pc[r] # "done", pc'[r] = "done",
           NEW l \in locs, Key(l.blob) = r.key
    PROVE  store[r] # l.store
<1> USE DEF TypeOK, Uploads
<1>1. FinalizeCommit(r)
  <2>1. PICK q \in Requests : Acts(q)
    BY Actors DEF OtherCommit, vars
  <2>2. q = r
    BY <2>1, OthersStay
  <2>3. pc[r] \notin Erasing
    BY DEF ReadsCurrent
  <2> QED
    BY <2>1, <2>2, <2>3, Moments
<1>2. l.blob # Id(r)
  BY <1>1 DEF FinalizeCommit, RecordInv, LocationsOfAnswered, Id
<1> QED
  BY <1>1, <1>2 DEF FinalizeCommit, PathsFree, PathTaken
-----------------------------------------------------------------------------
\* The invariants behind both theorems.
LEMMA FileRecordsSafe ==
    Spec => [](TypeOK /\ RecordInv /\ LockOwned /\ ReadsCurrent
               /\ LockHeldByOpenTransaction /\ PathsFree)
<1>1. Init => LockOwned /\ ReadsCurrent /\ PathsFree
  BY DEF Init, LockOwned, ReadsCurrent, Read, Erasing, Uploading, Uploads, PathsFree
<1>2. /\ TypeOK /\ LockHeldByOpenTransaction
      /\ LockOwned /\ ReadsCurrent /\ PathsFree
      /\ [Next]_vars
      => (LockOwned /\ ReadsCurrent /\ PathsFree)'
  BY OwnedStep, ReadsStep, PathsStep
<1> QED
  BY <1>1, <1>2, TypeCorrect, RecordsCorrect, LockCorrect, PTL DEF Spec

\* What the run orphan finds stays: no upload, overwrite or delete removes a
\* location whose blob is gone, nor does its blob ever come back.
\* (DeleteBlobEverywhere and DeleteFileEverywhere remove the locations of blobs
\* that they find, and an attempt's id is used once.)
THEOREM OrphansStay ==
    Spec => [][\A l \in locs : Orphan(l) => Orphan(l)']_vars
<1>1. /\ TypeOK /\ RecordInv /\ LockOwned /\ ReadsCurrent /\ LockHeldByOpenTransaction
      /\ PathsFree /\ [Next]_vars
      => [\A l \in locs : Orphan(l) => Orphan(l)']_vars
  BY OrphanStep
<1> QED
  BY <1>1, FileRecordsSafe, PTL DEF Spec

\* And it blocks its key, which is the harm: as long as the orphan is there, so
\* by OrphansStay for ever, no upload or PUT of its key to its store is answered
\* with success, in whatever phase it finds itself and however often it retries.
THEOREM OrphansBlock ==
    Spec => [][\A l \in locs, r \in Uploads :
                  Orphan(l) /\ Key(l.blob) = r.key /\ store[r] = l.store /\ pc[r] # "done" =>
                      pc'[r] # "done"]_vars
<1>1. /\ TypeOK /\ RecordInv /\ LockOwned /\ ReadsCurrent /\ LockHeldByOpenTransaction
      /\ PathsFree /\ [Next]_vars
      => [\A l \in locs, r \in Uploads :
             Orphan(l) /\ Key(l.blob) = r.key /\ store[r] = l.store /\ pc[r] # "done" =>
                 pc'[r] # "done"]_vars
  BY BlockedStep
<1> QED
  BY <1>1, FileRecordsSafe, PTL DEF Spec
===============================================================================
