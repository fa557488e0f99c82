-------------------------- MODULE FileRecordsProofs --------------------------
(* Machine-checked proofs about FileRecords, for all values of its constants. *)
EXTENDS FileRecords, TLAPS

\* The constants' assumptions in the form the leaf steps use them.
LEMMA IdType ==
    ASSUME NEW r \in Requests, attempt \in [Requests -> 1..MaxAttempts]
    PROVE  /\ Id(r) \in Attempts
           /\ Key(Id(r)) = r.key
           /\ r.key \in Keys
BY RequestsAssumption DEF Id, Attempts, Key

LEMMA KeyType ==
    ASSUME NEW i \in Attempts
    PROVE  i[1] \in Requests /\ Key(i) \in Keys
BY RequestsAssumption DEF Attempts, Key
\* Replacing one object keeps the store map well formed.
LEMMA OneObject ==
    ASSUME objects \in [Stores -> [Keys -> SUBSET Attempts]],
           NEW s \in Stores, NEW k \in Keys, NEW V \in SUBSET Attempts
    PROVE  [objects EXCEPT ![s][k] = V] \in [Stores -> [Keys -> SUBSET Attempts]]
OBVIOUS
LEMMA DeleteType ==
    ASSUME TypeOK, NEW r \in Requests, NEW s \in Stores, NEW k \in Keys, Delete(r, s, k)
    PROVE  /\ objects' \in [Stores -> [Keys -> SUBSET Attempts]]
           /\ erased' \in [Requests -> SUBSET (Stores \X Keys)]
<1>1. objects' \in [Stores -> [Keys -> SUBSET Attempts]]
  <2>1. objects \in [Stores -> [Keys -> SUBSET Attempts]]
    BY DEF TypeOK
  <2>2. CASE objects' = objects
    BY <2>1, <2>2
  <2>3. CASE objects' = [objects EXCEPT ![s][k] = {}]
    BY <2>1, <2>3, OneObject
  <2>4. QED
    BY <2>2, <2>3 DEF Delete
<1>2. erased' \in [Requests -> SUBSET (Stores \X Keys)]
  BY DEF TypeOK, Delete
<1>3. QED
  BY <1>1, <1>2
------------------------------------------------------------------------------
\* Steps that touch no row keep the three tables as they are; the facts about
\* the other variables follow action by action.
LEMMA TypeStep ==
    ASSUME TypeOK, [Next]_vars
    PROVE  TypeOK'
<1> USE StoresAssumption, AttemptsAssumption, RequestsAssumption
<1> USE DEF TypeOK, rows, disk, deletion, Points
<1>1. ASSUME NEW r \in Requests, Reject(r) \/ Arrive(r)
      PROVE  TypeOK'
  BY <1>1 DEF Reject, Arrive
<1>2. ASSUME NEW r \in Requests, BeginSetup(r)
      PROVE  TypeOK'
  BY <1>2 DEF BeginSetup, Snapshot
<1>3. ASSUME NEW r \in Requests, SetupFails(r)
      PROVE  TypeOK'
  BY <1>3 DEF SetupFails, Fail, Rollback
<1>4. ASSUME NEW r \in Requests, UploadSetup(r)
      PROVE  TypeOK'
  BY <1>4, IdType DEF UploadSetup, CreatePendingFileUpload, FilesWithout,
     BlobsWithout, LocsWithout, Commit
<1>5. ASSUME NEW r \in Requests, PutPrepare(r)
      PROVE  TypeOK'
  BY <1>5, DeleteType DEF PutPrepare, Lock
<1>6. ASSUME NEW r \in Requests, PutSetup(r)
      PROVE  TypeOK'
  BY <1>6, IdType DEF PutSetup, CreatePendingFileUpload, FilesWithout,
     BlobsWithout, LocsWithout, Commit
<1>7. ASSUME NEW r \in Requests, UploadRemote(r)
      PROVE  TypeOK'
  BY <1>7, IdType DEF UploadRemote
<1>8. ASSUME NEW r \in Requests, UploadLocalOpen(r)
      PROVE  TypeOK'
  BY <1>8, IdType DEF UploadLocalOpen
<1>9. ASSUME NEW r \in Requests, UploadLocalRename(r)
      PROVE  TypeOK'
  BY <1>9 DEF UploadLocalRename
<1>10. ASSUME NEW r \in Requests, UploadFails(r)
       PROVE  TypeOK'
  BY <1>10 DEF UploadFails, Fail, Rollback
<1>11. ASSUME NEW r \in Requests, BeginFinalize(r)
       PROVE  TypeOK'
  BY <1>11 DEF BeginFinalize, Snapshot
<1>12. ASSUME NEW r \in Requests, Finalize(r)
       PROVE  TypeOK'
  BY <1>12 DEF Finalize, Lock
<1>13. ASSUME NEW r \in Requests, FinalizeConflict(r)
       PROVE  TypeOK'
  BY <1>13 DEF FinalizeConflict, Fail, Rollback
<1>14. ASSUME NEW r \in Requests, SyncFileToStore(r)
       PROVE  TypeOK'
  <2>1. PICK s \in pending[r] :
           /\ pending' = [pending EXCEPT ![r] = @ \ {s}]
           /\ Replicated(r, s) \/ UNCHANGED <<objects, copied>>
    BY <1>14 DEF SyncFileToStore
  <2>2. CASE Replicated(r, s)
    <3>1. objects[Primary][r.key] \in SUBSET Attempts
      OBVIOUS
    <3>2. objects' \in [Stores -> [Keys -> SUBSET Attempts]]
      BY <2>2, <3>1, OneObject DEF Replicated
    <3>3. copied' \in [Requests -> SUBSET Stores]
      <4>1. s \in Stores
        OBVIOUS
      <4>2. copied' = copied \/ copied' = [copied EXCEPT ![r] = @ \cup {s}]
        BY <2>2 DEF Replicated
      <4>3. [copied EXCEPT ![r] = @ \cup {s}] \in [Requests -> SUBSET Stores]
        BY <4>1, copied[r] \cup {s} \in SUBSET Stores
      <4>4. QED
        BY <4>2, <4>3
    <3>4. QED
      BY <1>14, <2>1, <3>2, <3>3 DEF SyncFileToStore
  <2>3. CASE UNCHANGED <<objects, copied>>
    BY <1>14, <2>1, <2>3 DEF SyncFileToStore
  <2>4. QED
    BY <2>1, <2>2, <2>3
<1>15. ASSUME NEW r \in Requests, FinalizeCommit(r)
       PROVE  TypeOK'
  BY <1>15, IdType DEF FinalizeCommit, MarkFileUploadReady, Ready, Commit
<1>16. ASSUME NEW r \in Requests, UploadRetry(r)
       PROVE  TypeOK'
  BY <1>16 DEF UploadRetry, CanRetry, NextAttempt, Rollback
<1>16a. ASSUME NEW r \in Requests, UploadGivesUp(r)
        PROVE  TypeOK'
  BY <1>16a DEF UploadGivesUp, Fail, Rollback
<1>17. ASSUME NEW r \in Requests, BeginDelete(r)
       PROVE  TypeOK'
  BY <1>17 DEF BeginDelete, Snapshot, Present, LocationStores
<1>18. ASSUME NEW r \in Requests, DeleteObject(r)
       PROVE  TypeOK'
  <2>1. PICK s \in pending[r], i \in cur[r] :
           /\ pending' = [pending EXCEPT ![r] = @ \ {s}]
           /\ Delete(r, s, Key(i))
    BY <1>18 DEF DeleteObject
  <2>2. s \in Stores /\ Key(i) \in Keys
    BY KeyType
  <2>3. QED
    BY <1>18, <2>1, <2>2, DeleteType DEF DeleteObject
<1>19. ASSUME NEW r \in Requests, DeleteRows(r)
       PROVE  TypeOK'
  <2>1. PICK i \in victims[r] :
           /\ cur' = [cur EXCEPT ![r] = {i}]
           /\ victims' = [victims EXCEPT ![r] = @ \ {i}]
           /\ pending' = [pending EXCEPT ![r] = LocationStores(i)]
    BY <1>19 DEF DeleteRows
  <2>2. i \in Attempts /\ LocationStores(i) \in SUBSET Stores
    BY DEF LocationStores
  <2>3. QED
    BY <1>19, <2>1, <2>2 DEF DeleteRows, Lock
<1>19a. ASSUME NEW r \in Requests, DeleteLastRows(r)
        PROVE  TypeOK'
  BY <1>19a DEF DeleteLastRows, Lock
<1>20. ASSUME NEW r \in Requests, DeleteCommit(r)
       PROVE  TypeOK'
  BY <1>20 DEF DeleteCommit, DeleteFileEverywhere, FilesWithout, BlobsWithout,
     LocsWithout, Commit
<1>21. ASSUME NEW r \in Requests, BeginS3Delete(r)
       PROVE  TypeOK'
  BY <1>21 DEF BeginS3Delete, Snapshot, ReadyAt
<1>22. ASSUME NEW r \in Requests, S3DeleteNothing(r)
       PROVE  TypeOK'
  BY <1>22 DEF S3DeleteNothing, Rollback
<1>23. ASSUME NEW r \in Requests, S3DeleteRows(r)
       PROVE  TypeOK'
  BY <1>23 DEF S3DeleteRows, DeleteFileEverywhere, FilesWithout, BlobsWithout,
     LocsWithout, Commit
<1>24. ASSUME NEW r \in Requests, DeleteLocked(r)
       PROVE  TypeOK'
  BY <1>24 DEF DeleteLocked, Fail, Rollback
<1>25. ASSUME NEW r \in Requests, Abort(r)
       PROVE  TypeOK'
  BY <1>25 DEF Abort, Rollback
<1>26. CASE OtherCommit
  BY <1>26 DEF OtherCommit
<1>27. CASE UNCHANGED vars
  BY <1>27 DEF vars
<1>28. QED
  BY <1>1, <1>2, <1>3, <1>4, <1>5, <1>6, <1>7, <1>8, <1>9, <1>10, <1>11, <1>12,
     <1>13, <1>14, <1>15, <1>16, <1>16a, <1>17, <1>18, <1>19, <1>19a, <1>20, <1>21, <1>22, <1>23,
     <1>24, <1>25, <1>26, <1>27 DEF Next, Step

\* Types: what TLC checks as TypeOK holds for every tenant, key, store and
\* number of requests and attempts.
THEOREM TypeCorrect == Spec => []TypeOK
<1>1. Init => TypeOK
  BY StoresAssumption, AttemptsAssumption DEF Init, TypeOK, Points
<1>2. TypeOK /\ [Next]_vars => TypeOK'
  BY TypeStep
<1>3. QED
  BY <1>1, <1>2, PTL DEF Spec
------------------------------------------------------------------------------
(* The record invariant, one lemma per kind of step. *)

\* r moves on, nobody else does, and r had not answered yet.
Moves(r) ==
    /\ pc[r] # "done"
    /\ \A q \in Requests \ {r} : pc'[q] = pc[q] /\ attempt'[q] = attempt[q]

LEMMA NoRowTouched ==
    ASSUME TypeOK, RecordInv, NEW r \in Requests, Moves(r),
           UNCHANGED <<files, blobs, locs, published>>
    PROVE  RecordInv'
<1>1. RecordsAgree' /\ UniqueObjectKey' /\ VisiblePublished'
  BY DEF RecordInv, RecordsAgree, UniqueObjectKey, VisiblePublished
<1>2. FailureLeavesNothingVisible'
  <2> SUFFICES ASSUME NEW i \in published
               PROVE  pc'[i[1]] = "done" /\ i[2] = attempt'[i[1]]
    BY DEF FailureLeavesNothingVisible
  <2>1. pc[i[1]] = "done" /\ i[2] = attempt[i[1]] /\ i[1] \in Requests
    BY KeyType DEF RecordInv, FailureLeavesNothingVisible, TypeOK
  <2>2. QED
    BY <2>1 DEF Moves
<1>3. LocationsOfAnswered'
  <2> SUFFICES ASSUME NEW l \in locs
               PROVE  pc'[l.blob[1]] = "done" /\ l.blob[2] = attempt'[l.blob[1]]
    BY DEF LocationsOfAnswered
  <2>1. pc[l.blob[1]] = "done" /\ l.blob[2] = attempt[l.blob[1]]
        /\ l.blob[1] \in Requests
    BY KeyType DEF RecordInv, LocationsOfAnswered, TypeOK
  <2>2. QED
    BY <2>1 DEF Moves
<1>4. QED
  BY <1>1, <1>2, <1>3 DEF RecordInv

\* Removing files with their blobs and locations, as both deletes and the
\* first half of an overwrite do.
LEMMA RowsRemoved ==
    ASSUME TypeOK, RecordInv, NEW r \in Requests, Moves(r),
           NEW D \in SUBSET Attempts, DeleteFileEverywhere(D), UNCHANGED published
    PROVE  RecordInv'
<1> USE DEF TypeOK, DeleteFileEverywhere, FilesWithout, BlobsWithout, LocsWithout
<1>1. RecordsAgree'
  BY DEF RecordInv, RecordsAgree
<1>2. UniqueObjectKey' /\ VisiblePublished'
  BY DEF RecordInv, UniqueObjectKey, VisiblePublished
<1>3. FailureLeavesNothingVisible'
  <2> SUFFICES ASSUME NEW i \in published
               PROVE  pc'[i[1]] = "done" /\ i[2] = attempt'[i[1]]
    BY DEF FailureLeavesNothingVisible
  <2>1. pc[i[1]] = "done" /\ i[2] = attempt[i[1]] /\ i[1] \in Requests
    BY KeyType DEF RecordInv, FailureLeavesNothingVisible
  <2>2. QED
    BY <2>1 DEF Moves
<1>4. LocationsOfAnswered'
  <2> SUFFICES ASSUME NEW l \in locs
               PROVE  pc'[l.blob[1]] = "done" /\ l.blob[2] = attempt'[l.blob[1]]
    BY DEF LocationsOfAnswered
  <2>1. pc[l.blob[1]] = "done" /\ l.blob[2] = attempt[l.blob[1]]
        /\ l.blob[1] \in Requests
    BY KeyType DEF RecordInv, LocationsOfAnswered
  <2>2. QED
    BY <2>1 DEF Moves
<1>5. QED
  BY <1>1, <1>2, <1>3, <1>4 DEF RecordInv

\* Phase 1's commit: the blob at the key goes, the pending rows come.
LEMMA PendingInserted ==
    ASSUME TypeOK, RecordInv, NEW r \in Requests, Moves(r),
           CreatePendingFileUpload(r), UNCHANGED published
    PROVE  RecordInv'
<1> DEFINE id == Id(r)
           D == BlobsAt(r.key)
<1>1. id \in Attempts /\ Key(id) = r.key /\ D \subseteq Attempts
  BY IdType DEF TypeOK, BlobsAt
<1>2. id \notin published
  BY <1>1 DEF RecordInv, FailureLeavesNothingVisible, Moves, Id
<1>3. \A s \in Stores : [blob |-> id, store |-> s] \notin locs
  BY DEF RecordInv, LocationsOfAnswered, Moves, Id
<1>4. \A i \in Attempts :
        /\ files'[i] = IF i = id THEN "uploading" ELSE IF i \in D THEN "absent" ELSE files[i]
        /\ blobs'[i] = IF i = id THEN "pending" ELSE IF i \in D THEN "absent" ELSE blobs[i]
  BY <1>1 DEF CreatePendingFileUpload, FilesWithout, BlobsWithout
<1>5. locs' = {l \in locs : l.blob \notin D}
  BY DEF CreatePendingFileUpload, LocsWithout
<1> HIDE DEF id, D
<1>6. RecordsAgree'
  <2> SUFFICES ASSUME NEW i \in Attempts
               PROVE  /\ files'[i] = "absent" <=> blobs'[i] = "absent"
                      /\ files'[i] = "ready" <=> blobs'[i] = "ready"
                      /\ files'[i] # "absent" =>
                           (files'[i] = "ready" <=>
                              \E s \in Stores : [blob |-> i, store |-> s] \in locs')
    BY DEF RecordsAgree
  <2>1. CASE i = id
    BY <1>3, <1>4, <1>5, <2>1
  <2>2. CASE i # id
    BY <1>4, <1>5, <2>2 DEF RecordInv, RecordsAgree
  <2>3. QED
    BY <2>1, <2>2
<1>7. UniqueObjectKey'
  <2> SUFFICES ASSUME NEW i \in Attempts, NEW j \in Attempts,
                      blobs'[i] # "absent", blobs'[j] # "absent", Key(i) = Key(j)
               PROVE  i = j
    BY DEF UniqueObjectKey
  <2>1. \A m \in Attempts : Key(m) = r.key /\ m # id => blobs'[m] = "absent"
    BY <1>4 DEF D, BlobsAt
  <2>2. QED
    BY <1>1, <1>4, <2>1 DEF RecordInv, UniqueObjectKey
<1>8. VisiblePublished'
  BY <1>4 DEF RecordInv, VisiblePublished
<1>9. FailureLeavesNothingVisible'
  <2> SUFFICES ASSUME NEW i \in published
               PROVE  pc'[i[1]] = "done" /\ i[2] = attempt'[i[1]]
    BY DEF FailureLeavesNothingVisible
  <2>1. pc[i[1]] = "done" /\ i[2] = attempt[i[1]] /\ i[1] \in Requests
    BY KeyType DEF RecordInv, FailureLeavesNothingVisible, TypeOK
  <2>2. QED
    BY <2>1 DEF Moves
<1>10. LocationsOfAnswered'
  <2> SUFFICES ASSUME NEW l \in locs
               PROVE  pc'[l.blob[1]] = "done" /\ l.blob[2] = attempt'[l.blob[1]]
    BY <1>5 DEF LocationsOfAnswered
  <2>1. pc[l.blob[1]] = "done" /\ l.blob[2] = attempt[l.blob[1]]
        /\ l.blob[1] \in Requests
    BY KeyType DEF RecordInv, LocationsOfAnswered, TypeOK
  <2>2. QED
    BY <2>1 DEF Moves
<1>11. QED
  BY <1>6, <1>7, <1>8, <1>9, <1>10 DEF RecordInv

\* Phase 3's commit.  When an overwrite or a delete took the file away in the
\* meantime, the UPDATEs hit nothing and only the location is inserted.
LEMMA MarkedReady ==
    ASSUME TypeOK, RecordInv, NEW r \in Requests, pc[r] = "fanout",
           MarkFileUploadReady(r), UNCHANGED attempt,
           pc' = [pc EXCEPT ![r] = "done"]
    PROVE  RecordInv'
<1> DEFINE id == Id(r)
           added == {[blob |-> id, store |-> s] : s \in {store[r]} \cup copied[r]}
<1>1. id \in Attempts /\ id[1] = r /\ id[2] = attempt[r]
  BY IdType DEF TypeOK, Id
<1>2. id \notin published /\ files[id] # "ready"
  BY <1>1 DEF RecordInv, FailureLeavesNothingVisible, VisiblePublished
<1>3. \A i \in Attempts :
        /\ files'[i] = IF i = id THEN Ready(files[id]) ELSE files[i]
        /\ blobs'[i] = IF i = id THEN Ready(blobs[id]) ELSE blobs[i]
  BY <1>1 DEF MarkFileUploadReady, TypeOK
<1>4. locs' = locs \cup added /\ published' = published \cup ({id} \cap Present)
  BY DEF MarkFileUploadReady
<1>5. store[r] \in Stores /\ copied[r] \subseteq Stores
  BY DEF TypeOK
<1>6. [blob |-> id, store |-> store[r]] \in added
  OBVIOUS
<1>7. \A l \in added : l.blob = id
  OBVIOUS
<1> HIDE DEF id, added
<1>8. RecordsAgree'
  <2> SUFFICES ASSUME NEW i \in Attempts
               PROVE  /\ files'[i] = "absent" <=> blobs'[i] = "absent"
                      /\ files'[i] = "ready" <=> blobs'[i] = "ready"
                      /\ files'[i] # "absent" =>
                           (files'[i] = "ready" <=>
                              \E s \in Stores : [blob |-> i, store |-> s] \in locs')
    BY DEF RecordsAgree
  <2>1. CASE i = id
    BY <1>3, <1>4, <1>5, <1>6, <2>1 DEF RecordInv, RecordsAgree, Ready
  <2>2. CASE i # id
    <3>1. \A s \in Stores : [blob |-> i, store |-> s] \in locs' <=>
                            [blob |-> i, store |-> s] \in locs
      BY <1>4, <1>7, <2>2
    <3>2. QED
      BY <1>3, <2>2, <3>1 DEF RecordInv, RecordsAgree
  <2>3. QED
    BY <2>1, <2>2
<1>9. UniqueObjectKey'
  BY <1>3 DEF RecordInv, UniqueObjectKey, Ready
<1>10. VisiblePublished'
  BY <1>1, <1>3, <1>4 DEF RecordInv, VisiblePublished, Ready, Present
<1>11. FailureLeavesNothingVisible'
  <2> SUFFICES ASSUME NEW i \in published'
               PROVE  pc'[i[1]] = "done" /\ i[2] = attempt'[i[1]]
    BY DEF FailureLeavesNothingVisible
  <2>1. CASE i = id
    BY <1>1, <2>1 DEF TypeOK
  <2>2. CASE i # id
    <3>1. i \in published
      BY <1>4, <2>2
    <3>2. pc[i[1]] = "done" /\ i[2] = attempt[i[1]] /\ i[1] \in Requests
      BY <3>1, KeyType DEF RecordInv, FailureLeavesNothingVisible, TypeOK
    <3>3. QED
      BY <3>2 DEF TypeOK
  <2>3. QED
    BY <2>1, <2>2
<1>12. LocationsOfAnswered'
  <2> SUFFICES ASSUME NEW l \in locs'
               PROVE  pc'[l.blob[1]] = "done" /\ l.blob[2] = attempt'[l.blob[1]]
    BY DEF LocationsOfAnswered
  <2>1. CASE l \in added
    BY <1>1, <1>7, <2>1 DEF TypeOK
  <2>2. CASE l \in locs
    <3>1. pc[l.blob[1]] = "done" /\ l.blob[2] = attempt[l.blob[1]]
          /\ l.blob[1] \in Requests
      BY <2>2, KeyType DEF RecordInv, LocationsOfAnswered, TypeOK
    <3>2. QED
      BY <3>1 DEF TypeOK
  <2>3. QED
    BY <1>4, <2>1, <2>2
<1>13. QED
  BY <1>8, <1>9, <1>10, <1>11, <1>12 DEF RecordInv

\* Every step is of one of four kinds; the rest of the step does not matter
\* to the record invariant, nor to what readers see.
LEMMA StepKinds ==
    ASSUME TypeOK, [Next]_vars
    PROVE  \/ UNCHANGED <<files, blobs, locs, published, pc, attempt>>
           \/ \E r \in Requests :
                \/ Moves(r) /\ UNCHANGED <<files, blobs, locs, published>>
                \/ Moves(r) /\ CreatePendingFileUpload(r) /\ UNCHANGED published
                \/ \E D \in SUBSET Attempts :
                      Moves(r) /\ DeleteFileEverywhere(D) /\ UNCHANGED published
                \/ /\ pc[r] = "fanout" /\ MarkFileUploadReady(r)
                   /\ UNCHANGED attempt /\ pc' = [pc EXCEPT ![r] = "done"]
<1> USE DEF rows, Moves
<1> DEFINE Quiet(r) == Moves(r) /\ UNCHANGED <<files, blobs, locs, published>>
<1>1. ASSUME NEW r \in Requests,
             \/ Reject(r) \/ Arrive(r) \/ BeginSetup(r) \/ PutPrepare(r)
             \/ UploadRemote(r) \/ UploadLocalOpen(r) \/ UploadLocalRename(r)
             \/ BeginFinalize(r) \/ Finalize(r) \/ SyncFileToStore(r)
      PROVE  Quiet(r)
  BY <1>1 DEF Reject, Arrive, BeginSetup, PutPrepare, UploadRemote, UploadLocalOpen,
     UploadLocalRename, BeginFinalize, Finalize, SyncFileToStore, TypeOK
<1>2. ASSUME NEW r \in Requests,
             \/ SetupFails(r) \/ UploadFails(r) \/ FinalizeConflict(r)
             \/ UploadGivesUp(r) \/ DeleteLocked(r) \/ UploadRetry(r)
             \/ S3DeleteNothing(r) \/ Abort(r)
      PROVE  Quiet(r)
  BY <1>2 DEF SetupFails, UploadFails, FinalizeConflict, UploadGivesUp,
     DeleteLocked, UploadRetry, S3DeleteNothing, Abort, Fail, Ended, TypeOK
<1>3. ASSUME NEW r \in Requests,
             \/ BeginDelete(r) \/ DeleteObject(r) \/ DeleteRows(r)
             \/ DeleteLastRows(r) \/ BeginS3Delete(r)
      PROVE  Quiet(r)
  BY <1>3 DEF BeginDelete, DeleteObject, DeleteRows, DeleteLastRows, BeginS3Delete, TypeOK
<1>4. ASSUME NEW r \in Requests, UploadSetup(r) \/ PutSetup(r)
      PROVE  Moves(r) /\ CreatePendingFileUpload(r) /\ UNCHANGED published
  BY <1>4 DEF UploadSetup, PutSetup, TypeOK
<1>5. ASSUME NEW r \in Requests, DeleteCommit(r)
      PROVE  /\ doomed[r] \in SUBSET Attempts
             /\ Moves(r) /\ DeleteFileEverywhere(doomed[r]) /\ UNCHANGED published
  BY <1>5 DEF DeleteCommit, TypeOK
<1>6. ASSUME NEW r \in Requests, S3DeleteRows(r)
      PROVE  /\ cur[r] \in SUBSET Attempts
             /\ Moves(r) /\ DeleteFileEverywhere(cur[r]) /\ UNCHANGED published
  BY <1>6 DEF S3DeleteRows, TypeOK
<1>7. ASSUME NEW r \in Requests, FinalizeCommit(r)
      PROVE  /\ pc[r] = "fanout" /\ MarkFileUploadReady(r)
             /\ UNCHANGED attempt /\ pc' = [pc EXCEPT ![r] = "done"]
  BY <1>7 DEF FinalizeCommit
<1>8. OtherCommit \/ UNCHANGED vars
        => UNCHANGED <<files, blobs, locs, published, pc, attempt>>
  BY DEF OtherCommit, vars
<1> HIDE DEF Moves, Quiet
<1>9. ASSUME NEW r \in Requests,
             \/ Reject(r) \/ Arrive(r) \/ BeginDelete(r) \/ BeginS3Delete(r)
             \/ Step(r) \/ Abort(r)
      PROVE  \/ Quiet(r)
             \/ Moves(r) /\ CreatePendingFileUpload(r) /\ UNCHANGED published
             \/ \E D \in SUBSET Attempts :
                   Moves(r) /\ DeleteFileEverywhere(D) /\ UNCHANGED published
             \/ /\ pc[r] = "fanout" /\ MarkFileUploadReady(r)
                /\ UNCHANGED attempt /\ pc' = [pc EXCEPT ![r] = "done"]
  BY <1>9, <1>1, <1>2, <1>3, <1>4, <1>5, <1>6, <1>7 DEF Step
<1>10. QED
  BY <1>8, <1>9 DEF Next, Quiet

LEMMA RecordStep ==
    ASSUME TypeOK, RecordInv, [Next]_vars
    PROVE  RecordInv'
<1>1. CASE UNCHANGED <<files, blobs, locs, published, pc, attempt>>
  BY <1>1 DEF RecordInv, RecordsAgree, UniqueObjectKey, FailureLeavesNothingVisible,
     LocationsOfAnswered, VisiblePublished
<1>2. ASSUME NEW r \in Requests,
             Moves(r) /\ UNCHANGED <<files, blobs, locs, published>>
      PROVE  RecordInv'
  BY <1>2, NoRowTouched
<1>3. ASSUME NEW r \in Requests,
             Moves(r) /\ CreatePendingFileUpload(r) /\ UNCHANGED published
      PROVE  RecordInv'
  BY <1>3, PendingInserted
<1>4. ASSUME NEW r \in Requests, NEW D \in SUBSET Attempts,
             Moves(r) /\ DeleteFileEverywhere(D) /\ UNCHANGED published
      PROVE  RecordInv'
  BY <1>4, RowsRemoved
<1>5. ASSUME NEW r \in Requests, pc[r] = "fanout", MarkFileUploadReady(r),
             UNCHANGED attempt, pc' = [pc EXCEPT ![r] = "done"]
      PROVE  RecordInv'
  BY <1>5, MarkedReady
<1>6. QED
  BY <1>1, <1>2, <1>3, <1>4, <1>5, StepKinds

\* The record tables agree, object keys stay unique and failures leave nothing
\* visible, for any number of concurrent requests, retries, keys and stores.
THEOREM RecordsCorrect == Spec => []RecordInv
<1>1. Init => RecordInv
  BY DEF Init, RecordInv, RecordsAgree, UniqueObjectKey,
     FailureLeavesNothingVisible, LocationsOfAnswered, VisiblePublished
<1>2. TypeOK /\ RecordInv /\ [Next]_vars => RecordInv'
  BY RecordStep
<1>3. QED
  BY <1>1, <1>2, TypeCorrect, PTL DEF Spec

\* Two attempts never hold blob rows for one object key at a time.
COROLLARY KeysOwnedOnce == Spec => []UniqueObjectKey
<1>1. RecordInv => UniqueObjectKey
  BY DEF RecordInv
<1>2. QED
  BY <1>1, RecordsCorrect, PTL

\* No interleaving of uploads, overwrites and deletes takes the three tables apart.
COROLLARY TablesAgree == Spec => []RecordsAgree
<1>1. RecordInv => RecordsAgree
  BY DEF RecordInv
<1>2. QED
  BY <1>1, RecordsCorrect, PTL

\* Whatever an upload fails at, and after however many attempts, its file is not
\* visible.
COROLLARY FailuresShowNothing == Spec => []FailureLeavesNothingVisible
<1>1. RecordInv => FailureLeavesNothingVisible
  BY DEF RecordInv
<1>2. QED
  BY <1>1, RecordsCorrect, PTL

------------------------------------------------------------------------------
(* The write lock. *)

\* Ending a transaction, on any path, leaves the lock to somebody else's open
\* transaction or to nobody.
LEMMA LockStep ==
    ASSUME TypeOK, LockHeldByOpenTransaction, [Next]_vars
    PROVE  LockHeldByOpenTransaction'
<1> USE RequestsAssumption DEF LockHeldByOpenTransaction, TypeOK
<1>1. ASSUME NEW r \in Requests,
             \/ Reject(r) \/ Arrive(r) \/ UploadRemote(r) \/ UploadLocalOpen(r)
             \/ UploadLocalRename(r) \/ SyncFileToStore(r) \/ DeleteObject(r)
      PROVE  LockHeldByOpenTransaction'
  BY <1>1 DEF Reject, Arrive, UploadRemote, UploadLocalOpen, UploadLocalRename,
     SyncFileToStore, DeleteObject
<1>2. ASSUME NEW r \in Requests,
             \/ BeginSetup(r) \/ BeginFinalize(r) \/ BeginDelete(r) \/ BeginS3Delete(r)
      PROVE  LockHeldByOpenTransaction'
  <2>1. /\ writer' = writer /\ pc[r] \in {"setup", "stored", "idle"}
        /\ fresh' = [fresh EXCEPT ![r] = TRUE]
        /\ \A q \in Requests \ {r} : pc'[q] = pc[q]
    BY <1>2 DEF BeginSetup, BeginFinalize, BeginDelete, BeginS3Delete, Snapshot
  <2>2. QED
    BY <2>1
<1>3. ASSUME NEW r \in Requests,
             \/ SetupFails(r) \/ UploadFails(r) \/ FinalizeConflict(r)
             \/ UploadGivesUp(r) \/ DeleteLocked(r) \/ UploadRetry(r)
             \/ S3DeleteNothing(r) \/ Abort(r)
      PROVE  LockHeldByOpenTransaction'
  <2>1. Rollback(r) /\ \A q \in Requests \ {r} : pc'[q] = pc[q]
    BY <1>3 DEF SetupFails, UploadFails, FinalizeConflict, UploadGivesUp,
       DeleteLocked, UploadRetry, S3DeleteNothing, Abort, Fail
  <2>2. QED
    BY <2>1 DEF Rollback
<1>4. ASSUME NEW r \in Requests,
             \/ UploadSetup(r) \/ PutSetup(r) \/ FinalizeCommit(r)
             \/ DeleteCommit(r) \/ S3DeleteRows(r)
      PROVE  LockHeldByOpenTransaction'
  BY <1>4 DEF UploadSetup, PutSetup, FinalizeCommit, DeleteCommit, S3DeleteRows, Commit
<1>5. ASSUME NEW r \in Requests,
             PutPrepare(r) \/ Finalize(r) \/ DeleteRows(r) \/ DeleteLastRows(r)
      PROVE  LockHeldByOpenTransaction'
  <2>1. writer' = r /\ fresh[r] /\ fresh' = fresh
    BY <1>5 DEF PutPrepare, Finalize, DeleteRows, DeleteLastRows, CanWrite, Lock
  <2>2. pc'[r] \in {"putLocked", "fanout", "deleteTx", "deleteLocked"}
    BY <1>5 DEF PutPrepare, Finalize, DeleteRows, DeleteLastRows
  <2>3. QED
    BY <2>1, <2>2
<1>6. OtherCommit \/ UNCHANGED vars => LockHeldByOpenTransaction'
  BY DEF OtherCommit, vars
<1>7. QED
  BY <1>1, <1>2, <1>3, <1>4, <1>5, <1>6 DEF Next, Step

\* The write lock is held only inside an open transaction with a current
\* snapshot, so no write is ever based on rows somebody else replaced.
THEOREM LockCorrect == Spec => []LockHeldByOpenTransaction
<1>1. Init => LockHeldByOpenTransaction
  BY DEF Init, LockHeldByOpenTransaction
<1>2. TypeOK /\ LockHeldByOpenTransaction /\ [Next]_vars => LockHeldByOpenTransaction'
  BY LockStep
<1>3. QED
  BY <1>1, <1>2, TypeCorrect, PTL DEF Spec
------------------------------------------------------------------------------
(* The bytes behind the locations. *)

\* The object is there, or some request asked for its deletion.
Kept(s, k) == objects[s][k] # {} \/ \E q \in Requests : <<s, k>> \in erased[q]

BytesInv ==
    /\ \A r \in Requests :
          pc[r] \in {"stored", "finalizeTx", "fanout"} => Kept(store[r], r.key)
    /\ \A r \in Requests : \A s \in copied[r] : Kept(s, r.key)
    /\ \A l \in locs : Kept(l.store, Key(l.blob))

\* No step empties an object without recording the erasure.
LEMMA KeptStep ==
    ASSUME TypeOK, [Next]_vars, NEW s \in Stores, NEW k \in Keys, Kept(s, k)
    PROVE  Kept(s, k)'
<1> USE DEF TypeOK, disk
<1>1. CASE UNCHANGED <<objects, erased>>
  BY <1>1 DEF Kept
<1>2. ASSUME NEW r \in Requests, NEW t \in Stores, NEW m \in Keys, Delete(r, t, m)
      PROVE  Kept(s, k)'
  <2>1. \A q \in Requests : erased[q] \subseteq erased'[q]
    BY <1>2 DEF Delete
  <2>2. <<t, m>> \in erased'[r]
    BY <1>2 DEF Delete
  <2>3. (s = t /\ k = m) \/ objects'[s][k] = objects[s][k]
    BY <1>2 DEF Delete
  <2>4. QED
    BY <2>1, <2>2, <2>3 DEF Kept
<1>3. ASSUME NEW t \in Stores, NEW m \in Keys, NEW V \in SUBSET Attempts, V # {},
             objects' = [objects EXCEPT ![t][m] = V], UNCHANGED erased
      PROVE  Kept(s, k)'
  <2>1. objects'[s][k] = objects[s][k] \/ objects'[s][k] = V
    BY <1>3
  <2>2. QED
    BY <1>3, <2>1 DEF Kept
<1>4. ASSUME NEW r \in Requests, PutPrepare(r)
      PROVE  Kept(s, k)'
  BY <1>1, <1>2, <1>4, RequestsAssumption DEF PutPrepare
<1>5. ASSUME NEW r \in Requests, DeleteObject(r)
      PROVE  Kept(s, k)'
  BY <1>2, <1>5, KeyType DEF DeleteObject
<1>6. ASSUME NEW r \in Requests, UploadRemote(r)
      PROVE  Kept(s, k)'
  <2>1. store[r] \in Stores /\ r.key \in Keys /\ {Id(r)} \in SUBSET Attempts
    BY IdType
  <2>2. objects' = [objects EXCEPT ![store[r]][r.key] = {Id(r)}] /\ erased' = erased
    BY <1>6 DEF UploadRemote
  <2>3. QED
    BY <1>3, <2>1, <2>2
<1>7. ASSUME NEW r \in Requests, UploadLocalRename(r)
      PROVE  Kept(s, k)'
  <2>1. store[r] \in Stores /\ r.key \in Keys
        /\ temp[store[r]][r.key] \in SUBSET Attempts
    BY RequestsAssumption
  <2>2. /\ objects' = [objects EXCEPT ![store[r]][r.key] = temp[store[r]][r.key]]
        /\ temp[store[r]][r.key] # {} /\ erased' = erased
    BY <1>7 DEF UploadLocalRename
  <2>3. QED
    BY <1>3, <2>1, <2>2
<1>8. ASSUME NEW r \in Requests, SyncFileToStore(r)
      PROVE  Kept(s, k)'
  <2>1. PICK t \in pending[r] : Replicated(r, t) \/ UNCHANGED <<objects, copied>>
    BY <1>8 DEF SyncFileToStore
  <2>2. erased' = erased
    BY <1>8 DEF SyncFileToStore
  <2>3. CASE Replicated(r, t)
    <3>1. t \in Stores /\ r.key \in Keys
          /\ objects[Primary][r.key] \in SUBSET Attempts
      BY RequestsAssumption, StoresAssumption
    <3>2. QED
      BY <1>3, <2>2, <2>3, <3>1 DEF Replicated
  <2>4. QED
    BY <1>1, <2>1, <2>2, <2>3
<1>9. ASSUME NEW r \in Requests,
             \/ Reject(r) \/ Arrive(r) \/ BeginDelete(r) \/ BeginS3Delete(r)
             \/ BeginSetup(r) \/ SetupFails(r) \/ UploadSetup(r) \/ PutSetup(r)
             \/ UploadLocalOpen(r) \/ UploadFails(r) \/ BeginFinalize(r)
             \/ Finalize(r) \/ FinalizeConflict(r) \/ FinalizeCommit(r)
             \/ UploadRetry(r) \/ UploadGivesUp(r) \/ DeleteRows(r)
             \/ DeleteLastRows(r) \/ DeleteCommit(r) \/ S3DeleteNothing(r)
             \/ S3DeleteRows(r) \/ DeleteLocked(r) \/ Abort(r)
      PROVE  UNCHANGED <<objects, erased>>
  BY <1>9 DEF Reject, Arrive, BeginDelete, BeginS3Delete, BeginSetup, SetupFails,
     UploadSetup, PutSetup, UploadLocalOpen, UploadFails, BeginFinalize, Finalize,
     FinalizeConflict, FinalizeCommit, UploadRetry, UploadGivesUp, DeleteRows,
     DeleteLastRows, DeleteCommit, S3DeleteNothing, S3DeleteRows, DeleteLocked, Abort
<1>10. OtherCommit \/ UNCHANGED vars => UNCHANGED <<objects, erased>>
  BY DEF OtherCommit, vars
<1>11. QED
  BY <1>1, <1>4, <1>5, <1>6, <1>7, <1>8, <1>9, <1>10 DEF Next, Step

\* Only phase 2 brings a request to the points where its object is stored.
LEMMA StoredBefore ==
    ASSUME TypeOK, [Next]_vars, NEW q \in Requests,
           pc'[q] \in {"stored", "finalizeTx", "fanout"}
    PROVE  \/ pc[q] \in {"stored", "finalizeTx", "fanout"} /\ store'[q] = store[q]
           \/ UploadRemote(q) \/ UploadLocalRename(q)
<1> USE DEF TypeOK
<1>1. ASSUME NEW r \in Requests,
             \/ Reject(r) \/ Arrive(r) \/ BeginDelete(r) \/ BeginS3Delete(r)
             \/ BeginSetup(r) \/ UploadSetup(r) \/ PutPrepare(r) \/ PutSetup(r)
             \/ UploadLocalOpen(r)
      PROVE  pc'[q] = pc[q] /\ store'[q] = store[q]
  BY <1>1 DEF Reject, Arrive, BeginDelete, BeginS3Delete, BeginSetup, UploadSetup,
     PutPrepare, PutSetup, UploadLocalOpen
<1>2. ASSUME NEW r \in Requests,
             \/ SetupFails(r) \/ UploadFails(r) \/ FinalizeConflict(r)
             \/ UploadGivesUp(r) \/ DeleteLocked(r) \/ UploadRetry(r)
             \/ S3DeleteNothing(r) \/ Abort(r) \/ FinalizeCommit(r)
             \/ DeleteCommit(r) \/ S3DeleteRows(r)
      PROVE  pc'[q] = pc[q] /\ store'[q] = store[q]
  BY <1>2 DEF SetupFails, UploadFails, FinalizeConflict, UploadGivesUp, DeleteLocked,
     UploadRetry, S3DeleteNothing, Abort, Fail, FinalizeCommit, DeleteCommit,
     S3DeleteRows
<1>3. ASSUME NEW r \in Requests,
             \/ BeginFinalize(r) \/ Finalize(r) \/ SyncFileToStore(r)
             \/ DeleteObject(r) \/ DeleteRows(r) \/ DeleteLastRows(r)
      PROVE  pc[q] \in {"stored", "finalizeTx", "fanout"} /\ store'[q] = store[q]
  BY <1>3 DEF BeginFinalize, Finalize, SyncFileToStore, DeleteObject, DeleteRows,
     DeleteLastRows
<1>4. ASSUME NEW r \in Requests, UploadRemote(r) \/ UploadLocalRename(r)
      PROVE  r = q \/ (pc'[q] = pc[q] /\ store'[q] = store[q])
  BY <1>4 DEF UploadRemote, UploadLocalRename
<1>5. OtherCommit \/ UNCHANGED vars => pc'[q] = pc[q] /\ store'[q] = store[q]
  BY DEF OtherCommit, vars
<1>6. QED
  BY <1>1, <1>2, <1>3, <1>4, <1>5 DEF Next, Step

\* A replica location is staged only together with its copy.
LEMMA CopiedBefore ==
    ASSUME TypeOK, [Next]_vars, NEW q \in Requests, NEW s \in Stores,
           s \in copied'[q]
    PROVE  s \in copied[q] \/ objects'[s][q.key] # {}
<1> USE DEF TypeOK
<1>1. CASE copied' = copied
  BY <1>1
<1>2. ASSUME NEW r \in Requests, SyncFileToStore(r)
      PROVE  s \in copied[q] \/ objects'[s][q.key] # {}
  <2>1. PICK t \in pending[r] : Replicated(r, t) \/ UNCHANGED <<objects, copied>>
    BY <1>2 DEF SyncFileToStore
  <2>2. CASE Replicated(r, t)
    <3>1. t \in Stores /\ r.key \in Keys
      BY RequestsAssumption
    <3>2. objects'[t][r.key] # {}
      BY <2>2, <3>1 DEF Replicated
    <3>3. copied' = copied \/ copied' = [copied EXCEPT ![r] = @ \cup {t}]
      BY <2>2 DEF Replicated
    <3>4. s \in copied[q] \/ (q = r /\ s = t)
      BY <3>3
    <3>5. QED
      BY <3>2, <3>4
  <2>3. QED
    BY <1>1, <2>1, <2>2
<1>3. ASSUME NEW r \in Requests,
             \/ Reject(r) \/ Arrive(r) \/ BeginDelete(r) \/ BeginS3Delete(r)
             \/ BeginSetup(r) \/ SetupFails(r) \/ UploadSetup(r) \/ PutPrepare(r)
             \/ PutSetup(r) \/ UploadRemote(r) \/ UploadLocalOpen(r)
             \/ UploadLocalRename(r) \/ UploadFails(r) \/ BeginFinalize(r)
             \/ Finalize(r) \/ FinalizeConflict(r) \/ FinalizeCommit(r)
             \/ UploadRetry(r) \/ UploadGivesUp(r) \/ DeleteObject(r)
             \/ DeleteRows(r) \/ DeleteLastRows(r) \/ DeleteCommit(r)
             \/ S3DeleteNothing(r) \/ S3DeleteRows(r) \/ DeleteLocked(r) \/ Abort(r)
      PROVE  copied' = copied
  BY <1>3 DEF Reject, Arrive, BeginDelete, BeginS3Delete, BeginSetup, SetupFails,
     UploadSetup, PutPrepare, PutSetup, UploadRemote, UploadLocalOpen,
     UploadLocalRename, UploadFails, BeginFinalize, Finalize, FinalizeConflict,
     FinalizeCommit, UploadRetry, UploadGivesUp, DeleteObject, DeleteRows,
     DeleteLastRows, DeleteCommit, S3DeleteNothing, S3DeleteRows, DeleteLocked, Abort
<1>4. OtherCommit \/ UNCHANGED vars => copied' = copied
  BY DEF OtherCommit, vars
<1>5. QED
  BY <1>1, <1>2, <1>3, <1>4 DEF Next, Step

LEMMA BytesStep ==
    ASSUME TypeOK, BytesInv, [Next]_vars
    PROVE  BytesInv'
<1> USE DEF TypeOK
<1>1. \A s \in Stores, k \in Keys : Kept(s, k) => Kept(s, k)'
  BY KeptStep
<1>2. \A q \in Requests, s \in Stores, k \in Keys :
         objects'[s][k] # {} => Kept(s, k)'
  BY DEF Kept
\* A request whose location is about to be recorded has its object.
<1>3. ASSUME NEW q \in Requests, pc'[q] \in {"stored", "finalizeTx", "fanout"}
      PROVE  Kept(store[q], q.key)'
  <2>1. \/ pc[q] \in {"stored", "finalizeTx", "fanout"} /\ store'[q] = store[q]
        \/ UploadRemote(q) \/ UploadLocalRename(q)
    BY <1>3, StoredBefore
  <2>2. store[q] \in Stores /\ store'[q] \in Stores /\ q.key \in Keys
    BY TypeStep, RequestsAssumption
  <2>3. CASE pc[q] \in {"stored", "finalizeTx", "fanout"} /\ store'[q] = store[q]
    BY <1>1, <2>2, <2>3 DEF BytesInv, Kept
  <2>4. CASE UploadRemote(q)
    <3>1. store'[q] = store[q] /\ objects'[store[q]][q.key] = {Id(q)}
      BY <2>2, <2>4 DEF UploadRemote
    <3>2. QED
      BY <3>1 DEF Kept
  <2>5. CASE UploadLocalRename(q)
    <3>1. /\ store'[q] = store[q]
          /\ objects'[store[q]][q.key] = temp[store[q]][q.key]
          /\ temp[store[q]][q.key] # {}
      BY <2>2, <2>5 DEF UploadLocalRename
    <3>2. QED
      BY <3>1 DEF Kept
  <2>6. QED
    BY <2>1, <2>3, <2>4, <2>5
<1>4. ASSUME NEW q \in Requests, NEW s \in copied'[q]
      PROVE  Kept(s, q.key)'
  <2>1. s \in Stores /\ q.key \in Keys
    BY TypeStep, RequestsAssumption
  <2>2. s \in copied[q] \/ objects'[s][q.key] # {}
    BY <2>1, CopiedBefore
  <2>3. QED
    BY <1>1, <1>2, <2>1, <2>2 DEF BytesInv
<1>5. ASSUME NEW l \in locs'
      PROVE  Kept(l.store, Key(l.blob))'
  <2>1. l.store \in Stores /\ Key(l.blob) \in Keys
    BY TypeStep, KeyType
  <2>2. CASE l \in locs
    BY <1>1, <2>1, <2>2 DEF BytesInv
  <2>3. CASE l \notin locs
    <3>1. PICK r \in Requests : pc[r] = "fanout" /\ MarkFileUploadReady(r)
      BY <2>3, StepKinds DEF CreatePendingFileUpload, DeleteFileEverywhere, LocsWithout
    <3>2. l.blob = Id(r) /\ l.store \in {store[r]} \cup copied[r]
      BY <2>3, <3>1 DEF MarkFileUploadReady
    <3>3. Key(l.blob) = r.key
      BY <3>2, IdType
    <3>4. Kept(l.store, Key(l.blob))
      BY <3>1, <3>2, <3>3 DEF BytesInv
    <3>5. QED
      BY <1>1, <2>1, <3>4
  <2>4. QED
    BY <2>2, <2>3
<1>6. QED
  BY <1>3, <1>4, <1>5 DEF BytesInv

\* Bytes disappear only where a request asked a store to delete them, however
\* uploads, fan-outs, deletes and aborts interleave.
THEOREM NoSilentLoss == Spec => []LossOnlyByErasure
<1>1. Init => BytesInv
  BY DEF Init, BytesInv
<1>2. TypeOK /\ BytesInv /\ [Next]_vars => BytesInv'
  BY BytesStep
<1>3. BytesInv => LossOnlyByErasure
  BY DEF BytesInv, LossOnlyByErasure, Kept
<1>4. QED
  BY <1>1, <1>2, <1>3, TypeCorrect, PTL DEF Spec
------------------------------------------------------------------------------
(* Refinement: readers see VisibleFiles. *)

\* Every step publishes one file at a free key, withdraws visible files, or
\* leaves what readers see alone.
LEMMA VisibleStep ==
    ASSUME TypeOK, RecordInv, [Next]_vars
    PROVE  [Abstract!Next]_<<Visible, published>>
<1> USE DEF Visible
<1>1. ASSUME UNCHANGED <<files, published>>
      PROVE  UNCHANGED <<Visible, published>>
  BY <1>1
<1>2. ASSUME Visible' \subseteq Visible, UNCHANGED published
      PROVE  Abstract!Next
  <2> DEFINE S == Visible \ Visible'
  <2>1. S \in SUBSET Visible /\ Visible' = Visible \ S
    BY <1>2
  <2>2. Visible' = Visible \ S /\ published' = published
    BY <1>2, <2>1
  <2> HIDE DEF S, Visible
  <2>3. QED
    BY <2>1, <2>2 DEF Abstract!Next, Abstract!Withdraw
<1>3. ASSUME NEW r \in Requests, Moves(r), CreatePendingFileUpload(r)
      PROVE  Visible' \subseteq Visible
  <2> DEFINE D == BlobsAt(r.key)
  <2>1. Id(r) \in Attempts
    BY IdType DEF TypeOK, Id
  <2>2. \A i \in Attempts :
          files'[i] = IF i = Id(r) THEN "uploading" ELSE IF i \in D THEN "absent" ELSE files[i]
    BY <1>3, <2>1 DEF CreatePendingFileUpload, FilesWithout
  <2>3. QED
    BY <2>2
<1>4. ASSUME NEW D \in SUBSET Attempts, DeleteFileEverywhere(D)
      PROVE  Visible' \subseteq Visible
  BY <1>4 DEF DeleteFileEverywhere, FilesWithout
<1>5. ASSUME NEW r \in Requests, pc[r] = "fanout", MarkFileUploadReady(r)
      PROVE  [Abstract!Next]_<<Visible, published>>
  <2>1. Id(r) \in Attempts /\ Id(r)[1] = r
    BY IdType DEF TypeOK, Id
  <2>2. files' = [files EXCEPT ![Id(r)] = Ready(@)]
        /\ published' = published \cup ({Id(r)} \cap Present)
    BY <1>5 DEF MarkFileUploadReady
  <2>3. CASE files[Id(r)] = "absent"
    <3>1. files' = files /\ published' = published
      BY <2>1, <2>2, <2>3 DEF Ready, Present, TypeOK
    <3>2. QED
      BY <3>1
  <2>4. CASE files[Id(r)] # "absent"
    <3>1. Id(r) \notin published
      BY <1>5, <2>1 DEF RecordInv, FailureLeavesNothingVisible
    <3>2. Visible' = Visible \cup {Id(r)} /\ published' = published \cup {Id(r)}
      BY <2>1, <2>2, <2>4 DEF Ready, Present, TypeOK
    <3>3. \A j \in Visible : Key(j) # Key(Id(r))
      <4> SUFFICES ASSUME NEW j \in Visible, Key(j) = Key(Id(r))
                   PROVE  FALSE
        OBVIOUS
      <4>1. blobs[j] # "absent" /\ blobs[Id(r)] # "absent"
        BY <2>1, <2>4 DEF RecordInv, RecordsAgree
      <4>2. j = Id(r)
        BY <2>1, <4>1 DEF RecordInv, UniqueObjectKey
      <4>3. QED
        BY <3>1, <4>2 DEF RecordInv, VisiblePublished
    <3> HIDE DEF Visible
    <3>4. QED
      BY <2>1, <3>1, <3>2, <3>3 DEF Abstract!Next, Abstract!Publish
  <2>5. QED
    BY <2>3, <2>4
<1>6. QED
  BY <1>1, <1>2, <1>3, <1>4, <1>5, StepKinds

\* Uploads, overwrites, retries and deletes implement the abstract promise.
THEOREM Refinement == Spec => ImplementsVisibleFiles
<1>1. Init => Abstract!Init
  BY DEF Init, Visible, Abstract!Init
<1>2. TypeOK /\ RecordInv /\ [Next]_vars => [Abstract!Next]_<<Visible, published>>
  BY VisibleStep
<1>3. QED
  BY <1>1, <1>2, TypeCorrect, RecordsCorrect, PTL
     DEF Spec, Abstract!Spec, ImplementsVisibleFiles
==============================================================================
