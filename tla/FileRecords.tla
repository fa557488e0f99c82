----------------------------- MODULE FileRecords -----------------------------
(***************************************************************************)
(* The file-record layer of one tenant in SQLite mode                      *)
(* (server/internal/store/file_records.go) together with the request       *)
(* handlers that create, finalise and remove file records:                 *)
(*                                                                         *)
(*   "upload"  UploadFile, uploadOne, uploadOneAttempt (handler/upload.go) *)
(*   "put"     s3PutObject                          (handler/s3gateway.go) *)
(*   "delete"  DeleteFile                                (handler/file.go) *)
(*   "batch"   BatchDeleteFiles, and DeleteFolderRecursiveWithFiles        *)
(*   "s3del"   s3DeleteObject                       (handler/s3gateway.go) *)
(*                                                                         *)
(* A request is a process.  Its steps are separated exactly where another  *)
(* request can run: between the read that fixes a transaction's snapshot   *)
(* and its first write, while storage I/O is in progress, and between two  *)
(* transactions.  Once a transaction has written, it holds SQLite's only   *)
(* write lock until it ends.                                               *)
(***************************************************************************)
EXTENDS Naturals, FiniteSets

CONSTANTS
    Requests,      \* the HTTP requests of a behaviour: records with .kind, .key
    Keys,          \* object keys (display paths)
    Stores,        \* rows of the stores table, all active and writable
    LocalStores,   \* the stores whose provider is "local"
    Primary,       \* the workspace's primary store
    Replicate,     \* storage_mode = 'replicate' (otherwise 'cumulative')
    MaxAttempts,   \* attempts of uploadOne (3 in the code)
    None           \* no request holds the write lock

Kinds == {"upload", "put", "delete", "batch", "s3del"}

ASSUME RequestsAssumption ==
    /\ \A r \in Requests : r.kind \in Kinds /\ r.key \in Keys
    /\ None \notin Requests
ASSUME StoresAssumption ==
    /\ Primary \in Stores
    /\ LocalStores \subseteq Stores
    /\ IsFiniteSet(Stores)
    /\ Replicate \in BOOLEAN
ASSUME AttemptsAssumption == MaxAttempts \in Nat \ {0}

(***************************************************************************)
(* Every attempt inserts one file_blobs row and one files row under fresh  *)
(* UUIDs, so the attempt names both rows.                                  *)
(***************************************************************************)
Attempts == Requests \X (1..MaxAttempts)
Key(i) == i[1].key

VARIABLES
    files,     \* files.status of the row of each attempt, or "absent"
    blobs,     \* file_blobs.state of the row of each attempt, or "absent"
    locs,      \* blob_locations rows [blob, store]; storage_path is Key(blob)
    objects,   \* objects[s][k]: attempts whose bytes the object holds, {} if none
    temp,      \* temp[s][k]: attempts writing a local store's k.tmp, {} if none
    writer,    \* the request whose transaction holds the write lock, or None
    fresh,     \* fresh[r]: r has a snapshot and nothing was committed since
    pc,        \* control point of each request
    attempt,   \* attempt number of uploadOne
    store,     \* the store phase 1 resolved
    pending,   \* stores whose object is still to be deleted, or copied to
    copied,    \* stores whose replica location is inserted but not committed
    cur,       \* the files a deleting request works on (at most one at a time)
    victims,   \* the files a deleting request has not reached yet
    doomed,    \* the files whose rows it deleted but did not commit
    published, \* history: attempts whose files row was committed as ready
    erased     \* history: the objects each request asked a store to delete

rows == <<files, blobs, locs>>
disk == <<objects, temp>>
deletion == <<cur, victims, doomed>>
vars == <<files, blobs, locs, objects, temp, writer, fresh, pc, attempt, store,
          pending, copied, cur, victims, doomed, published, erased>>

Id(r) == <<r, attempt[r]>>
Points == {"idle", "setup", "setupTx", "putLocked", "transfer", "writing",
           "stored", "finalizeTx", "fanout", "deleteTx", "deleteLocked",
           "s3delTx", "done", "failed", "aborted"}
Ended == {"done", "failed", "aborted"}

\* No record, object or request exists: a tenant just migrated and seeded.
Init ==
    /\ files = [i \in Attempts |-> "absent"]
    /\ blobs = [i \in Attempts |-> "absent"]
    /\ locs = {}
    /\ objects = [s \in Stores |-> [k \in Keys |-> {}]]
    /\ temp = [s \in Stores |-> [k \in Keys |-> {}]]
    /\ writer = None
    /\ fresh = [r \in Requests |-> FALSE]
    /\ pc = [r \in Requests |-> "idle"]
    /\ attempt = [r \in Requests |-> 1]
    /\ store = [r \in Requests |-> Primary]
    /\ pending = [r \in Requests |-> {}]
    /\ copied = [r \in Requests |-> {}]
    /\ cur = [r \in Requests |-> {}]
    /\ victims = [r \in Requests |-> {}]
    /\ doomed = [r \in Requests |-> {}]
    /\ published = {}
    /\ erased = [r \in Requests |-> {}]
------------------------------------------------------------------------------
(***************************************************************************)
(* SQLite transactions: deferred BEGIN, WAL, one writer.  The first read   *)
(* fixes the snapshot.  A write needs the lock and a snapshot that is      *)
(* still current; otherwise it fails with "database is locked", at once    *)
(* when the snapshot is stale, after the busy timeout when another         *)
(* transaction keeps the lock.  Every commit makes all snapshots stale.    *)
(***************************************************************************)
Snapshot(r) == fresh' = [fresh EXCEPT ![r] = TRUE]
CanWrite(r) == fresh[r] /\ writer \in {None, r}
Lock(r) == writer' = r
Commit(r) ==
    /\ writer' = None
    /\ fresh' = [q \in Requests |-> FALSE]
\* Mutant: an error path without its deferred tx.Rollback().
Rollback_Leaked(r) ==
    /\ writer' = writer
    /\ fresh' = [fresh EXCEPT ![r] = FALSE]
Rollback(r) ==
    /\ writer' = IF writer = r THEN None ELSE writer
    /\ fresh' = [fresh EXCEPT ![r] = FALSE]

\* The request ends with an error answer; its open transaction is rolled back.
Fail(r) ==
    /\ pc' = [pc EXCEPT ![r] = "failed"]
    /\ Rollback(r)

Present == {i \in Attempts : files[i] # "absent"}
LocationStores(i) == {s \in Stores : [blob |-> i, store |-> s] \in locs}

\* Rows at a key, as DeleteBlobEverywhere finds them (through file_blobs) and
\* as findFileByKey does (ready files only).
\* Mutant: an interrupted upload's pending blob is overlooked.
BlobsAt_ReadyOnly(k) == {i \in Attempts : blobs[i] = "ready" /\ Key(i) = k}
BlobsAt(k) == {i \in Attempts : blobs[i] # "absent" /\ Key(i) = k}
ReadyAt(k) == {i \in Attempts : files[i] = "ready" /\ Key(i) = k}

\* The tables without the files in D, their blobs and their locations.
FilesWithout(D) == [i \in Attempts |-> IF i \in D THEN "absent" ELSE files[i]]
BlobsWithout(D) == [i \in Attempts |-> IF i \in D THEN "absent" ELSE blobs[i]]
LocsWithout(D) == {l \in locs : l.blob \notin D}

DeleteFileEverywhere(D) ==
    /\ files' = FilesWithout(D)
    /\ blobs' = BlobsWithout(D)
    /\ locs' = LocsWithout(D)

\* Mutant: DeleteBlobEverywhere forgets the replaced file's own row.
CreatePendingFileUpload_KeepFile(r) ==
    LET D == BlobsAt(r.key)
    IN  /\ files' = [files EXCEPT ![Id(r)] = "uploading"]
        /\ blobs' = [BlobsWithout(D) EXCEPT ![Id(r)] = "pending"]
        /\ locs' = LocsWithout(D)
CreatePendingFileUpload(r) ==
    LET D == BlobsAt(r.key)
    IN  /\ files' = [FilesWithout(D) EXCEPT ![Id(r)] = "uploading"]
        /\ blobs' = [BlobsWithout(D) EXCEPT ![Id(r)] = "pending"]
        /\ locs' = LocsWithout(D)

\* An UPDATE of a row that is gone changes nothing and is no error.
\* Mutant: an upsert, which brings the row back.
Ready_Upsert(old) == "ready"
Ready(old) == IF old = "absent" THEN "absent" ELSE "ready"

\* UNIQUE (store_id, storage_path): another blob's location is in the way.
PathTaken(r, s) ==
    \E l \in locs : l.store = s /\ Key(l.blob) = r.key /\ l.blob # Id(r)

\* Mutant: only the files row is flipped.
MarkFileUploadReady_FileOnly(r) ==
    /\ files' = [files EXCEPT ![Id(r)] = Ready(@)]
    /\ locs' = locs \cup {[blob |-> Id(r), store |-> s] : s \in {store[r]} \cup copied[r]}
    /\ published' = published \cup ({Id(r)} \cap Present)
    /\ UNCHANGED blobs
MarkFileUploadReady(r) ==
    /\ files' = [files EXCEPT ![Id(r)] = Ready(@)]
    /\ blobs' = [blobs EXCEPT ![Id(r)] = Ready(@)]
    /\ locs' = locs \cup {[blob |-> Id(r), store |-> s] : s \in {store[r]} \cup copied[r]}
    /\ published' = published \cup ({Id(r)} \cap Present)
------------------------------------------------------------------------------
(***************************************************************************)
(* Uploads.                                                                *)
(***************************************************************************)
Uploads == {r \in Requests : r.kind \in {"upload", "put"}}

\* Early returns before phase 1, or a file that does not exist: bad form,
\* size limit, quota, unknown id.
Reject(r) ==
    /\ pc[r] = "idle"
    /\ pc' = [pc EXCEPT ![r] = "failed"]
    /\ UNCHANGED <<rows, disk, writer, fresh, attempt, store, pending, copied,
                   deletion, published, erased>>

\* The middleware (or gateway) transaction is committed, the upload starts.
Arrive(r) ==
    /\ pc[r] = "idle" /\ r \in Uploads
    /\ pc' = [pc EXCEPT ![r] = "setup"]
    /\ UNCHANGED <<rows, disk, writer, fresh, attempt, store, pending, copied,
                   deletion, published, erased>>

\* Phase 1 begins: the store is resolved, which takes the snapshot.  S3 PUT
\* and replicate mode write to the primary; a cumulative upload goes wherever
\* the routing policy says.
BeginSetup(r) ==
    /\ pc[r] = "setup"
    /\ \E s \in IF r.kind = "put" \/ Replicate THEN {Primary} ELSE Stores :
           store' = [store EXCEPT ![r] = s]
    /\ Snapshot(r)
    /\ pc' = [pc EXCEPT ![r] = "setupTx"]
    /\ UNCHANGED <<rows, disk, writer, attempt, pending, copied, deletion,
                   published, erased>>

\* No usable store, or its client cannot be built.
SetupFails(r) ==
    /\ pc[r] = "setupTx"
    /\ Fail(r)
    /\ UNCHANGED <<rows, disk, attempt, store, pending, copied, deletion,
                   published, erased>>

\* uploadOneAttempt, phase 1: pending rows written and committed.
UploadSetup(r) ==
    /\ pc[r] = "setupTx" /\ r.kind = "upload" /\ CanWrite(r)
    /\ CreatePendingFileUpload(r)
    /\ Commit(r)
    /\ pc' = [pc EXCEPT ![r] = "transfer"]
    /\ UNCHANGED <<disk, attempt, store, pending, copied, deletion, published,
                   erased>>

\* st.Delete of one object; callers ignore its error.
Delete(r, s, k) ==
    /\ \/ objects' = [objects EXCEPT ![s][k] = {}]
       \/ objects' = objects
    /\ erased' = [erased EXCEPT ![r] = @ \cup {<<s, k>>}]

\* s3PutObject, phase 1: rows written; if a ready file was replaced, its object
\* is deleted from the store before the commit.
PutPrepare(r) ==
    /\ pc[r] = "setupTx" /\ r.kind = "put" /\ CanWrite(r)
    /\ Lock(r)
    /\ \/ ReadyAt(r.key) # {} /\ Delete(r, store[r], r.key)
       \/ ReadyAt(r.key) = {} /\ UNCHANGED <<objects, erased>>
    /\ pc' = [pc EXCEPT ![r] = "putLocked"]
    /\ UNCHANGED <<rows, temp, fresh, attempt, store, pending, copied, deletion,
                   published>>

PutSetup(r) ==
    /\ pc[r] = "putLocked"
    /\ CreatePendingFileUpload(r)
    /\ Commit(r)
    /\ pc' = [pc EXCEPT ![r] = "transfer"]
    /\ UNCHANGED <<disk, attempt, store, pending, copied, deletion, published,
                   erased>>

\* Phase 2 on a remote store: the provider replaces the object.
UploadRemote(r) ==
    /\ pc[r] = "transfer" /\ store[r] \notin LocalStores
    /\ objects' = [objects EXCEPT ![store[r]][r.key] = {Id(r)}]
    /\ pc' = [pc EXCEPT ![r] = "stored"]
    /\ UNCHANGED <<rows, temp, writer, fresh, attempt, store, pending, copied,
                   deletion, published, erased>>

\* Phase 2 on a local store: os.Create truncates the one k.tmp, which whoever
\* else has it open keeps writing.
UploadLocalOpen(r) ==
    /\ pc[r] = "transfer" /\ store[r] \in LocalStores
    /\ temp' = [temp EXCEPT ![store[r]][r.key] =
                   {i \in @ : pc[i[1]] = "writing"} \cup {Id(r)}]
    /\ pc' = [pc EXCEPT ![r] = "writing"]
    /\ UNCHANGED <<rows, objects, writer, fresh, attempt, store, pending, copied,
                   deletion, published, erased>>

\* The rename: whatever k.tmp is at that moment becomes the object.
UploadLocalRename(r) ==
    /\ pc[r] = "writing" /\ temp[store[r]][r.key] # {}
    /\ objects' = [objects EXCEPT ![store[r]][r.key] = temp[store[r]][r.key]]
    /\ temp' = [temp EXCEPT ![store[r]][r.key] = {}]
    /\ pc' = [pc EXCEPT ![r] = "stored"]
    /\ UNCHANGED <<rows, writer, fresh, attempt, store, pending, copied, deletion,
                   published, erased>>

\* A write or provider error, or a rename whose k.tmp is gone; k.tmp is removed.
UploadFails(r) ==
    /\ pc[r] \in {"transfer", "writing"}
    /\ temp' = IF pc[r] = "writing" THEN [temp EXCEPT ![store[r]][r.key] = {}] ELSE temp
    /\ Fail(r)
    /\ UNCHANGED <<rows, objects, attempt, store, pending, copied, deletion,
                   published, erased>>

\* Phase 3 begins with the SELECT of the store's provider.
BeginFinalize(r) ==
    /\ pc[r] = "stored"
    /\ Snapshot(r)
    /\ pc' = [pc EXCEPT ![r] = "finalizeTx"]
    /\ UNCHANGED <<rows, disk, writer, attempt, store, pending, copied, deletion,
                   published, erased>>

\* MarkFileUploadReady's statements succeed.  In replicate mode the fan-out
\* follows inside the transaction, unless SyncFileToStores finds no file row.
Finalize(r) ==
    /\ pc[r] = "finalizeTx" /\ CanWrite(r)
    /\ ~PathTaken(r, store[r])
    /\ Lock(r)
    /\ pending' = [pending EXCEPT ![r] = IF Replicate /\ Id(r) \in Present
                                         THEN Stores \ {Primary} ELSE {}]
    /\ pc' = [pc EXCEPT ![r] = "fanout"]
    /\ UNCHANGED <<rows, disk, fresh, attempt, store, copied, deletion, published,
                   erased>>

\* The location INSERT violates UNIQUE (store_id, storage_path): not retried.
\* Mutant: the failed INSERT does not undo the UPDATEs before it.
FinalizeConflict_Kept(r) ==
    /\ pc[r] = "finalizeTx" /\ CanWrite(r)
    /\ PathTaken(r, store[r])
    /\ files' = [files EXCEPT ![Id(r)] = Ready(@)]
    /\ blobs' = [blobs EXCEPT ![Id(r)] = Ready(@)]
    /\ published' = published \cup ({Id(r)} \cap Present)
    /\ Fail(r)
    /\ UNCHANGED <<locs, disk, attempt, store, pending, copied, deletion, erased>>
FinalizeConflict(r) ==
    /\ pc[r] = "finalizeTx" /\ CanWrite(r)
    /\ PathTaken(r, store[r])
    /\ Fail(r)
    /\ UNCHANGED <<rows, disk, attempt, store, pending, copied, deletion,
                   published, erased>>

\* copyBlob to one more store; its failure, or a conflicting location, is
\* not fatal: the store simply gets no location row.
\* Mutant: the location is recorded although nothing was copied.
Replicated_NoCopy(r, s) ==
    /\ ~PathTaken(r, s) /\ copied' = [copied EXCEPT ![r] = @ \cup {s}]
    /\ UNCHANGED objects
Replicated(r, s) ==
    /\ objects[Primary][r.key] # {}
    /\ objects' = [objects EXCEPT ![s][r.key] = objects[Primary][r.key]]
    /\ \/ PathTaken(r, s) /\ UNCHANGED copied
       \/ ~PathTaken(r, s) /\ copied' = [copied EXCEPT ![r] = @ \cup {s}]

SyncFileToStore(r) ==
    /\ pc[r] = "fanout"
    /\ \E s \in pending[r] :
           /\ pending' = [pending EXCEPT ![r] = @ \ {s}]
           /\ Replicated(r, s) \/ UNCHANGED <<objects, copied>>
    /\ UNCHANGED <<rows, temp, writer, fresh, pc, attempt, store, deletion,
                   published, erased>>

FinalizeCommit(r) ==
    /\ pc[r] = "fanout" /\ pending[r] = {}
    /\ MarkFileUploadReady(r)
    /\ Commit(r)
    /\ pc' = [pc EXCEPT ![r] = "done"]
    /\ UNCHANGED <<disk, attempt, store, pending, copied, deletion, erased>>

\* Mutants: one attempt too many; a loop that never counts.
CanRetry_OneMore(r) == r.kind = "upload" /\ attempt[r] <= MaxAttempts
NextAttempt_Stuck(r) == attempt[r]
CanRetry(r) == r.kind = "upload" /\ attempt[r] < MaxAttempts
NextAttempt(r) == attempt[r] + 1

\* Mutant: the next attempt resumes with the transfer, on rows it never wrote.
UploadRetry_Resume(r) ==
    /\ pc[r] \in {"setupTx", "finalizeTx"} /\ ~CanWrite(r)
    /\ CanRetry(r)
    /\ attempt' = [attempt EXCEPT ![r] = NextAttempt(r)]
    /\ pc' = [pc EXCEPT ![r] = "transfer"]
    /\ Rollback(r)
    /\ UNCHANGED <<rows, disk, store, pending, copied, deletion, published, erased>>

\* "database is locked" in phase 1 or 3.  uploadOne starts over, at most
\* MaxAttempts times in all; s3PutObject gives up.
UploadRetry(r) ==
    /\ pc[r] \in {"setupTx", "finalizeTx"} /\ ~CanWrite(r)
    /\ CanRetry(r)
    /\ attempt' = [attempt EXCEPT ![r] = NextAttempt(r)]
    /\ pc' = [pc EXCEPT ![r] = "setup"]
    /\ Rollback(r)
    /\ UNCHANGED <<rows, disk, store, pending, copied, deletion, published, erased>>

UploadGivesUp(r) ==
    /\ pc[r] \in {"setupTx", "finalizeTx"} /\ ~CanWrite(r)
    /\ ~CanRetry(r)
    /\ Fail(r)
    /\ UNCHANGED <<rows, disk, attempt, store, pending, copied, deletion,
                   published, erased>>
------------------------------------------------------------------------------
(***************************************************************************)
(* Deletes.  DeleteFile, BatchDeleteFiles and DeleteFolderRecursiveWith-   *)
(* Files run in the middleware's transaction: for each file they read its  *)
(* locations, delete the objects, then delete the rows.                    *)
(***************************************************************************)
BeginDelete(r) ==
    /\ pc[r] = "idle" /\ r.kind \in {"delete", "batch"}
    /\ \E V \in SUBSET Present : \E i \in V :
           /\ r.kind = "delete" => V = {i} /\ Key(i) = r.key
           /\ cur' = [cur EXCEPT ![r] = {i}]
           /\ victims' = [victims EXCEPT ![r] = V \ {i}]
           /\ pending' = [pending EXCEPT ![r] = LocationStores(i)]
    /\ Snapshot(r)
    /\ pc' = [pc EXCEPT ![r] = "deleteTx"]
    /\ UNCHANGED <<rows, disk, writer, attempt, store, copied, doomed, published,
                   erased>>

\* One location's object.
DeleteObject(r) ==
    /\ pc[r] = "deleteTx"
    /\ \E s \in pending[r], i \in cur[r] :
           /\ pending' = [pending EXCEPT ![r] = @ \ {s}]
           /\ Delete(r, s, Key(i))
    /\ UNCHANGED <<rows, temp, writer, fresh, pc, attempt, store, copied, deletion,
                   published>>

\* The rows of the current file go; the next file's locations are read.
DeleteRows(r) ==
    /\ pc[r] = "deleteTx" /\ pending[r] = {} /\ CanWrite(r)
    /\ Lock(r)
    /\ doomed' = [doomed EXCEPT ![r] = @ \cup cur[r]]
    /\ \E i \in victims[r] :
           /\ cur' = [cur EXCEPT ![r] = {i}]
           /\ victims' = [victims EXCEPT ![r] = @ \ {i}]
           /\ pending' = [pending EXCEPT ![r] = LocationStores(i)]
    /\ UNCHANGED <<rows, disk, fresh, pc, attempt, store, copied, published, erased>>

DeleteLastRows(r) ==
    /\ pc[r] = "deleteTx" /\ pending[r] = {} /\ CanWrite(r)
    /\ victims[r] = {}
    /\ Lock(r)
    /\ doomed' = [doomed EXCEPT ![r] = @ \cup cur[r]]
    /\ pc' = [pc EXCEPT ![r] = "deleteLocked"]
    /\ UNCHANGED <<rows, disk, fresh, attempt, store, pending, copied, cur, victims,
                   published, erased>>

\* The handler answers 200, the Tenant middleware commits.
DeleteCommit(r) ==
    /\ pc[r] = "deleteLocked"
    /\ DeleteFileEverywhere(doomed[r])
    /\ Commit(r)
    /\ pc' = [pc EXCEPT ![r] = "done"]
    /\ UNCHANGED <<disk, attempt, store, pending, copied, deletion, published,
                   erased>>

\* S3 DELETE removes the rows of the ready file at the key, never the object.
BeginS3Delete(r) ==
    /\ pc[r] = "idle" /\ r.kind = "s3del"
    /\ cur' = [cur EXCEPT ![r] = ReadyAt(r.key)]
    /\ Snapshot(r)
    /\ pc' = [pc EXCEPT ![r] = "s3delTx"]
    /\ UNCHANGED <<rows, disk, writer, attempt, store, pending, copied, victims,
                   doomed, published, erased>>

S3DeleteNothing(r) ==
    /\ pc[r] = "s3delTx" /\ cur[r] = {}
    /\ pc' = [pc EXCEPT ![r] = "done"]
    /\ Rollback(r)
    /\ UNCHANGED <<rows, disk, attempt, store, pending, copied, deletion,
                   published, erased>>

S3DeleteRows(r) ==
    /\ pc[r] = "s3delTx" /\ cur[r] # {} /\ CanWrite(r)
    /\ DeleteFileEverywhere(cur[r])
    /\ Commit(r)
    /\ pc' = [pc EXCEPT ![r] = "done"]
    /\ UNCHANGED <<disk, attempt, store, pending, copied, deletion, published,
                   erased>>

\* "database is locked": the handler answers 500 and nothing is retried.
DeleteLocked(r) ==
    /\ \/ pc[r] = "deleteTx" /\ pending[r] = {}
       \/ pc[r] = "s3delTx" /\ cur[r] # {}
    /\ ~CanWrite(r)
    /\ Fail(r)
    /\ UNCHANGED <<rows, disk, attempt, store, pending, copied, deletion,
                   published, erased>>
------------------------------------------------------------------------------
\* The client disconnects (the request context rolls its transaction back) or
\* the server dies.
Abort(r) ==
    /\ pc[r] \notin Ended \cup {"idle"}
    /\ pc' = [pc EXCEPT ![r] = "aborted"]
    /\ Rollback(r)
    /\ UNCHANGED <<rows, disk, attempt, store, pending, copied, deletion,
                   published, erased>>

\* Any other handler of the tenant commits a write.
OtherCommit ==
    /\ writer = None
    /\ \E r \in Requests : fresh[r]
    /\ fresh' = [q \in Requests |-> FALSE]
    /\ UNCHANGED <<rows, disk, writer, pc, attempt, store, pending, copied,
                   deletion, published, erased>>

\* What the server does for r once it has accepted the request.
Step(r) ==
    \/ BeginSetup(r) \/ SetupFails(r) \/ UploadSetup(r) \/ PutPrepare(r)
    \/ PutSetup(r) \/ UploadRemote(r) \/ UploadLocalOpen(r)
    \/ UploadLocalRename(r) \/ UploadFails(r) \/ BeginFinalize(r) \/ Finalize(r)
    \/ FinalizeConflict(r) \/ SyncFileToStore(r) \/ FinalizeCommit(r)
    \/ UploadRetry(r) \/ UploadGivesUp(r) \/ DeleteObject(r) \/ DeleteRows(r)
    \/ DeleteLastRows(r) \/ DeleteCommit(r)
    \/ S3DeleteNothing(r) \/ S3DeleteRows(r) \/ DeleteLocked(r)

Next ==
    \/ \E r \in Requests :
           \/ Reject(r) \/ Arrive(r) \/ BeginDelete(r) \/ BeginS3Delete(r)
           \/ Step(r) \/ Abort(r)
    \/ OtherCommit

Spec == Init /\ [][Next]_vars

\* gin runs every accepted request on a goroutine of its own: it keeps taking
\* steps until it answers.  Nothing forces a client to send or to disconnect.
FairSpec == Spec /\ \A r \in Requests : WF_vars(Step(r))
------------------------------------------------------------------------------
(***************************************************************************)
(* Properties.                                                             *)
(***************************************************************************)
TypeOK ==
    /\ files \in [Attempts -> {"absent", "uploading", "ready"}]
    /\ blobs \in [Attempts -> {"absent", "pending", "ready"}]
    /\ locs \subseteq [blob : Attempts, store : Stores]
    /\ objects \in [Stores -> [Keys -> SUBSET Attempts]]
    /\ temp \in [Stores -> [Keys -> SUBSET Attempts]]
    /\ writer \in Requests \cup {None}
    /\ fresh \in [Requests -> BOOLEAN]
    /\ pc \in [Requests -> Points]
    /\ attempt \in [Requests -> 1..MaxAttempts]
    /\ store \in [Requests -> Stores]
    /\ pending \in [Requests -> SUBSET Stores]
    /\ copied \in [Requests -> SUBSET Stores]
    /\ cur \in [Requests -> SUBSET Attempts]
    /\ victims \in [Requests -> SUBSET Attempts]
    /\ doomed \in [Requests -> SUBSET Attempts]
    /\ published \subseteq Attempts
    /\ erased \in [Requests -> SUBSET (Stores \X Keys)]

\* The three tables agree whatever uploads, overwrites, retries and deletes
\* interleave: a files row and its file_blobs row exist together and are ready
\* together, and a file is ready exactly when its blob has a location.
\* (MarkFileUploadReady, DeleteBlobEverywhere and DeleteFileEverywhere touch
\* the tables one by one, and SQLite has no cascade to help them.)
RecordsAgree ==
    \A i \in Attempts :
        /\ files[i] = "absent" <=> blobs[i] = "absent"
        /\ files[i] = "ready" <=> blobs[i] = "ready"
        /\ files[i] # "absent" =>
               (files[i] = "ready" <=> \E s \in Stores : [blob |-> i, store |-> s] \in locs)

\* "any existing blob at objectKey ... is dropped first so the UNIQUE
\* object_key constraint doesn't reject the re-upload": the constraint is
\* never violated, whichever upload, retry or delete of the key came before.
UniqueObjectKey ==
    \A i, j \in Attempts :
        blobs[i] # "absent" /\ blobs[j] # "absent" /\ Key(i) = Key(j) => i = j

\* A request that was answered with an error, or never answered, left no file
\* that was ever visible, in any of its attempts; and no request made two
\* files visible.
FailureLeavesNothingVisible ==
    \A i \in published : pc[i[1]] = "done" /\ i[2] = attempt[i[1]]

\* Bytes are lost only where some request asked a store to delete them: no
\* interleaving of uploads, overwrites, fan-outs and retries by itself leaves
\* a ready file with a location whose object does not exist.
LossOnlyByErasure ==
    \A l \in locs :
        files[l.blob] = "ready" /\ objects[l.store][Key(l.blob)] = {} =>
            \E r \in Requests : <<l.store, Key(l.blob)>> \in erased[r]

\* The write lock is held only by a transaction that is still open, with a
\* snapshot nobody invalidated: no error path, retry or abort leaks it, and a
\* writer never overwrites rows committed after its snapshot.
LockHeldByOpenTransaction ==
    writer # None =>
        /\ pc[writer] \in {"putLocked", "fanout", "deleteTx", "deleteLocked"}
        /\ fresh[writer]

\* The invariant behind the three above: only the last attempt of a request
\* that was answered with success owns locations, even orphaned ones, so an
\* attempt about to insert its rows can find none; and what is visible now was
\* published.
LocationsOfAnswered ==
    \A l \in locs : pc[l.blob[1]] = "done" /\ l.blob[2] = attempt[l.blob[1]]
VisiblePublished == \A i \in Attempts : files[i] = "ready" => i \in published
RecordInv ==
    /\ RecordsAgree
    /\ UniqueObjectKey
    /\ FailureLeavesNothingVisible
    /\ LocationsOfAnswered
    /\ VisiblePublished

\* Every request the server accepts is eventually answered (or aborted):
\* waiting for the write lock ends, and uploads that keep invalidating each
\* other's snapshot run out of attempts.
EveryRequestEnds ==
    \A r \in Requests : pc[r] # "idle" ~> pc[r] \in Ended

\* How many steps r still takes at most: an attempt visits every point of an
\* upload once and every store once, a delete every store of every file.
PointsLeft ==
    [setup |-> 8, setupTx |-> 7, putLocked |-> 6, transfer |-> 5, writing |-> 4,
     stored |-> 3, finalizeTx |-> 2]
StepsLeft(r) ==
    LET n == Cardinality(Stores)
    IN  CASE pc[r] \in DOMAIN PointsLeft ->
                 (MaxAttempts - attempt[r]) * (n + 8) + n + PointsLeft[pc[r]]
          [] pc[r] = "fanout" -> Cardinality(pending[r]) + 1
          [] pc[r] = "deleteTx" ->
                 Cardinality(victims[r]) * (n + 1) + Cardinality(pending[r]) + 2
          [] pc[r] \in {"deleteLocked", "s3delTx"} -> 1
          [] OTHER -> 0

\* Why every request ends: whatever snapshots the others make stale, each step
\* of a request uses up one of the finitely many it has, and nobody else's step
\* ever gives it more.  (Retries, fan-outs and batches are loops; nothing but
\* the attempt counter and the sets of stores and files bounds them.)
StepsRunOut ==
    [][\A r \in Requests :
           /\ Step(r) => StepsLeft(r)' < StepsLeft(r)
           /\ pc[r] # "idle" => StepsLeft(r)' <= StepsLeft(r)]_vars

\* An upload that nobody disturbs is what its answer says: if every other
\* request that could touch its key has yet to arrive, then once it was answered
\* with success its file is listed, and every store it is recorded in, the one
\* chosen for it among them, holds its bytes and no others.  Neither stale
\* snapshots, nor what its own earlier attempts left behind, nor the uploads and
\* deletes of other keys change that.
Alone(r) ==
    \A q \in Requests \ {r} : q.key = r.key \/ q.kind = "batch" => pc[q] = "idle"
LoneUploadStands ==
    \A r \in Uploads : pc[r] = "done" /\ Alone(r) =>
        /\ files[Id(r)] = "ready"
        /\ store[r] \in LocationStores(Id(r))
        /\ \A s \in LocationStores(Id(r)) : objects[s][r.key] = {Id(r)}

\* What the record layer promises to its readers, see VisibleFiles.
Visible == {i \in Attempts : files[i] = "ready"}
Abstract == INSTANCE VisibleFiles WITH visible <- Visible, ever <- published

\* Readers see a file appear once, whole, at a key nothing else occupies, and
\* disappear for good: the record layer implements VisibleFiles.
ImplementsVisibleFiles == Abstract!Spec
------------------------------------------------------------------------------
(***************************************************************************)
(* What comments in the code say and the code does not do.                 *)
(***************************************************************************)
\* file_records.go: "blob_locations must be removed explicitly ... orphaned
\* rows would block same-name re-uploads".
NoOrphanLocation ==
    \A l \in locs : blobs[l.blob] # "absent"

\* file.go: DeleteFile "removes a file: physical objects from every store,
\* then the file + blob + blob_location records": a DeleteFile that has ended
\* did not delete the object of a file that is still listed.
DeleteIsAllOrNothing ==
    \A r \in Requests : r.kind = "delete" /\ pc[r] \in {"done", "failed"} =>
        \A l \in locs :
            files[l.blob] = "ready" /\ <<l.store, Key(l.blob)>> \in erased[r]
                => objects[l.store][Key(l.blob)] # {}
==============================================================================
