-------------------------- MODULE FileRecordsAnswers --------------------------
(***************************************************************************)
(* Theorems about the answers of FileRecords, for all values of its        *)
(* constants: every request runs out of steps, and the success answered to *)
(* an undisturbed upload is true.                                          *)
(***************************************************************************)
EXTENDS FileRecordsProofs, FiniteSetTheorems

\* What a request does, and what its client does to it.
Acts(q) ==
    Reject(q) \/ Arrive(q) \/ BeginDelete(q) \/ BeginS3Delete(q) \/ Step(q) \/ Abort(q)

\* A step of the system is a step of one request, or a commit of another handler.
LEMMA Actors == Next <=> (\E q \in Requests : Acts(q)) \/ OtherCommit
BY DEF Next, Acts

\* A request leaves the control state of the others alone.
LEMMA OthersStay ==
    ASSUME TypeOK, NEW q \in Requests, Acts(q)
    PROVE  \A p \in Requests \ {q} :
              /\ pc'[p] = pc[p] /\ attempt'[p] = attempt[p] /\ store'[p] = store[p]
              /\ pending'[p] = pending[p] /\ victims'[p] = victims[p]
              /\ copied'[p] = copied[p]
<1> USE DEF TypeOK, deletion
<1>1. ASSUME \/ Reject(q) \/ Arrive(q) \/ BeginDelete(q) \/ BeginS3Delete(q)
             \/ BeginSetup(q) \/ UploadSetup(q) \/ PutPrepare(q) \/ PutSetup(q)
             \/ UploadRemote(q) \/ UploadLocalOpen(q) \/ UploadLocalRename(q)
             \/ BeginFinalize(q) \/ Finalize(q) \/ FinalizeCommit(q)
      PROVE  \A p \in Requests \ {q} :
              /\ pc'[p] = pc[p] /\ attempt'[p] = attempt[p] /\ store'[p] = store[p]
              /\ pending'[p] = pending[p] /\ victims'[p] = victims[p]
              /\ copied'[p] = copied[p]
  BY <1>1 DEF Reject, Arrive, BeginDelete, BeginS3Delete, BeginSetup, UploadSetup,
     PutPrepare, PutSetup, UploadRemote, UploadLocalOpen, UploadLocalRename,
     BeginFinalize, Finalize, FinalizeCommit
<1>2. ASSUME \/ SetupFails(q) \/ UploadFails(q) \/ FinalizeConflict(q)
             \/ UploadRetry(q) \/ UploadGivesUp(q) \/ DeleteRows(q)
             \/ DeleteLastRows(q) \/ DeleteCommit(q) \/ S3DeleteNothing(q)
             \/ S3DeleteRows(q) \/ DeleteLocked(q) \/ Abort(q) \/ DeleteObject(q)
      PROVE  \A p \in Requests \ {q} :
              /\ pc'[p] = pc[p] /\ attempt'[p] = attempt[p] /\ store'[p] = store[p]
              /\ pending'[p] = pending[p] /\ victims'[p] = victims[p]
              /\ copied'[p] = copied[p]
  BY <1>2 DEF SetupFails, UploadFails, FinalizeConflict, UploadRetry, UploadGivesUp,
     DeleteRows, DeleteLastRows, DeleteCommit, S3DeleteNothing, S3DeleteRows,
     DeleteLocked, Abort, DeleteObject, Fail
<1>3. CASE SyncFileToStore(q)
  BY <1>3 DEF SyncFileToStore, Replicated
<1> QED
  BY <1>1, <1>2, <1>3 DEF Acts, Step
------------------------------------------------------------------------------
(***************************************************************************)
(* Every request runs out of steps.                                        *)
(***************************************************************************)
\* However many requests there are, only finitely many have inserted rows, so a
\* batch has finitely many files to delete.
FinitelyMany ==
    /\ IsFiniteSet(Present)
    /\ \A r \in Requests : IsFiniteSet(victims[r])

\* A step inserts at most the rows of one attempt.
LEMMA PresentGrowsByOne ==
    ASSUME TypeOK, [Next]_vars
    PROVE  \/ Present' \subseteq Present
           \/ \E r \in Requests : Present' \subseteq Present \cup {Id(r)}
<1> USE DEF Present
<1>1. UNCHANGED files => Present' \subseteq Present
  OBVIOUS
<1>2. ASSUME NEW r \in Requests, CreatePendingFileUpload(r)
      PROVE  Present' \subseteq Present \cup {Id(r)}
  BY <1>2 DEF CreatePendingFileUpload, FilesWithout, TypeOK
<1>3. ASSUME NEW D \in SUBSET Attempts, DeleteFileEverywhere(D)
      PROVE  Present' \subseteq Present
  BY <1>3 DEF DeleteFileEverywhere, FilesWithout, TypeOK
<1>4. ASSUME NEW r \in Requests, MarkFileUploadReady(r)
      PROVE  Present' \subseteq Present
  <2>1. Id(r) \in Attempts
    BY IdType DEF TypeOK
  <2> QED
    BY <1>4, <2>1 DEF MarkFileUploadReady, Ready, TypeOK
<1> QED
  BY <1>1, <1>2, <1>3, <1>4, StepKinds

\* Deletes choose their files among the rows there are.
LEMMA FinitelyManyStep ==
    ASSUME TypeOK, FinitelyMany, [Next]_vars
    PROVE  FinitelyMany'
<1>1. IsFiniteSet(Present')
  <2>1. ASSUME NEW r \in Requests, Present' \subseteq Present \cup {Id(r)}
        PROVE  IsFiniteSet(Present')
    <3>1. IsFiniteSet(Present \cup {Id(r)})
      BY FS_AddElement DEF FinitelyMany
    <3> QED
      BY <2>1, <3>1, FS_Subset
  <2>2. CASE Present' \subseteq Present
    BY <2>2, FS_Subset DEF FinitelyMany
  <2> QED
    BY <2>1, <2>2, PresentGrowsByOne
<1>2. ASSUME NEW r \in Requests
      PROVE  victims'[r] \subseteq victims[r] \/ victims'[r] \subseteq Present
  <2>1. CASE UNCHANGED victims
    BY <2>1
  <2>2. CASE BeginDelete(r)
    <3>1. PICK V \in SUBSET Present : \E i \in V : victims' = [victims EXCEPT ![r] = V \ {i}]
      BY <2>2 DEF BeginDelete
    <3> QED
      BY <3>1 DEF TypeOK
  <2>3. CASE DeleteRows(r)
    BY <2>3 DEF DeleteRows, TypeOK
  <2>4. ASSUME NEW q \in Requests, q # r, Acts(q)
        PROVE  victims'[r] = victims[r]
    BY <2>4, OthersStay
  <2>5. ASSUME Acts(r), ~BeginDelete(r), ~DeleteRows(r)
        PROVE  UNCHANGED victims
    BY <2>5 DEF Acts, Step, Reject, Arrive, BeginS3Delete, BeginSetup, SetupFails,
       UploadSetup, PutPrepare, PutSetup, UploadRemote, UploadLocalOpen,
       UploadLocalRename, UploadFails, BeginFinalize, Finalize, FinalizeConflict,
       SyncFileToStore, FinalizeCommit, UploadRetry, UploadGivesUp, DeleteObject,
       DeleteLastRows, DeleteCommit, S3DeleteNothing, S3DeleteRows, DeleteLocked,
       Abort, deletion
  <2>6. OtherCommit \/ UNCHANGED vars => UNCHANGED victims
    BY DEF OtherCommit, vars, deletion
  <2> QED
    BY <2>1, <2>2, <2>3, <2>4, <2>5, <2>6, Actors
<1> QED
  BY <1>1, <1>2, FS_Subset DEF FinitelyMany

\* StepsLeft of a request at point p, in attempt a, with stores P and files V left.
N == Cardinality(Stores)
LaterAttempts(a) == (MaxAttempts - a) * (N + 8)
Left(p, a, P, V) ==
    CASE p \in DOMAIN PointsLeft -> LaterAttempts(a) + N + PointsLeft[p]
      [] p = "fanout" -> Cardinality(P) + 1
      [] p = "deleteTx" -> Cardinality(V) * (N + 1) + Cardinality(P) + 2
      [] p \in {"deleteLocked", "s3delTx"} -> 1
      [] OTHER -> 0

\* StepsLeft, now and after a step, is Left of the request's control state.
LEMMA LeftNowAndThen ==
    ASSUME NEW r \in Requests
    PROVE  /\ StepsLeft(r) = Left(pc[r], attempt[r], pending[r], victims[r])
           /\ StepsLeft(r)' = Left(pc'[r], attempt'[r], pending'[r], victims'[r])
BY DEF StepsLeft, Left, LaterAttempts, N

\* The cases of Left, one by one.
LEMMA LeftAt ==
    ASSUME NEW a, NEW P, NEW V
    PROVE  /\ Left("setup", a, P, V) = LaterAttempts(a) + N + 8
           /\ Left("setupTx", a, P, V) = LaterAttempts(a) + N + 7
           /\ Left("putLocked", a, P, V) = LaterAttempts(a) + N + 6
           /\ Left("transfer", a, P, V) = LaterAttempts(a) + N + 5
           /\ Left("writing", a, P, V) = LaterAttempts(a) + N + 4
           /\ Left("stored", a, P, V) = LaterAttempts(a) + N + 3
           /\ Left("finalizeTx", a, P, V) = LaterAttempts(a) + N + 2
           /\ Left("fanout", a, P, V) = Cardinality(P) + 1
           /\ Left("deleteTx", a, P, V) = Cardinality(V) * (N + 1) + Cardinality(P) + 2
           /\ Left("deleteLocked", a, P, V) = 1
           /\ Left("s3delTx", a, P, V) = 1
           /\ Left("done", a, P, V) = 0
           /\ Left("failed", a, P, V) = 0
           /\ Left("aborted", a, P, V) = 0
BY DEF Left, PointsLeft

\* The stores are finitely many, and so are those a request has still to visit.
LEMMA StoresLeft ==
    /\ N \in Nat
    /\ \A P \in SUBSET Stores :
          /\ IsFiniteSet(P) /\ Cardinality(P) \in Nat /\ Cardinality(P) <= N
          /\ \A s \in P : Cardinality(P \ {s}) = Cardinality(P) - 1
BY StoresAssumption, FS_CardinalityType, FS_Subset, FS_RemoveElement DEF N

\* One attempt more is worth N + 8 steps.
LEMMA LaterAttemptsFall ==
    ASSUME NEW a \in 1..MaxAttempts
    PROVE  /\ LaterAttempts(a) \in Nat
           /\ a < MaxAttempts => LaterAttempts(a + 1) + (N + 8) = LaterAttempts(a)
<1>1. N + 8 \in Nat /\ MaxAttempts \in Nat
  BY StoresLeft, AttemptsAssumption
<1>2. MaxAttempts - a \in Nat
  BY <1>1
<1>3. \A x, y \in Nat : x * y \in Nat /\ (x + 1) * y = x * y + y
  OBVIOUS
<1>4. CASE a < MaxAttempts
  <2>1. MaxAttempts - (a + 1) \in Nat /\ MaxAttempts - a = (MaxAttempts - (a + 1)) + 1
    BY <1>1, <1>4
  <2> QED
    BY <1>1, <1>2, <1>3, <2>1 DEF LaterAttempts
<1>5. CASE ~(a < MaxAttempts)
  BY <1>1, <1>2, <1>3, <1>5 DEF LaterAttempts
<1> QED
  BY <1>4, <1>5

\* How a step changes the state of its request, as far as StepsLeft sees it.
LEMMA Progress ==
    ASSUME TypeOK, NEW r \in Requests, Step(r)
    PROVE  \/ pc'[r] \in Ended /\ pc[r] \notin Ended \cup {"idle"}
           \/ /\ attempt'[r] = attempt[r]
              /\ \/ pc[r] = "setup" /\ pc'[r] = "setupTx"
                 \/ pc[r] = "setupTx" /\ pc'[r] \in {"putLocked", "transfer"}
                 \/ pc[r] = "putLocked" /\ pc'[r] = "transfer"
                 \/ pc[r] = "transfer" /\ pc'[r] \in {"writing", "stored"}
                 \/ pc[r] = "writing" /\ pc'[r] = "stored"
                 \/ pc[r] = "stored" /\ pc'[r] = "finalizeTx"
                 \/ pc[r] = "finalizeTx" /\ pc'[r] = "fanout" /\ pending'[r] \subseteq Stores
           \/ /\ pc[r] \in {"setupTx", "finalizeTx"} /\ pc'[r] = "setup"
              /\ attempt[r] < MaxAttempts /\ attempt'[r] = attempt[r] + 1
           \/ /\ pc[r] \in {"fanout", "deleteTx"} /\ pc'[r] = pc[r]
              /\ \E s \in pending[r] : pending'[r] = pending[r] \ {s}
              /\ victims'[r] = victims[r]
           \/ /\ pc[r] = "deleteTx" /\ pc'[r] = "deleteTx" /\ pending[r] = {}
              /\ \E i \in victims[r] : victims'[r] = victims[r] \ {i}
              /\ pending'[r] \subseteq Stores
           \/ pc[r] = "deleteTx" /\ pc'[r] = "deleteLocked"
<1> USE DEF TypeOK, deletion, Ended
<1>1. CASE \/ BeginSetup(r) \/ UploadSetup(r) \/ PutPrepare(r) \/ PutSetup(r)
           \/ UploadRemote(r) \/ UploadLocalOpen(r) \/ UploadLocalRename(r)
           \/ BeginFinalize(r) \/ DeleteLastRows(r)
  BY <1>1 DEF BeginSetup, UploadSetup, PutPrepare, PutSetup, UploadRemote,
     UploadLocalOpen, UploadLocalRename, BeginFinalize, DeleteLastRows
<1>2. CASE \/ SetupFails(r) \/ UploadFails(r) \/ FinalizeConflict(r)
           \/ FinalizeCommit(r) \/ UploadGivesUp(r) \/ DeleteCommit(r)
           \/ S3DeleteNothing(r) \/ S3DeleteRows(r) \/ DeleteLocked(r)
  BY <1>2 DEF SetupFails, UploadFails, FinalizeConflict, FinalizeCommit,
     UploadGivesUp, DeleteCommit, S3DeleteNothing, S3DeleteRows, DeleteLocked, Fail
<1>3. CASE Finalize(r)
  BY <1>3 DEF Finalize
<1>4. CASE SyncFileToStore(r)
  BY <1>4 DEF SyncFileToStore
<1>5. CASE UploadRetry(r)
  BY <1>5, AttemptsAssumption DEF UploadRetry, CanRetry, NextAttempt
<1>6. CASE DeleteObject(r)
  BY <1>6 DEF DeleteObject
<1>7. CASE DeleteRows(r)
  BY <1>7 DEF DeleteRows, LocationStores
<1> QED
  BY <1>1, <1>2, <1>3, <1>4, <1>5, <1>6, <1>7 DEF Step

\* Left is a number, and zero only for a request that has not begun or has ended.
LEMMA LeftIsNumber ==
    ASSUME NEW p \in Points, NEW a \in 1..MaxAttempts, NEW P \in SUBSET Stores,
           NEW V, IsFiniteSet(V)
    PROVE  /\ Left(p, a, P, V) \in Nat
           /\ p \notin Ended \cup {"idle"} => Left(p, a, P, V) > 0
<1>1. LaterAttempts(a) \in Nat
  BY LaterAttemptsFall
<1>2. Cardinality(P) \in Nat /\ N \in Nat
  BY StoresLeft
<1>3. Cardinality(V) \in Nat
  BY FS_CardinalityType
<1>4. Cardinality(V) * (N + 1) \in Nat
  BY <1>2, <1>3
<1>5. Left("idle", a, P, V) = 0
  BY DEF Left, PointsLeft
<1> QED
  BY <1>1, <1>2, <1>3, <1>4, <1>5, LeftAt DEF Points, Ended

\* Each step of a request uses up at least one of those it has left.
LEMMA OwnStep ==
    ASSUME TypeOK, FinitelyMany, NEW r \in Requests, Step(r)
    PROVE  StepsLeft(r)' < StepsLeft(r)
<1> DEFINE a == attempt[r]
           P == pending[r]
           V == victims[r]
           a2 == attempt'[r]
           P2 == pending'[r]
           V2 == victims'[r]
<1>1. LaterAttempts(a) \in Nat
  BY LaterAttemptsFall DEF TypeOK
<1>2. Cardinality(P) \in Nat /\ N \in Nat /\ P \subseteq Stores
  BY StoresLeft DEF TypeOK
<1>3. Cardinality(V) \in Nat /\ IsFiniteSet(V)
  BY FS_CardinalityType DEF FinitelyMany
<1>4. Cardinality(V) * (N + 1) \in Nat
  BY <1>2, <1>3
<1>5. /\ StepsLeft(r) = Left(pc[r], a, P, V)
      /\ StepsLeft(r)' = Left(pc'[r], a2, P2, V2)
  BY LeftNowAndThen
<1>6. CASE pc'[r] \in Ended /\ pc[r] \notin Ended \cup {"idle"}
  <2>1. Left(pc'[r], a2, P2, V2) = 0
    <3> HIDE DEF a, P, V, a2, P2, V2
    <3> QED
      BY <1>6, LeftAt DEF Ended
  <2>2. Left(pc[r], a, P, V) > 0 /\ Left(pc[r], a, P, V) \in Nat
    <3>1. pc[r] \in Points /\ a \in 1..MaxAttempts /\ P \in SUBSET Stores
      BY DEF TypeOK
    <3> HIDE DEF a, P, V, a2, P2, V2
    <3> QED
      BY <1>3, <1>6, <3>1, LeftIsNumber
  <2> HIDE DEF a, P, V, a2, P2, V2
  <2> QED
    BY <1>5, <2>1, <2>2
<1>7. CASE /\ a2 = a
           /\ \/ pc[r] = "setup" /\ pc'[r] = "setupTx"
              \/ pc[r] = "setupTx" /\ pc'[r] \in {"putLocked", "transfer"}
              \/ pc[r] = "putLocked" /\ pc'[r] = "transfer"
              \/ pc[r] = "transfer" /\ pc'[r] \in {"writing", "stored"}
              \/ pc[r] = "writing" /\ pc'[r] = "stored"
              \/ pc[r] = "stored" /\ pc'[r] = "finalizeTx"
  <2> HIDE DEF a, P, V, a2, P2, V2
  <2> QED
    BY <1>1, <1>2, <1>5, <1>7, LeftAt
<1>8. CASE pc[r] = "finalizeTx" /\ pc'[r] = "fanout" /\ P2 \subseteq Stores
  <2>1. Cardinality(P2) \in Nat /\ Cardinality(P2) <= N
    BY <1>8, StoresLeft
  <2> HIDE DEF a, P, V, a2, P2, V2
  <2> QED
    BY <1>1, <1>2, <1>5, <1>8, <2>1, LeftAt
<1>9. CASE /\ pc[r] \in {"setupTx", "finalizeTx"} /\ pc'[r] = "setup"
           /\ a < MaxAttempts /\ a2 = a + 1
  <2>1. a \in 1..MaxAttempts /\ a + 1 \in 1..MaxAttempts
    BY <1>9, AttemptsAssumption DEF TypeOK
  <2>2. LaterAttempts(a2) + (N + 8) = LaterAttempts(a) /\ LaterAttempts(a2) \in Nat
    BY <1>9, <2>1, LaterAttemptsFall
  <2> HIDE DEF a, P, V, a2, P2, V2
  <2> QED
    BY <1>1, <1>2, <1>5, <1>9, <2>2, LeftAt
<1>10. CASE /\ pc[r] \in {"fanout", "deleteTx"} /\ pc'[r] = pc[r]
            /\ \E s \in P : P2 = P \ {s}
            /\ V2 = V
  <2>1. Cardinality(P2) = Cardinality(P) - 1
    BY <1>2, <1>10, StoresLeft
  <2> HIDE DEF a, P, V, a2, P2, V2
  <2> QED
    BY <1>2, <1>4, <1>5, <1>10, <2>1, LeftAt
<1>11. CASE /\ pc[r] = "deleteTx" /\ pc'[r] = "deleteTx" /\ P = {}
            /\ \E i \in V : V2 = V \ {i}
            /\ P2 \subseteq Stores
  <2>1. Cardinality(V2) = Cardinality(V) - 1 /\ Cardinality(V2) \in Nat
    BY <1>3, <1>11, FS_RemoveElement, FS_CardinalityType
  <2>2. Cardinality(P2) \in Nat /\ Cardinality(P2) <= N
    BY <1>11, StoresLeft
  <2>3. \A x, y \in Nat : (x + 1) * y = x * y + y /\ x * y \in Nat
    OBVIOUS
  <2>4. /\ Cardinality(V) = Cardinality(V2) + 1 /\ N + 1 \in Nat
    BY <1>2, <1>3, <2>1
  <2>5. Cardinality(V) * (N + 1) = Cardinality(V2) * (N + 1) + (N + 1)
    BY <2>1, <2>3, <2>4
  <2>6. Cardinality(V2) * (N + 1) \in Nat
    BY <2>1, <2>3, <2>4
  <2> HIDE DEF a, P, V, a2, P2, V2
  <2> QED
    BY <1>2, <1>5, <1>11, <2>2, <2>5, <2>6, LeftAt
<1>12. CASE pc[r] = "deleteTx" /\ pc'[r] = "deleteLocked"
  <2> HIDE DEF a, P, V, a2, P2, V2
  <2> QED
    BY <1>2, <1>4, <1>5, <1>12, LeftAt
<1> QED
  BY <1>6, <1>7, <1>8, <1>9, <1>10, <1>11, <1>12, Progress

\* What StepsRunOut says of one step.
LEMMA StepsRunOutStep ==
    ASSUME TypeOK, FinitelyMany, [Next]_vars, NEW r \in Requests
    PROVE  /\ Step(r) => StepsLeft(r)' < StepsLeft(r)
           /\ pc[r] # "idle" => StepsLeft(r)' <= StepsLeft(r)
<1>1. Step(r) => StepsLeft(r)' < StepsLeft(r)
  BY OwnStep
<1>2. StepsLeft(r) \in Nat
  BY LeftNowAndThen, LeftIsNumber DEF TypeOK, FinitelyMany
<1>3. StepsLeft(r)' \in Nat
  <2>1. TypeOK'
    BY TypeStep
  <2>2. FinitelyMany'
    BY FinitelyManyStep
  <2> QED
    BY <2>1, <2>2, LeftNowAndThen, LeftIsNumber DEF TypeOK, FinitelyMany
<1>4. ASSUME pc'[r] = pc[r], attempt'[r] = attempt[r], pending'[r] = pending[r],
             victims'[r] = victims[r]
      PROVE  StepsLeft(r)' = StepsLeft(r)
  BY <1>4, LeftNowAndThen
<1>5. ASSUME NEW q \in Requests, q # r, Acts(q)
      PROVE  StepsLeft(r)' = StepsLeft(r)
  BY <1>4, <1>5, OthersStay
<1>6. OtherCommit \/ UNCHANGED vars => StepsLeft(r)' = StepsLeft(r)
  BY <1>4 DEF OtherCommit, vars, deletion
<1>7. CASE Abort(r)
  <2>1. pc'[r] = "aborted"
    BY <1>7 DEF Abort, TypeOK
  <2>2. StepsLeft(r)' = 0
    BY <2>1, LeftNowAndThen, LeftAt
  <2> QED
    BY <1>1, <1>2, <2>2
<1>8. Reject(r) \/ Arrive(r) \/ BeginDelete(r) \/ BeginS3Delete(r) => pc[r] = "idle"
  BY DEF Reject, Arrive, BeginDelete, BeginS3Delete
<1>9. pc[r] # "idle" => StepsLeft(r)' <= StepsLeft(r)
  BY <1>1, <1>2, <1>3, <1>5, <1>6, <1>7, <1>8, Actors DEF Acts
<1> QED
  BY <1>1, <1>9

\* Why every request ends, for any number of requests, keys, stores and attempts:
\* each step of a request uses up one of its finitely many, and no step of
\* anybody else, no commit that makes its snapshot stale and no file inserted
\* after its listing, ever gives it more.
THEOREM RequestsRunOut == Spec => StepsRunOut
<1>1. Init => FinitelyMany
  <2>1. Init => Present = {} /\ \A r \in Requests : victims[r] = {}
    BY DEF Init, Present
  <2> QED
    BY <2>1, FS_EmptySet DEF FinitelyMany
<1>2. TypeOK /\ FinitelyMany /\ [Next]_vars => FinitelyMany'
  BY FinitelyManyStep
<1>3. TypeOK /\ FinitelyMany /\ [Next]_vars =>
         [\A r \in Requests :
             /\ Step(r) => StepsLeft(r)' < StepsLeft(r)
             /\ pc[r] # "idle" => StepsLeft(r)' <= StepsLeft(r)]_vars
  BY StepsRunOutStep
<1> QED
  BY <1>1, <1>2, <1>3, TypeCorrect, PTL DEF Spec, StepsRunOut
------------------------------------------------------------------------------
(***************************************************************************)
(* What was answered to an undisturbed upload is true.                     *)
(***************************************************************************)
\* What the control points of a request say about it.
Erasing == {"deleteTx", "deleteLocked", "s3delTx"}
ControlInv ==
    \A q \in Requests :
        /\ pc[q] \in Erasing => q \notin Uploads
        /\ q.kind # "batch" =>
               \A i \in cur[q] \cup victims[q] \cup doomed[q] : Key(i) = q.key
        /\ Replicate => store[q] = Primary
        /\ pc[q] = "fanout" /\ pending[q] # {} => Replicate
        /\ copied[q] # {} => pc[q] \in {"fanout", "done", "aborted"}

\* A k.tmp is written by attempts at k only.
TempKeys == \A s \in Stores, k \in Keys : \A i \in temp[s][k] : Key(i) = k

\* How far an undisturbed upload has come: its rows are there from phase 1 on,
\* its bytes alone in every object it has written, and its locations recorded
\* with the commit of phase 3.
Placed(r, s) == objects[s][r.key] = {Id(r)}
Sound(r) ==
    /\ pc[r] \in {"transfer", "writing", "stored", "finalizeTx", "fanout"} =>
           files[Id(r)] = "uploading"
    /\ pc[r] = "writing" => temp[store[r]][r.key] = {Id(r)}
    /\ pc[r] \in {"stored", "finalizeTx", "fanout", "done"} => Placed(r, store[r])
    /\ pc[r] \in {"fanout", "done"} => \A s \in copied[r] : Placed(r, s)
    /\ pc[r] = "done" =>
           /\ files[Id(r)] = "ready"
           /\ store[r] \in LocationStores(Id(r))
           /\ LocationStores(Id(r)) \subseteq {store[r]} \cup copied[r]
LoneInv == \A r \in Uploads : Alone(r) => Sound(r)

\* The control points keep saying it.
LEMMA ControlStep ==
    ASSUME TypeOK, ControlInv, [Next]_vars
    PROVE  ControlInv'
<1> USE DEF ControlInv, TypeOK, Uploads, Erasing, deletion
<1>1. ASSUME NEW r \in Requests, UNCHANGED <<deletion, store, pending, copied>>,
             \A q \in Requests \ {r} : pc'[q] = pc[q],
             pc'[r] \notin Erasing \cup {"fanout"},
             copied[r] # {} => pc'[r] \in {"done", "aborted"}
      PROVE  ControlInv'
  <2> SUFFICES ASSUME NEW q \in Requests
               PROVE  /\ pc'[q] \in Erasing => q \notin Uploads
                      /\ pc'[q] = "fanout" /\ pending[q] # {} => Replicate
                      /\ copied[q] # {} => pc'[q] \in {"fanout", "done", "aborted"}
    BY <1>1
  <2> QED
    BY <1>1
<1>2. ASSUME NEW r \in Requests,
             \/ Reject(r) \/ Arrive(r) \/ UploadSetup(r) \/ PutPrepare(r) \/ PutSetup(r)
             \/ UploadRemote(r) \/ UploadLocalOpen(r) \/ UploadLocalRename(r)
             \/ BeginFinalize(r) \/ FinalizeCommit(r) \/ DeleteCommit(r)
             \/ S3DeleteNothing(r) \/ S3DeleteRows(r)
      PROVE  ControlInv'
  <2>1. /\ \A q \in Requests \ {r} : pc'[q] = pc[q]
        /\ pc'[r] \notin Erasing \cup {"fanout"}
        /\ pc[r] \in {"fanout", "done", "aborted"} => pc'[r] \in {"done", "aborted"}
        /\ UNCHANGED <<deletion, store, pending, copied>>
    BY <1>2 DEF Reject, Arrive, UploadSetup, PutPrepare, PutSetup, UploadRemote,
       UploadLocalOpen, UploadLocalRename, BeginFinalize, FinalizeCommit,
       DeleteCommit, S3DeleteNothing, S3DeleteRows
  <2> QED
    BY <1>1, <2>1
<1>2a. ASSUME NEW r \in Requests,
             \/ SetupFails(r) \/ UploadFails(r) \/ FinalizeConflict(r)
             \/ UploadRetry(r) \/ UploadGivesUp(r) \/ DeleteLocked(r) \/ Abort(r)
      PROVE  ControlInv'
  <2>1. /\ \A q \in Requests \ {r} : pc'[q] = pc[q]
        /\ pc'[r] \notin Erasing \cup {"fanout"}
        /\ pc[r] \in {"fanout", "done", "aborted"} => pc'[r] \in {"done", "aborted"}
        /\ UNCHANGED <<deletion, store, pending, copied>>
    BY <1>2a DEF SetupFails, UploadFails, FinalizeConflict, UploadRetry,
       UploadGivesUp, DeleteLocked, Abort, Fail
  <2> QED
    BY <1>1, <2>1
<1>3. ASSUME NEW r \in Requests, BeginSetup(r)
      PROVE  ControlInv'
  BY <1>3 DEF BeginSetup
<1>4. ASSUME NEW r \in Requests, Finalize(r)
      PROVE  ControlInv'
  BY <1>4 DEF Finalize
<1>5. ASSUME NEW r \in Requests, SyncFileToStore(r)
      PROVE  ControlInv'
  BY <1>5 DEF SyncFileToStore, Replicated
<1>6. ASSUME NEW r \in Requests, BeginDelete(r)
      PROVE  ControlInv'
  BY <1>6 DEF BeginDelete
<1>7. ASSUME NEW r \in Requests, BeginS3Delete(r)
      PROVE  ControlInv'
  BY <1>7 DEF BeginS3Delete, ReadyAt
<1>8. ASSUME NEW r \in Requests, DeleteObject(r)
      PROVE  ControlInv'
  <2>1. /\ pc[r] = "deleteTx" /\ UNCHANGED <<deletion, pc, store, copied>>
        /\ \A q \in Requests \ {r} : pending'[q] = pending[q]
    BY <1>8 DEF DeleteObject
  <2> QED
    BY <2>1
<1>8a. ASSUME NEW r \in Requests, DeleteLastRows(r)
       PROVE  ControlInv'
  <2>1. /\ doomed' = [doomed EXCEPT ![r] = @ \cup cur[r]]
        /\ pc' = [pc EXCEPT ![r] = "deleteLocked"]
        /\ pc[r] = "deleteTx" /\ UNCHANGED <<cur, victims, pending, store, copied>>
    BY <1>8a DEF DeleteLastRows
  <2>2. \A q \in Requests :
           cur'[q] \cup victims'[q] \cup doomed'[q] \subseteq cur[q] \cup victims[q] \cup doomed[q]
    BY <2>1
  <2> QED
    BY <2>1, <2>2
<1>9. ASSUME NEW r \in Requests, DeleteRows(r)
      PROVE  ControlInv'
  <2>1. PICK i \in victims[r] :
           /\ cur' = [cur EXCEPT ![r] = {i}]
           /\ victims' = [victims EXCEPT ![r] = @ \ {i}]
           /\ pending' = [pending EXCEPT ![r] = LocationStores(i)]
    BY <1>9 DEF DeleteRows
  <2>2. /\ doomed' = [doomed EXCEPT ![r] = @ \cup cur[r]]
        /\ pc[r] = "deleteTx" /\ UNCHANGED <<pc, store, copied>>
    BY <1>9 DEF DeleteRows
  <2>3. \A q \in Requests :
           cur'[q] \cup victims'[q] \cup doomed'[q] \subseteq cur[q] \cup victims[q] \cup doomed[q]
    BY <2>1, <2>2
  <2>4. \A q \in Requests : pc[q] = "fanout" => pending'[q] = pending[q]
    BY <2>1, <2>2
  <2> QED
    BY <2>2, <2>3, <2>4
<1>10. OtherCommit \/ UNCHANGED vars => ControlInv'
  BY DEF OtherCommit, vars
<1> QED
  BY <1>1, <1>2, <1>2a, <1>3, <1>4, <1>5, <1>6, <1>7, <1>8, <1>8a, <1>9, <1>10
     DEF Next, Step

\* Nobody writes a k.tmp for another key.
LEMMA TempStep ==
    ASSUME TypeOK, TempKeys, [Next]_vars
    PROVE  TempKeys'
<1>1. ASSUME NEW r \in Requests,
             temp' = [temp EXCEPT ![store[r]][r.key] = {}] \/ UNCHANGED temp
      PROVE  TempKeys'
  <2>1. \A s \in Stores, k \in Keys : temp'[s][k] = temp[s][k] \/ temp'[s][k] = {}
    <3>1. store[r] \in Stores /\ r.key \in Keys
      BY RequestsAssumption DEF TypeOK
    <3>2. temp \in [Stores -> [Keys -> SUBSET Attempts]]
      BY DEF TypeOK
    <3> QED
      BY <1>1, <3>1, <3>2
  <2> QED
    BY <2>1 DEF TempKeys
<1>2. ASSUME NEW r \in Requests, UploadLocalOpen(r)
      PROVE  TempKeys'
  BY <1>2, IdType DEF UploadLocalOpen, TempKeys, TypeOK
<1>3. ASSUME NEW r \in Requests, UploadLocalRename(r) \/ UploadFails(r)
      PROVE  TempKeys'
  BY <1>1, <1>3 DEF UploadLocalRename, UploadFails
<1>4. ASSUME NEW r \in Requests, Acts(r), ~UploadLocalOpen(r), ~UploadLocalRename(r),
             ~UploadFails(r)
      PROVE  UNCHANGED temp
  BY <1>4 DEF Acts, Step, Reject, Arrive, BeginDelete, BeginS3Delete, BeginSetup,
     SetupFails, UploadSetup, PutPrepare, PutSetup, UploadRemote, BeginFinalize,
     Finalize, FinalizeConflict, SyncFileToStore, FinalizeCommit, UploadRetry,
     UploadGivesUp, DeleteObject, DeleteRows, DeleteLastRows, DeleteCommit,
     S3DeleteNothing, S3DeleteRows, DeleteLocked, Abort, disk
<1>5. OtherCommit \/ UNCHANGED vars => UNCHANGED temp
  BY DEF OtherCommit, vars, disk
<1>6. UNCHANGED temp => TempKeys'
  BY DEF TempKeys
<1> QED
  BY <1>2, <1>3, <1>4, <1>5, <1>6, Actors

\* A request that is no batch leaves the rows of other keys alone.
LEMMA RowsOfOtherKeys ==
    ASSUME TypeOK, ControlInv, NEW q \in Requests, q.kind # "batch", Acts(q),
           NEW i \in Attempts, Key(i) # q.key
    PROVE  files'[i] = files[i] /\ LocationStores(i)' = LocationStores(i)
<1>1. Id(q) \in Attempts /\ Id(q) # i
  BY IdType DEF TypeOK
<1>2. UNCHANGED <<files, locs>> =>
         files'[i] = files[i] /\ LocationStores(i)' = LocationStores(i)
  BY DEF LocationStores
<1>3. CASE UploadSetup(q) \/ PutSetup(q)
  <2>1. CreatePendingFileUpload(q)
    BY <1>3 DEF UploadSetup, PutSetup
  <2>2. i \notin BlobsAt(q.key)
    BY DEF BlobsAt
  <2>3. files'[i] = files[i]
    BY <1>1, <2>1, <2>2 DEF CreatePendingFileUpload, FilesWithout
  <2>4. locs' = LocsWithout(BlobsAt(q.key))
    BY <2>1 DEF CreatePendingFileUpload
  <2> QED
    BY <2>2, <2>3, <2>4 DEF LocationStores, LocsWithout
<1>4. ASSUME NEW D \in SUBSET Attempts, DeleteFileEverywhere(D), i \notin D
      PROVE  files'[i] = files[i] /\ LocationStores(i)' = LocationStores(i)
  BY <1>4 DEF DeleteFileEverywhere, FilesWithout, LocsWithout, LocationStores
<1>5. CASE DeleteCommit(q) \/ S3DeleteRows(q)
  <2>1. i \notin cur[q] /\ i \notin doomed[q]
    BY DEF ControlInv
  <2>2. cur[q] \in SUBSET Attempts /\ doomed[q] \in SUBSET Attempts
    BY DEF TypeOK
  <2>3. DeleteFileEverywhere(doomed[q]) \/ DeleteFileEverywhere(cur[q])
    BY <1>5 DEF DeleteCommit, S3DeleteRows
  <2> QED
    BY <1>4, <2>1, <2>2, <2>3
<1>6. CASE FinalizeCommit(q)
  <2>1. files' = [files EXCEPT ![Id(q)] = Ready(@)]
    BY <1>6 DEF FinalizeCommit, MarkFileUploadReady
  <2>2. locs' = locs \cup {[blob |-> Id(q), store |-> s] : s \in {store[q]} \cup copied[q]}
    BY <1>6 DEF FinalizeCommit, MarkFileUploadReady
  <2>3. files'[i] = files[i]
    BY <1>1, <2>1 DEF TypeOK
  <2>4. \A s \in Stores : [blob |-> i, store |-> s] \in locs' <=> [blob |-> i, store |-> s] \in locs
    <3> SUFFICES ASSUME NEW s \in Stores, NEW t,
                        [blob |-> i, store |-> s] = [blob |-> Id(q), store |-> t]
                 PROVE  FALSE
      BY <2>2
    <3> QED
      BY <1>1
  <2> QED
    BY <2>3, <2>4 DEF LocationStores
<1>7. ASSUME ~UploadSetup(q), ~PutSetup(q), ~DeleteCommit(q), ~S3DeleteRows(q),
             ~FinalizeCommit(q)
      PROVE  UNCHANGED <<files, locs>>
  BY <1>7 DEF Acts, Step, Reject, Arrive, BeginDelete, BeginS3Delete, BeginSetup,
     SetupFails, PutPrepare, UploadRemote, UploadLocalOpen, UploadLocalRename,
     UploadFails, BeginFinalize, Finalize, FinalizeConflict, SyncFileToStore,
     UploadRetry, UploadGivesUp, DeleteObject, DeleteRows, DeleteLastRows,
     S3DeleteNothing, DeleteLocked, Abort, rows
<1> QED
  BY <1>2, <1>3, <1>5, <1>6, <1>7

\* Nor does it touch their objects, or their k.tmp.
LEMMA DiskOfOtherKeys ==
    ASSUME TypeOK, ControlInv, NEW q \in Requests, q.kind # "batch", Acts(q),
           NEW s \in Stores, NEW k \in Keys, k # q.key
    PROVE  objects'[s][k] = objects[s][k] /\ temp'[s][k] = temp[s][k]
<1> USE DEF TypeOK
<1>1. q.key \in Keys
  BY RequestsAssumption
<1>2. ASSUME NEW t \in Stores, NEW V, objects' = [objects EXCEPT ![t][q.key] = V]
      PROVE  objects'[s][k] = objects[s][k]
  BY <1>1, <1>2
<1>3. ASSUME NEW t \in Stores, NEW V, temp' = [temp EXCEPT ![t][q.key] = V]
      PROVE  temp'[s][k] = temp[s][k]
  BY <1>1, <1>3
<1>4. store[q] \in Stores
  OBVIOUS
<1>5. objects'[s][k] = objects[s][k]
  <2>1. CASE PutPrepare(q)
    BY <1>2, <1>4, <2>1 DEF PutPrepare, Delete
  <2>2. CASE UploadRemote(q)
    BY <1>2, <1>4, <2>2 DEF UploadRemote
  <2>3. CASE UploadLocalRename(q)
    BY <1>2, <1>4, <2>3 DEF UploadLocalRename
  <2>4. CASE SyncFileToStore(q)
    BY <1>2, <2>4 DEF SyncFileToStore, Replicated
  <2>5. CASE DeleteObject(q)
    <3>1. PICK t \in pending[q], i \in cur[q] : Delete(q, t, Key(i))
      BY <2>5 DEF DeleteObject
    <3>2. Key(i) = q.key /\ t \in Stores
      BY DEF ControlInv
    <3> QED
      BY <1>2, <3>1, <3>2 DEF Delete
  <2>6. ASSUME ~PutPrepare(q), ~UploadRemote(q), ~UploadLocalRename(q),
               ~SyncFileToStore(q), ~DeleteObject(q)
        PROVE  UNCHANGED objects
    BY <2>6 DEF Acts, Step, Reject, Arrive, BeginDelete, BeginS3Delete, BeginSetup,
       SetupFails, UploadSetup, PutSetup, UploadLocalOpen, UploadFails, BeginFinalize,
       Finalize, FinalizeConflict, FinalizeCommit, UploadRetry, UploadGivesUp,
       DeleteRows, DeleteLastRows, DeleteCommit, S3DeleteNothing, S3DeleteRows,
       DeleteLocked, Abort, disk
  <2> QED
    BY <2>1, <2>2, <2>3, <2>4, <2>5, <2>6
<1>6. temp'[s][k] = temp[s][k]
  <2>1. CASE UploadLocalOpen(q)
    <3>1. temp' = [temp EXCEPT ![store[q]][q.key] =
                      {i \in temp[store[q]][q.key] : pc[i[1]] = "writing"} \cup {Id(q)}]
      BY <2>1 DEF UploadLocalOpen
    <3> QED
      BY <1>3, <1>4, <3>1
  <2>2. CASE UploadLocalRename(q)
    BY <1>3, <1>4, <2>2 DEF UploadLocalRename
  <2>3. CASE UploadFails(q)
    BY <1>3, <1>4, <2>3 DEF UploadFails
  <2>4. ASSUME ~UploadLocalOpen(q), ~UploadLocalRename(q), ~UploadFails(q)
        PROVE  UNCHANGED temp
    BY <2>4 DEF Acts, Step, Reject, Arrive, BeginDelete, BeginS3Delete, BeginSetup,
       SetupFails, UploadSetup, PutPrepare, PutSetup, UploadRemote, BeginFinalize,
       Finalize, FinalizeConflict, SyncFileToStore, FinalizeCommit, UploadRetry,
       UploadGivesUp, DeleteObject, DeleteRows, DeleteLastRows, DeleteCommit,
       S3DeleteNothing, S3DeleteRows, DeleteLocked, Abort, disk
  <2> QED
    BY <2>1, <2>2, <2>3, <2>4
<1> QED
  BY <1>5, <1>6

\* The undisturbed upload gets one step further, or ends with an error.
LEMMA LoneOwnStep ==
    ASSUME TypeOK, RecordInv, ControlInv, TempKeys,
           NEW r \in Uploads, Alone(r), Sound(r), Acts(r)
    PROVE  Sound(r)'
<1> USE DEF TypeOK, Sound, Placed
<1>1. r \in Requests /\ Id(r) \in Attempts /\ Key(Id(r)) = r.key /\ r.key \in Keys
      /\ store[r] \in Stores
  BY IdType DEF Uploads
<1>2. attempt'[r] = attempt[r] => Id(r)' = Id(r)
  BY DEF Id
<1>3. CASE pc'[r] \notin {"transfer", "writing", "stored", "finalizeTx", "fanout", "done"}
  BY <1>3
<1>4. CASE UploadSetup(r) \/ PutSetup(r)
  <2>1. CreatePendingFileUpload(r) /\ UNCHANGED attempt /\ pc' = [pc EXCEPT ![r] = "transfer"]
    BY <1>4 DEF UploadSetup, PutSetup
  <2>2. files'[Id(r)] = "uploading" /\ pc'[r] = "transfer" /\ Id(r)' = Id(r)
    BY <1>1, <1>2, <2>1 DEF CreatePendingFileUpload, FilesWithout
  <2> QED
    BY <2>2
<1>5. CASE UploadRemote(r)
  <2>1. /\ pc[r] = "transfer" /\ pc'[r] = "stored" /\ store'[r] = store[r]
        /\ Id(r)' = Id(r) /\ files' = files
        /\ objects'[store[r]][r.key] = {Id(r)}
    BY <1>1, <1>2, <1>5 DEF UploadRemote, rows
  <2> QED
    BY <2>1
<1>6. CASE UploadLocalOpen(r)
  <2>1. {i \in temp[store[r]][r.key] : pc[i[1]] = "writing"} = {}
    <3> SUFFICES ASSUME NEW i \in temp[store[r]][r.key], pc[i[1]] = "writing"
                 PROVE  FALSE
      OBVIOUS
    <3>1. i \in Attempts /\ i[1] \in Requests /\ i[1].key = r.key
      BY <1>1, KeyType DEF TempKeys, Key
    <3>2. i[1] # r
      BY <1>6 DEF UploadLocalOpen
    <3> QED
      BY <3>1, <3>2 DEF Alone
  <2>2. temp' = [temp EXCEPT ![store[r]][r.key] =
                    {i \in @ : pc[i[1]] = "writing"} \cup {Id(r)}]
    BY <1>6 DEF UploadLocalOpen
  <2>3. temp'[store[r]][r.key] = {Id(r)}
    BY <1>1, <2>1, <2>2
  <2>4. /\ pc[r] = "transfer" /\ pc'[r] = "writing" /\ store'[r] = store[r]
        /\ Id(r)' = Id(r) /\ files' = files
    BY <1>1, <1>2, <1>6 DEF UploadLocalOpen, rows
  <2> QED
    BY <2>3, <2>4
<1>7. CASE UploadLocalRename(r)
  <2>1. /\ pc[r] = "writing" /\ pc'[r] = "stored" /\ store'[r] = store[r]
        /\ Id(r)' = Id(r) /\ files' = files
        /\ objects'[store[r]][r.key] = temp[store[r]][r.key]
    BY <1>1, <1>2, <1>7 DEF UploadLocalRename, rows
  <2> QED
    BY <2>1
<1>8. CASE BeginFinalize(r)
  <2>1. /\ pc[r] = "stored" /\ pc'[r] = "finalizeTx" /\ store' = store
        /\ Id(r)' = Id(r) /\ files' = files /\ objects' = objects
    BY <1>1, <1>2, <1>8 DEF BeginFinalize, rows, disk
  <2> QED
    BY <2>1
<1>9. CASE Finalize(r)
  <2>1. /\ pc[r] = "finalizeTx" /\ pc'[r] = "fanout" /\ store' = store
        /\ Id(r)' = Id(r) /\ files' = files /\ objects' = objects /\ copied' = copied
    BY <1>1, <1>2, <1>9 DEF Finalize, rows, disk
  <2>2. copied[r] = {}
    BY <1>1, <2>1 DEF ControlInv
  <2> QED
    BY <2>1, <2>2
<1>10. CASE SyncFileToStore(r)
  <2>1. PICK s \in pending[r] : Replicated(r, s) \/ UNCHANGED <<objects, copied>>
    BY <1>10 DEF SyncFileToStore
  <2>2. /\ pc[r] = "fanout" /\ pc' = pc /\ store' = store
        /\ Id(r)' = Id(r) /\ files' = files
    BY <1>1, <1>2, <1>10 DEF SyncFileToStore, rows
  <2>3. CASE UNCHANGED <<objects, copied>>
    BY <2>2, <2>3
  <2>4. CASE Replicated(r, s)
    <3>1. store[r] = Primary
      BY <1>1, <2>1, <2>2 DEF ControlInv
    <3>2. s \in Stores /\ objects[Primary][r.key] = {Id(r)}
      BY <1>1, <2>2, <3>1
    <3>3. objects' = [objects EXCEPT ![s][r.key] = {Id(r)}]
      BY <2>4, <3>2 DEF Replicated
    <3>4. copied'[r] \subseteq copied[r] \cup {s} /\ copied'[r] \subseteq Stores
      BY <1>1, <2>4, <3>2 DEF Replicated
    <3>5. objects'[s][r.key] = {Id(r)}
      BY <1>1, <3>2, <3>3
    <3>6. \A t \in Stores : t # s => objects'[t][r.key] = objects[t][r.key]
      BY <1>1, <3>2, <3>3
    <3>7. \A t \in copied'[r] : objects'[t][r.key] = {Id(r)}
      BY <2>2, <3>4, <3>5, <3>6
    <3>8. objects'[store[r]][r.key] = {Id(r)}
      BY <1>1, <2>2, <3>5, <3>6
    <3> QED
      BY <2>2, <3>7, <3>8
  <2> QED
    BY <2>1, <2>3, <2>4
<1>11. CASE FinalizeCommit(r)
  <2>1. /\ pc[r] = "fanout" /\ pc'[r] = "done" /\ store' = store /\ copied' = copied
        /\ Id(r)' = Id(r) /\ objects' = objects
    BY <1>1, <1>2, <1>11 DEF FinalizeCommit, disk
  <2>2. /\ files' = [files EXCEPT ![Id(r)] = Ready(@)]
        /\ locs' = locs \cup {[blob |-> Id(r), store |-> s] : s \in {store[r]} \cup copied[r]}
    BY <1>11 DEF FinalizeCommit, MarkFileUploadReady
  <2>3. files'[Id(r)] = "ready"
    BY <1>1, <2>1, <2>2 DEF Ready
  <2>4. \A s \in Stores : [blob |-> Id(r), store |-> s] \notin locs
    BY <2>1 DEF RecordInv, LocationsOfAnswered, Id
  <2>5. \A s \in Stores : [blob |-> Id(r), store |-> s] \in locs' <=> s \in {store[r]} \cup copied[r]
    <3> DEFINE loc(s) == [blob |-> Id(r), store |-> s]
    <3>1. \A s, t \in Stores : loc(s) = loc(t) => s = t
      OBVIOUS
    <3>2. {store[r]} \cup copied[r] \subseteq Stores
      BY r \in Requests DEF TypeOK, Uploads
    <3>3. locs' = locs \cup {loc(s) : s \in {store[r]} \cup copied[r]}
      BY <2>2
    <3>4. \A s \in Stores : loc(s) \notin locs
      BY <2>4
    <3>5. \A s \in Stores : loc(s) \in locs' <=> s \in {store[r]} \cup copied[r]
      <4> HIDE DEF loc
      <4> QED
        BY <3>1, <3>2, <3>3, <3>4
    <3> QED
      BY <3>5
  <2>6. LocationStores(Id(r))' = {s \in Stores : [blob |-> Id(r), store |-> s] \in locs'}
    BY <2>1 DEF LocationStores
  <2>7. /\ store[r] \in LocationStores(Id(r))'
        /\ LocationStores(Id(r))' \subseteq {store[r]} \cup copied[r]
    BY <1>1, <2>5, <2>6
  <2> QED
    BY <2>1, <2>3, <2>7
<1>12. ASSUME \/ Reject(r) \/ Arrive(r) \/ BeginSetup(r) \/ SetupFails(r)
              \/ PutPrepare(r) \/ UploadFails(r) \/ FinalizeConflict(r)
              \/ UploadRetry(r) \/ UploadGivesUp(r) \/ Abort(r)
       PROVE  pc'[r] \notin {"transfer", "writing", "stored", "finalizeTx", "fanout", "done"}
  BY <1>1, <1>12 DEF Reject, Arrive, BeginSetup, SetupFails, PutPrepare, UploadFails,
     FinalizeConflict, UploadRetry, UploadGivesUp, Abort, Fail
<1>13. ~BeginDelete(r) /\ ~BeginS3Delete(r)
  BY DEF BeginDelete, BeginS3Delete, Uploads
<1>14. /\ ~DeleteObject(r) /\ ~DeleteRows(r) /\ ~DeleteLastRows(r) /\ ~DeleteCommit(r)
       /\ ~S3DeleteNothing(r) /\ ~S3DeleteRows(r) /\ ~DeleteLocked(r)
  BY <1>1 DEF ControlInv, Erasing, DeleteObject, DeleteRows, DeleteLastRows,
     DeleteCommit, S3DeleteNothing, S3DeleteRows, DeleteLocked
<1> QED
  BY <1>3, <1>4, <1>5, <1>6, <1>7, <1>8, <1>9, <1>10, <1>11, <1>12, <1>13, <1>14
     DEF Acts, Step

\* A request that has acted is not one that has yet to arrive.
LEMMA ActedUpon ==
    ASSUME TypeOK, NEW q \in Requests, Acts(q)
    PROVE  pc'[q] # "idle"
<1> USE DEF TypeOK, Ended
<1>1. CASE Reject(q) \/ Arrive(q) \/ BeginDelete(q) \/ BeginS3Delete(q) \/ Abort(q)
  BY <1>1 DEF Reject, Arrive, BeginDelete, BeginS3Delete, Abort
<1>2. CASE Step(q)
  BY <1>2, Progress
<1> QED
  BY <1>1, <1>2 DEF Acts

\* Whoever acts beside an undisturbed upload works on other keys.
LEMMA LoneOtherStep ==
    ASSUME TypeOK, ControlInv, NEW r \in Uploads, Alone(r)', Sound(r),
           NEW q \in Requests \ {r}, Acts(q)
    PROVE  Sound(r)'
<1>1. q.kind # "batch" /\ q.key # r.key
  <2>1. pc'[q] # "idle"
    BY ActedUpon
  <2> QED
    BY <2>1 DEF Alone
<1>2. r \in Requests /\ Id(r) \in Attempts /\ Key(Id(r)) = r.key /\ r.key \in Keys
  BY IdType DEF Uploads, TypeOK
<1>3. /\ pc'[r] = pc[r] /\ attempt'[r] = attempt[r] /\ store'[r] = store[r]
      /\ copied'[r] = copied[r] /\ store[r] \in Stores /\ copied[r] \subseteq Stores
  BY <1>2, OthersStay DEF TypeOK
<1>4. Id(r)' = Id(r)
  BY <1>3 DEF Id
<1>5. files'[Id(r)] = files[Id(r)] /\ LocationStores(Id(r))' = LocationStores(Id(r))
  BY <1>1, <1>2, <1>4, RowsOfOtherKeys
<1>6. \A s \in Stores : /\ objects'[s][r.key] = objects[s][r.key]
                        /\ temp'[s][r.key] = temp[s][r.key]
  BY <1>1, <1>2, DiskOfOtherKeys
<1> QED
  BY <1>3, <1>4, <1>5, <1>6 DEF Sound, Placed

\* What has been sound stays so as long as nobody disturbs the upload.
LEMMA LoneStep ==
    ASSUME TypeOK, RecordInv, ControlInv, TempKeys, LoneInv, [Next]_vars
    PROVE  LoneInv'
<1> SUFFICES ASSUME NEW r \in Uploads, Alone(r)'
             PROVE  Sound(r)'
  BY DEF LoneInv
<1>1. \A q \in Requests : pc'[q] = "idle" => pc[q] = "idle"
  <2>1. ASSUME NEW p \in Requests, Acts(p), NEW q \in Requests, pc'[q] = "idle"
        PROVE  pc[q] = "idle"
    BY <2>1, ActedUpon, OthersStay
  <2>2. OtherCommit \/ UNCHANGED vars => UNCHANGED pc
    BY DEF OtherCommit, vars
  <2> QED
    BY <2>1, <2>2, Actors
<1>2. Alone(r) /\ Sound(r)
  BY <1>1 DEF LoneInv, Alone
<1>3. ASSUME NEW q \in Requests, Acts(q)
      PROVE  Sound(r)'
  BY <1>2, <1>3, LoneOwnStep, LoneOtherStep
<1>4. CASE OtherCommit \/ UNCHANGED vars
  <2>1. UNCHANGED <<files, locs, objects, temp, pc, attempt, store, copied>>
    BY <1>4 DEF OtherCommit, vars, rows, disk
  <2> QED
    BY <1>2, <2>1 DEF Sound, Placed, Id, LocationStores
<1> QED
  BY <1>3, <1>4, Actors

\* A success answered to an upload that nobody disturbed is the truth, whatever
\* its own earlier attempts left behind and however the requests for other keys
\* interleave with it: its file is listed, and every object it is recorded in
\* holds its bytes alone.
THEOREM LoneUploadsStand == Spec => []LoneUploadStands
<1>1. Init => ControlInv /\ TempKeys /\ LoneInv
  BY DEF Init, ControlInv, Erasing, TempKeys, LoneInv, Sound, Uploads
<1>2. TypeOK /\ RecordInv /\ ControlInv /\ TempKeys /\ LoneInv /\ [Next]_vars
         => ControlInv' /\ TempKeys' /\ LoneInv'
  BY ControlStep, TempStep, LoneStep
<1>3. TypeOK /\ LoneInv => LoneUploadStands
  <2> SUFFICES ASSUME TypeOK, LoneInv, NEW r \in Uploads, pc[r] = "done", Alone(r)
               PROVE  /\ files[Id(r)] = "ready"
                      /\ store[r] \in LocationStores(Id(r))
                      /\ \A s \in LocationStores(Id(r)) : objects[s][r.key] = {Id(r)}
    BY DEF LoneUploadStands
  <2> QED
    BY DEF LoneInv, Sound, Placed
<1> QED
  BY <1>1, <1>2, <1>3, TypeCorrect, RecordsCorrect, PTL DEF Spec
==============================================================================
