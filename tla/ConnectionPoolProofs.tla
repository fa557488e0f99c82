------------------------- MODULE ConnectionPoolProofs -------------------------
(* Theorems about ConnectionPool, for every pool size and set of requests. *)
EXTENDS ConnectionPool, FiniteSetTheorems, TLAPS

\* What makes the type invariant and the absence of deadlock inductive: a
\* connection is held only where its request works with it, and a query or a
\* short transaction is running only while its counter has room.
PoolInv ==
    /\ \A c \in used : pc[c[1]] \in {"inTx", "quotaTx", "querying", "shortTx"}
    /\ \A c \in used : c[2] = "query" => pc[c[1]] = "querying"
    /\ \A r \in Requests : pc[r] = "querying" => queries[r] < 2
    /\ \A r \in Requests : pc[r] = "shortTx" => short[r] < MaxShortTx
    /\ \A r \in Requests :
          pc[r] \in {"released", "quotaTx", "querying"} => r.kind \in {"upload", "empty"}

Connections == Requests \X {"tx", "query"}

LEMMA UsedFinite == ASSUME used \subseteq Connections PROVE IsFiniteSet(used)
<1>1. {"tx", "query"} = {"tx"} \cup {"query"}
  OBVIOUS
<1>2. IsFiniteSet({"tx", "query"})
  <2>1. IsFiniteSet({"tx"})
    BY FS_Singleton
  <2>2. IsFiniteSet({"tx"} \cup {"query"})
    BY <2>1, FS_AddElement
  <2>3. QED
    BY <1>1, <2>2
<1>3. IsFiniteSet(Connections)
  BY <1>2, RequestsAssumption, FS_Product DEF Connections
<1>4. QED
  BY <1>3, FS_Subset

\* Taking a connection respects SetMaxOpenConns.
LEMMA Acquired ==
    ASSUME TypeOK, NEW r \in Requests, NEW what \in {"tx", "query"}, Acquire(r, what)
    PROVE  used' \subseteq Connections /\ Cardinality(used') <= PoolSize
<1>1. used \subseteq Connections
  BY DEF TypeOK, Connections
<1>2. used' \subseteq Connections
  BY <1>1 DEF Acquire, Connections
<1>3. IsFiniteSet(used) /\ Cardinality(used) \in Nat
  BY <1>1, UsedFinite, FS_CardinalityType
<1>4. Cardinality(used \cup {<<r, what>>}) \in {Cardinality(used), Cardinality(used) + 1}
  BY <1>3, FS_AddElement
<1>5. QED
  BY <1>2, <1>3, <1>4, PoolAssumption DEF Acquire

\* So does giving some back.
LEMMA Released ==
    ASSUME TypeOK, used' \subseteq used
    PROVE  used' \subseteq Connections /\ Cardinality(used') <= PoolSize
<1>1. used \subseteq Connections /\ Cardinality(used) <= PoolSize
  BY DEF TypeOK, Connections
<1>2. IsFiniteSet(used)
  BY <1>1, UsedFinite
<1>3. IsFiniteSet(used') /\ Cardinality(used') <= Cardinality(used)
  BY <1>2, FS_Subset
<1>4. Cardinality(used) \in Nat /\ Cardinality(used') \in Nat
  BY <1>2, <1>3, FS_CardinalityType
<1>5. QED
  BY <1>1, <1>3, <1>4, PoolAssumption

LEMMA UsedStep ==
    ASSUME TypeOK, [Next]_vars
    PROVE  used' \subseteq Connections /\ Cardinality(used') <= PoolSize
<1>1. ASSUME NEW r \in Requests,
             BeginRequest(r) \/ BeginQuota(r) \/ QueryPool(r) \/ BeginShortTx(r)
      PROVE  Acquire(r, "tx") \/ Acquire(r, "query")
  BY <1>1 DEF BeginRequest, BeginQuota, QueryPool, BeginShortTx
<1>2. ASSUME NEW r \in Requests,
             \/ EndRequest(r) \/ ReleaseEarly(r) \/ RejectForm(r) \/ QueryDone(r)
             \/ EndQuota(r) \/ EndShortTx(r) \/ Answer(r) \/ Arrive(r) \/ Abort(r)
      PROVE  used' \subseteq used
  BY <1>2 DEF EndRequest, ReleaseEarly, RejectForm, QueryDone, EndQuota, EndShortTx,
     Answer, Arrive, Abort, Release
<1>3. UNCHANGED vars => used' \subseteq used
  BY DEF vars
<1>4. QED
  BY <1>1, <1>2, <1>3, Acquired, Released DEF Next, Step

LEMMA PoolStep == ASSUME TypeOK, PoolInv, [Next]_vars PROVE TypeOK' /\ PoolInv'
<1> USE RequestsAssumption, PoolAssumption DEF PoolInv, Goto
<1>1. used' \subseteq Requests \X {"tx", "query"} /\ Cardinality(used') <= PoolSize
  BY UsedStep DEF Connections
<1> HIDE DEF PoolInv
<1>2. /\ used \subseteq Requests \X {"tx", "query"}
      /\ pc \in [Requests -> Points]
      /\ queries \in [Requests -> 0..2]
      /\ short \in [Requests -> 0..MaxShortTx]
  BY DEF TypeOK
<1>3. SUFFICES ASSUME NEW r \in Requests, Arrive(r) \/ Step(r) \/ Abort(r)
               PROVE  /\ pc' \in [Requests -> Points]
                      /\ queries' \in [Requests -> 0..2]
                      /\ short' \in [Requests -> 0..MaxShortTx]
                      /\ PoolInv'
  <2>1. UNCHANGED vars => TypeOK' /\ PoolInv'
    BY DEF vars, TypeOK, PoolInv
  <2>2. QED
    BY <1>1, <1>3, <2>1 DEF Next, TypeOK
<1> USE DEF PoolInv, Points
<1>4. CASE Arrive(r)
  BY <1>2, <1>4 DEF Arrive
<1>5. CASE BeginRequest(r)
  BY <1>2, <1>5 DEF BeginRequest, Acquire
<1>6. CASE EndRequest(r)
  BY <1>2, <1>6 DEF EndRequest, Release
<1>7. CASE ReleaseEarly(r)
  BY <1>2, <1>7 DEF ReleaseEarly, Release, Kinds
<1>8. CASE RejectForm(r)
  BY <1>2, <1>8 DEF RejectForm
<1>9. CASE BeginQuota(r)
  BY <1>2, <1>9 DEF BeginQuota, Acquire
<1>10. CASE QueryPool(r)
  BY <1>2, <1>10 DEF QueryPool, Acquire, Limits
<1>11. CASE QueryDone(r)
  BY <1>2, <1>11 DEF QueryDone, Release
<1>12. CASE EndQuota(r)
  BY <1>2, <1>12 DEF EndQuota, Release
<1>13. CASE BeginShortTx(r)
  BY <1>2, <1>13 DEF BeginShortTx, Acquire
<1>14. CASE EndShortTx(r)
  BY <1>2, <1>14 DEF EndShortTx, Release
<1>15. CASE Answer(r)
  BY <1>2, <1>15 DEF Answer
<1>16. CASE Abort(r)
  BY <1>2, <1>16 DEF Abort
<1>17. QED
  BY <1>3, <1>4, <1>5, <1>6, <1>7, <1>8, <1>9, <1>10, <1>11, <1>12, <1>13, <1>14,
     <1>15, <1>16 DEF Step

\* The pool never opens more connections than it may, and every counter stays
\* within its bound, for every pool size and any number of requests.
THEOREM PoolCorrect == Spec => [](TypeOK /\ PoolInv)
<1>1. Init => TypeOK /\ PoolInv
  <2>1. Cardinality({}) = 0
    BY FS_EmptySet
  <2>2. QED
    BY <2>1, PoolAssumption DEF Init, TypeOK, PoolInv, Points
<1>2. TypeOK /\ PoolInv /\ [Next]_vars => (TypeOK /\ PoolInv)'
  BY PoolStep
<1>3. QED
  BY <1>1, <1>2, PTL DEF Spec

\* A full pool of waiting requests consists of quota transactions, one for each
\* of PoolSize different uploads.
LEMMA FewUploads ==
    ASSUME TypeOK, PoolInv, Cardinality(Uploads) < PoolSize
    PROVE  NoPoolDeadlock
<1> SUFFICES ASSUME ~(Cardinality(used) < PoolSize), \A c \in used : Waiting(c[1])
             PROVE  FALSE
  BY DEF NoPoolDeadlock
<1>1. used \subseteq Uploads \X {"tx"}
  <2> SUFFICES ASSUME NEW c \in used PROVE c \in Uploads \X {"tx"}
    OBVIOUS
  <2>1. c[1] \in Requests /\ c[2] \in {"tx", "query"} /\ c = <<c[1], c[2]>>
    BY DEF TypeOK
  <2>2. pc[c[1]] = "quotaTx" /\ queries[c[1]] < Limits(c[1])
    BY DEF PoolInv, Waiting
  <2>3. c[2] = "tx"
    BY <2>1, <2>2 DEF PoolInv
  <2>4. queries[c[1]] \in 0..2
    BY <2>1 DEF TypeOK
  <2>5. QED
    <3>1. c[1].kind = "upload"
      BY <2>1, <2>2, <2>4 DEF Limits, PoolInv
    <3>2. QED
      BY <2>1, <2>3, <3>1 DEF Uploads
<1>2. IsFiniteSet(Uploads)
  BY RequestsAssumption, FS_Subset, Uploads \subseteq Requests DEF Uploads
<1>3. IsFiniteSet({"tx"}) /\ Cardinality({"tx"}) = 1
  BY FS_Singleton
<1>4. /\ IsFiniteSet(Uploads \X {"tx"})
      /\ Cardinality(Uploads \X {"tx"}) = Cardinality(Uploads) * Cardinality({"tx"})
  BY <1>2, <1>3, FS_Product
<1>5. IsFiniteSet(used) /\ Cardinality(used) <= Cardinality(Uploads \X {"tx"})
  BY <1>1, <1>4, FS_Subset
<1>6. Cardinality(used) \in Nat /\ Cardinality(Uploads) \in Nat
  BY <1>2, <1>5, FS_CardinalityType
<1>7. QED
  BY <1>3, <1>4, <1>5, <1>6, PoolAssumption

\* As long as fewer uploads than connections run at a time, a request that
\* holds a connection can always go on: the second connection the quota check
\* takes cannot block the tenant, whatever other requests are waiting.
THEOREM NoDeadlockBelowPoolSize ==
    Cardinality(Uploads) < PoolSize => (Spec => []NoPoolDeadlock)
<1>1. SUFFICES ASSUME Cardinality(Uploads) < PoolSize PROVE Spec => []NoPoolDeadlock
  OBVIOUS
<1>2. TypeOK /\ PoolInv => NoPoolDeadlock
  BY <1>1, FewUploads
<1>3. QED
  BY <1>2, PoolCorrect, PTL
------------------------------------------------------------------------------
(* Every request runs out of steps. *)

\* What a request does, and what its client does to it.
Acts(q) == Arrive(q) \/ Step(q) \/ Abort(q)

\* A request leaves the control state of the others alone.
LEMMA OthersStay ==
    ASSUME TypeOK, NEW q \in Requests, Acts(q)
    PROVE  \A p \in Requests \ {q} :
              pc'[p] = pc[p] /\ queries'[p] = queries[p] /\ short'[p] = short[p]
BY DEF TypeOK, Acts, Step, Goto, Arrive, BeginRequest, EndRequest, ReleaseEarly,
   RejectForm, BeginQuota, QueryPool, QueryDone, EndQuota, BeginShortTx, EndShortTx,
   Answer, Abort

\* How a step changes the state of its request, as far as StepsLeft sees it.
LEMMA Progress ==
    ASSUME TypeOK, NEW r \in Requests, Step(r)
    PROVE  \/ pc'[r] = "done" /\ pc[r] \notin {"idle", "done", "querying", "shortTx"}
           \/ /\ UNCHANGED <<queries, short>>
              /\ \/ pc[r] = "arrived" /\ pc'[r] = "inTx"
                 \/ pc[r] = "inTx" /\ pc'[r] \in {"released", "batch"}
                 \/ pc[r] = "released" /\ pc'[r] = "quotaTx"
                 \/ pc[r] = "quotaTx" /\ pc'[r] \in {"querying", "batch"}
                 \/ pc[r] = "batch" /\ pc'[r] = "shortTx" /\ short[r] < MaxShortTx
           \/ /\ pc[r] = "querying" /\ pc'[r] = "quotaTx"
              /\ queries'[r] = queries[r] + 1 /\ short' = short
           \/ /\ pc[r] = "shortTx" /\ pc'[r] = "batch"
              /\ short'[r] = short[r] + 1 /\ queries' = queries
BY DEF TypeOK, Step, Goto, BeginRequest, EndRequest, ReleaseEarly, RejectForm,
   BeginQuota, QueryPool, QueryDone, EndQuota, BeginShortTx, EndShortTx, Answer

\* StepsLeft of a request at point p with q queries and s short transactions done.
Left(p, q, s) ==
    LET batch == 2 * MaxShortTx + 1
        quota == batch + 1 + 2 * (2 - q)
    IN  CASE p = "arrived" -> batch + 8
          [] p = "inTx" -> batch + 7
          [] p = "released" -> batch + 6
          [] p = "quotaTx" -> quota
          [] p = "querying" -> quota - 1
          [] p = "batch" -> 2 * (MaxShortTx - s) + 1
          [] p = "shortTx" -> 2 * (MaxShortTx - s)
          [] OTHER -> 0

\* StepsLeft, now and after a step, is Left of the request's control state.
LEMMA LeftNowAndThen ==
    ASSUME NEW r \in Requests
    PROVE  /\ StepsLeft(r) = Left(pc[r], queries[r], short[r])
           /\ StepsLeft(r)' = Left(pc'[r], queries'[r], short'[r])
BY DEF StepsLeft, Left

\* The cases of Left, one by one, and that it is a number.
LEMMA LeftAt ==
    ASSUME NEW q \in 0..2, NEW s \in 0..MaxShortTx
    PROVE  /\ Left("idle", q, s) = 0
           /\ Left("arrived", q, s) = 2 * MaxShortTx + 9
           /\ Left("inTx", q, s) = 2 * MaxShortTx + 8
           /\ Left("released", q, s) = 2 * MaxShortTx + 7
           /\ Left("quotaTx", q, s) = 2 * MaxShortTx + 2 + 2 * (2 - q)
           /\ Left("querying", q, s) = 2 * MaxShortTx + 1 + 2 * (2 - q)
           /\ Left("batch", q, s) = 2 * (MaxShortTx - s) + 1
           /\ Left("shortTx", q, s) = 2 * (MaxShortTx - s)
           /\ Left("done", q, s) = 0
           /\ \A p \in Points : Left(p, q, s) \in Nat
<1>1. MaxShortTx \in Nat
  BY PoolAssumption
<1>2. MaxShortTx - s \in Nat /\ 2 - q \in Nat
  BY <1>1
<1>3. /\ Left("idle", q, s) = 0
      /\ Left("arrived", q, s) = 2 * MaxShortTx + 9
      /\ Left("inTx", q, s) = 2 * MaxShortTx + 8
      /\ Left("released", q, s) = 2 * MaxShortTx + 7
      /\ Left("quotaTx", q, s) = 2 * MaxShortTx + 2 + 2 * (2 - q)
      /\ Left("querying", q, s) = 2 * MaxShortTx + 1 + 2 * (2 - q)
  BY <1>1, <1>2 DEF Left
<1>4. /\ Left("batch", q, s) = 2 * (MaxShortTx - s) + 1
      /\ Left("shortTx", q, s) = 2 * (MaxShortTx - s)
      /\ Left("done", q, s) = 0
  BY <1>1, <1>2 DEF Left
<1>5. \A p \in Points : Left(p, q, s) \in Nat
  BY <1>1, <1>2, <1>3, <1>4 DEF Points
<1> QED
  BY <1>3, <1>4, <1>5

\* What AnswersComeCloser says of one step.
LEMMA CloserStep ==
    ASSUME TypeOK, PoolInv, [Next]_vars, NEW r \in Requests
    PROVE  /\ Step(r) => StepsLeft(r)' < StepsLeft(r)
           /\ pc[r] # "idle" => StepsLeft(r)' <= StepsLeft(r)
<1>1. /\ pc[r] \in Points /\ queries[r] \in 0..2 /\ short[r] \in 0..MaxShortTx
      /\ MaxShortTx \in Nat
  BY PoolAssumption DEF TypeOK
<1>2. pc'[r] \in Points /\ queries'[r] \in 0..2 /\ short'[r] \in 0..MaxShortTx
  <2>1. TypeOK'
    BY PoolStep
  <2> QED
    BY <2>1 DEF TypeOK
<1>3. StepsLeft(r) \in Nat /\ StepsLeft(r)' \in Nat
  BY <1>1, <1>2, LeftAt, LeftNowAndThen
<1>4. Step(r) => StepsLeft(r)' < StepsLeft(r)
  <2> SUFFICES ASSUME Step(r) PROVE StepsLeft(r)' < StepsLeft(r)
    OBVIOUS
  <2>1. Left(pc'[r], queries'[r], short'[r]) < Left(pc[r], queries[r], short[r])
    BY <1>1, <1>2, LeftAt, Progress DEF Points, PoolInv
  <2> QED
    BY <2>1, LeftNowAndThen
<1>5. ASSUME pc'[r] = pc[r], queries'[r] = queries[r], short'[r] = short[r]
      PROVE  StepsLeft(r)' = StepsLeft(r)
  BY <1>5, LeftNowAndThen
<1>6. ASSUME NEW q \in Requests, q # r, Acts(q)
      PROVE  StepsLeft(r)' = StepsLeft(r)
  BY <1>5, <1>6, OthersStay
<1>7. CASE Abort(r)
  <2>1. pc'[r] = "done"
    BY <1>7 DEF Abort, Goto, TypeOK
  <2>2. StepsLeft(r)' = 0
    BY <1>2, <2>1, LeftAt, LeftNowAndThen
  <2> QED
    BY <1>3, <1>4, <2>2
<1>8. CASE UNCHANGED vars
  BY <1>3, <1>4, <1>5, <1>8 DEF vars
<1>9. Arrive(r) => pc[r] = "idle"
  BY DEF Arrive
<1> QED
  BY <1>3, <1>4, <1>6, <1>7, <1>8, <1>9 DEF Next, Acts

\* No request can go on for ever, whatever the pool size, the traffic beside it
\* and the number of its short transactions: with the absence of deadlock, this
\* is why the pool answers everybody.
THEOREM RequestsRunOut == Spec => AnswersComeCloser
<1>1. TypeOK /\ PoolInv /\ [Next]_vars =>
         [\A r \in Requests :
             /\ Step(r) => StepsLeft(r)' < StepsLeft(r)
             /\ pc[r] # "idle" => StepsLeft(r)' <= StepsLeft(r)]_vars
  BY CloserStep
<1> QED
  BY <1>1, PoolCorrect, PTL DEF Spec, AnswersComeCloser
------------------------------------------------------------------------------
(* A pool that has deadlocked does not recover. *)

\* Only quota transactions hold a connection while they wait for another.
LEMMA StuckHolders ==
    ASSUME TypeOK, PoolInv, NEW c \in used, Waiting(c[1])
    PROVE  pc[c[1]] = "quotaTx" /\ queries[c[1]] < Limits(c[1])
BY DEF PoolInv, Waiting

\* Nobody of a full pool of waiting requests can take a step, and the steps of
\* the others return no connection.
LEMMA StuckStep ==
    ASSUME TypeOK, PoolInv, Stuck, NEW q \in Requests, Arrive(q) \/ Step(q)
    PROVE  Stuck' /\ used' = used
<1>1. Cardinality(used) = PoolSize /\ ~(PoolSize < PoolSize)
  BY PoolAssumption DEF Stuck
<1>2. ~Acquire(q, "tx") /\ ~Acquire(q, "query")
  BY <1>1 DEF Acquire
<1>3. \A c \in used : c[1] # q
  <2> SUFFICES ASSUME NEW c \in used, c[1] = q PROVE FALSE
    OBVIOUS
  <2>1. pc[q] = "quotaTx" /\ queries[q] < Limits(q)
    BY StuckHolders DEF Stuck
  <2>2. queries[q] # Limits(q)
    BY <2>1, ~(Limits(q) < Limits(q)) DEF TypeOK, Limits
  <2> QED
    BY <1>2, <2>1, <2>2 DEF Arrive, Step, BeginRequest, EndRequest, ReleaseEarly,
       RejectForm, BeginQuota, QueryPool, QueryDone, EndQuota, BeginShortTx,
       EndShortTx, Answer
<1>4. Release(q, "tx") \/ Release(q, "query") => used' = used
  BY <1>3 DEF Release
<1>5. used' = used
  BY <1>2, <1>4 DEF Arrive, Step, BeginRequest, EndRequest, ReleaseEarly, RejectForm,
     BeginQuota, QueryPool, QueryDone, EndQuota, BeginShortTx, EndShortTx, Answer
<1>6. ASSUME NEW c \in used PROVE Waiting(c[1])'
  <2>1. c[1] \in Requests \ {q}
    BY <1>3 DEF TypeOK
  <2>2. pc'[c[1]] = pc[c[1]] /\ queries'[c[1]] = queries[c[1]]
    BY <2>1, OthersStay DEF Acts
  <2>3. Waiting(c[1])
    BY DEF Stuck
  <2> QED
    BY <2>2, <2>3 DEF Waiting
<1> QED
  BY <1>5, <1>6 DEF Stuck

\* What the burst run finds is no transient wait: once as many uploads as the
\* pool has connections have met in their quota checks, the pool stays full of
\* the same connections until a client disconnects, whatever everybody else does.
THEOREM StuckForGood ==
    Spec => [][Stuck /\ (\A r \in Requests : ~Abort(r)) => Stuck' /\ used' = used]_vars
<1>1. TypeOK /\ PoolInv /\ [Next]_vars =>
         [Stuck /\ (\A r \in Requests : ~Abort(r)) => Stuck' /\ used' = used]_vars
  BY StuckStep DEF Next
<1> QED
  BY <1>1, PoolCorrect, PTL DEF Spec
==============================================================================
