---------------------------- MODULE ConnectionPool ----------------------------
(***************************************************************************)
(* The database/sql connection pool of one tenant in SQLite mode           *)
(* (server/internal/tenant/db.go, SetMaxOpenConns) and how requests use    *)
(* it: the transaction the Tenant middleware or the S3 gateway opens for   *)
(* every request, the quota transaction of UploadFile, which asks the same *)
(* pool for two more queries while it is open (checkOrgUploadQuota), and   *)
(* the short transactions of uploads and of S3 PUT.                        *)
(*                                                                         *)
(* Whoever asks a full pool waits without a timeout, until a connection is *)
(* returned or its client goes away.  Waiters are served in any order.     *)
(***************************************************************************)
EXTENDS Naturals, FiniteSets

CONSTANTS
    Requests,   \* the HTTP requests of a behaviour: records with .kind
    PoolSize,   \* SQLITE_MAX_OPEN_CONNS (8 by default)
    MaxShortTx  \* short transactions of one upload: 2 per attempt of each file

\* "upload" carries bytes, "empty" is an upload of empty files only, "put" an
\* S3 PUT, "other" any handler that works in the middleware's transaction.
Kinds == {"upload", "empty", "put", "other"}

ASSUME RequestsAssumption ==
    /\ IsFiniteSet(Requests)
    /\ \A r \in Requests : r.kind \in Kinds
ASSUME PoolAssumption == PoolSize \in Nat \ {0} /\ MaxShortTx \in Nat \ {0}

VARIABLES
    used,     \* connections in use: <<request, "tx">> or <<request, "query">>
    pc,       \* control point of each request
    queries,  \* pool queries checkOrgUploadQuota has finished
    short     \* short transactions finished

vars == <<used, pc, queries, short>>

Points == {"idle", "arrived", "inTx", "released", "quotaTx", "querying",
           "batch", "shortTx", "done"}

Init ==
    /\ used = {}
    /\ pc = [r \in Requests |-> "idle"]
    /\ queries = [r \in Requests |-> 0]
    /\ short = [r \in Requests |-> 0]
------------------------------------------------------------------------------
\* sql.DB.conn: take a connection; the caller blocks while the pool is full.
\* Mutant: a pool without SetMaxOpenConns.
Acquire_Unbounded(r, what) == used' = used \cup {<<r, what>>}
Acquire(r, what) ==
    /\ Cardinality(used) < PoolSize
    /\ used' = used \cup {<<r, what>>}
Release(r, what) == used' = used \ {<<r, what>>}

Goto(r, point) == pc' = [pc EXCEPT ![r] = point]

Arrive(r) ==
    /\ pc[r] = "idle"
    /\ Goto(r, "arrived")
    /\ UNCHANGED <<used, queries, short>>

\* The Tenant middleware, or the S3 gateway, begins the request's transaction.
BeginRequest(r) ==
    /\ pc[r] = "arrived"
    /\ Acquire(r, "tx")
    /\ Goto(r, "inTx")
    /\ UNCHANGED <<queries, short>>

\* Any handler that works in this transaction, and every early error: the
\* middleware commits or rolls back after the handler.
EndRequest(r) ==
    /\ pc[r] = "inTx"
    /\ Release(r, "tx")
    /\ Goto(r, "done")
    /\ UNCHANGED <<queries, short>>

\* UploadFile and the PUT branch of the gateway commit the request's
\* transaction before they do anything else.
\* Mutant: the transaction stays open until the request ends.
ReleaseEarly_Kept(r) ==
    /\ pc[r] = "inTx" /\ r.kind # "other"
    /\ Goto(r, IF r.kind = "put" THEN "batch" ELSE "released")
    /\ UNCHANGED <<used, queries, short>>
ReleaseEarly(r) ==
    /\ pc[r] = "inTx" /\ r.kind # "other"
    /\ Release(r, "tx")
    /\ Goto(r, IF r.kind = "put" THEN "batch" ELSE "released")
    /\ UNCHANGED <<queries, short>>

\* Bad form, no files, bad folder id.
RejectForm(r) ==
    /\ pc[r] = "released"
    /\ Goto(r, "done")
    /\ UNCHANGED <<used, queries, short>>

BeginQuota(r) ==
    /\ pc[r] = "released"
    /\ Acquire(r, "tx")
    /\ Goto(r, "quotaTx")
    /\ UNCHANGED <<queries, short>>

\* checkOrgUploadQuota reads the org's limit, then the owner's, through the
\* pool while the quota transaction is open; a batch without bytes skips both.
Limits(r) == IF r.kind = "empty" THEN 0 ELSE 2

QueryPool(r) ==
    /\ pc[r] = "quotaTx" /\ queries[r] < Limits(r)
    /\ Acquire(r, "query")
    /\ Goto(r, "querying")
    /\ UNCHANGED <<queries, short>>

QueryDone(r) ==
    /\ pc[r] = "querying"
    /\ Release(r, "query")
    /\ queries' = [queries EXCEPT ![r] = @ + 1]
    /\ Goto(r, "quotaTx")
    /\ UNCHANGED short

\* The used bytes are read in the quota transaction; it ends on both paths,
\* with an answer when the quota is exceeded.
EndQuota(r) ==
    /\ pc[r] = "quotaTx" /\ queries[r] = Limits(r)
    /\ Release(r, "tx")
    /\ \E point \in {"batch", "done"} : Goto(r, point)
    /\ UNCHANGED <<queries, short>>

\* Phase 1 or 3 of one attempt of one file.
BeginShortTx(r) ==
    /\ pc[r] = "batch" /\ short[r] < MaxShortTx
    /\ Acquire(r, "tx")
    /\ Goto(r, "shortTx")
    /\ UNCHANGED <<queries, short>>

\* Commit, or the deferred Rollback of an error path.
\* Mutant: an error path without it.
EndShortTx_Leaked(r) ==
    /\ pc[r] = "shortTx"
    /\ short' = [short EXCEPT ![r] = @ + 1]
    /\ Goto(r, "batch")
    /\ UNCHANGED <<used, queries>>
\* Mutant: a retry that is not counted.
EndShortTx_Uncounted(r) ==
    /\ pc[r] = "shortTx"
    /\ Release(r, "tx")
    /\ Goto(r, "batch")
    /\ UNCHANGED <<queries, short>>
EndShortTx(r) ==
    /\ pc[r] = "shortTx"
    /\ Release(r, "tx")
    /\ short' = [short EXCEPT ![r] = @ + 1]
    /\ Goto(r, "batch")
    /\ UNCHANGED queries

\* The answer; between two short transactions storage I/O holds nothing.
Answer(r) ==
    /\ pc[r] = "batch"
    /\ Goto(r, "done")
    /\ UNCHANGED <<used, queries, short>>

\* The client disconnects: its context ends every wait and transaction.
Abort(r) ==
    /\ pc[r] \notin {"idle", "done"}
    /\ used' = {c \in used : c[1] # r}
    /\ Goto(r, "done")
    /\ UNCHANGED <<queries, short>>

Step(r) ==
    \/ BeginRequest(r) \/ EndRequest(r) \/ ReleaseEarly(r) \/ RejectForm(r)
    \/ BeginQuota(r) \/ QueryPool(r) \/ QueryDone(r) \/ EndQuota(r)
    \/ BeginShortTx(r) \/ EndShortTx(r) \/ Answer(r)

Next == \E r \in Requests : Arrive(r) \/ Step(r) \/ Abort(r)

Spec == Init /\ [][Next]_vars

\* Every request runs on a goroutine of its own, which stops only to wait for
\* a connection; nobody has to send a request or to disconnect.
FairSpec == Spec /\ \A r \in Requests : WF_vars(Step(r))
------------------------------------------------------------------------------
TypeOK ==
    /\ used \subseteq Requests \X {"tx", "query"}
    /\ Cardinality(used) <= PoolSize
    /\ pc \in [Requests -> Points]
    /\ queries \in [Requests -> 0..2]
    /\ short \in [Requests -> 0..MaxShortTx]

\* The next thing r does is to ask the pool for a connection.
Waiting(r) ==
    \/ pc[r] \in {"arrived", "released", "batch"}
    \/ pc[r] = "quotaTx" /\ queries[r] < Limits(r)

\* The pool is never full of requests that all wait for one more connection:
\* whoever holds a connection in SQLite mode can make progress, or another
\* holder can (config.go: "A pool of 8 allows concurrent reads and parallel
\* writes with busy_timeout absorbing contention").
NoPoolDeadlock ==
    Cardinality(used) < PoolSize \/ \E c \in used : ~Waiting(c[1])

\* Every request is answered although the quota check asks for a second
\* connection while it holds one, and nobody has to disconnect for it.
EveryRequestAnswered ==
    \A r \in Requests : pc[r] = "arrived" ~> pc[r] = "done"

\* How many steps r still takes at most: two for each short transaction and each
\* query of the quota check that is left, and the points before them.
StepsLeft(r) ==
    LET batch == 2 * MaxShortTx + 1
        quota == batch + 1 + 2 * (2 - queries[r])
    IN  CASE pc[r] = "arrived" -> batch + 8
          [] pc[r] = "inTx" -> batch + 7
          [] pc[r] = "released" -> batch + 6
          [] pc[r] = "quotaTx" -> quota
          [] pc[r] = "querying" -> quota - 1
          [] pc[r] = "batch" -> 2 * (MaxShortTx - short[r]) + 1
          [] pc[r] = "shortTx" -> 2 * (MaxShortTx - short[r])
          [] OTHER -> 0

\* Why every request is answered as long as the pool does not deadlock: each of
\* its steps uses up one of the finitely many it has, and what the others do,
\* the connections they take included, never gives it more.
AnswersComeCloser ==
    [][\A r \in Requests :
           /\ Step(r) => StepsLeft(r)' < StepsLeft(r)
           /\ pc[r] # "idle" => StepsLeft(r)' <= StepsLeft(r)]_vars

\* A full pool of requests that all wait for one more connection.
Stuck == Cardinality(used) = PoolSize /\ \A c \in used : Waiting(c[1])

\* The uploads that ever hold one connection while they wait for another.
Uploads == {r \in Requests : r.kind = "upload"}
==============================================================================
