----------------------------- MODULE PublicLinks -----------------------------
(***************************************************************************)
(* Public links of one tenant: share links (handler/share.go), tracked     *)
(* links (handler/trackedlink.go) and upload links (handler/uploadlink.go).*)
(* A link's row, with its switch, limit and counter, is in the tenant's    *)
(* database; its token is in a registry in the main database, written      *)
(* outside the tenant's transaction (handler/linktoken.go).                *)
(*                                                                         *)
(* Owners create, update and delete links in the middleware's transaction. *)
(* Visitors resolve the token, open a transaction of their own, pass the   *)
(* link's gate, are served and are counted.  A request is a process; its   *)
(* steps are cut where another request can run.  What a transaction has    *)
(* written shows when it commits, and until then it keeps the lock.        *)
(***************************************************************************)
EXTENDS Naturals, FiniteSets

CONSTANTS
    ShareLinks, TrackedLinks, UploadLinks,
                \* the links of a behaviour; all share links have one target
    Requests,   \* HTTP requests: records with .op and .link
    Limits,     \* values of maxDownloads, maxViews or maxFiles in a body
    NoLimit,    \* SQL NULL: unlimited
    Databases,  \* the databases a behaviour may run on
    None        \* nobody holds a lock

Links == ShareLinks \cup TrackedLinks \cup UploadLinks
OwnerOps == {"create", "update", "delete"}
VisitorOps(l) == CASE l \in ShareLinks -> {"download", "raw"}
                   [] l \in TrackedLinks -> {"view", "download", "raw"}
                   [] l \in UploadLinks -> {"upload"}

ASSUME LinksAssumption ==
    /\ ShareLinks \cap TrackedLinks = {}
    /\ (ShareLinks \cup TrackedLinks) \cap UploadLinks = {}
    /\ Databases \subseteq {"sqlite", "postgres"}
    /\ NoLimit \in Limits /\ Limits \ {NoLimit} \subseteq Nat
ASSUME RequestsAssumption ==
    /\ IsFiniteSet(Requests)
    /\ None \notin Requests
    /\ \A r \in Requests : r.link \in Links /\ r.op \in OwnerOps \cup VisitorOps(r.link)
    /\ \A r, q \in Requests :
           r.op = "create" /\ q.op = "create" /\ r.link = q.link => r = q

VARIABLES
    database, \* SQLite in WAL mode, or PostgreSQL with READ COMMITTED and row locks
    link,     \* the committed row of each link
    tokens,   \* links whose token is in the registry
    events,   \* requests with a committed tracked_link_events row
    lock,     \* lock[l]: who may write l's row; SQLite locks all rows at once
    fresh,    \* SQLite: r has a snapshot and nothing was committed since
    pc,       \* control point of each request
    body,     \* the switch and limit an owner's transaction writes
    swept,    \* events a delete has removed but not committed
    granted   \* history: visitors that got the file, or whose file was taken

vars == <<database, link, tokens, events, lock, fresh, pc, body, swept, granted>>

Visitors == {r \in Requests : r.op \notin OwnerOps}
Points == {"idle", "creating", "inserted", "registered", "updating", "updated",
           "deleting", "sweeping", "deleted", "unregistered", "resolved", "open",
           "uploading", "streamed", "counted", "done", "failed", "aborted"}
Ended == {"done", "failed", "aborted"}
Bodies == [active : BOOLEAN, limit : Limits]

Init ==
    /\ database \in Databases
    /\ link = [l \in Links |-> [state |-> "none", active |-> TRUE,
                                limit |-> NoLimit, count |-> 0]]
    /\ tokens = {}
    /\ events = {}
    /\ lock = [l \in Links |-> None]
    /\ fresh = [r \in Requests |-> FALSE]
    /\ pc = [r \in Requests |-> "idle"]
    /\ body = [r \in Requests |-> [active |-> TRUE, limit |-> NoLimit]]
    /\ swept = [r \in Requests |-> {}]
    /\ granted = {}
------------------------------------------------------------------------------
(***************************************************************************)
(* Transactions.  SQLite: a write needs the one write lock and a snapshot  *)
(* that is still current, or it fails.  PostgreSQL: a write of a row waits *)
(* for the row's lock; every statement sees what is committed.             *)
(***************************************************************************)
Postgres == database = "postgres"

Goto(r, point) == pc' = [pc EXCEPT ![r] = point] /\ UNCHANGED database

Snapshot(r) == fresh' = [fresh EXCEPT ![r] = TRUE]

\* Mutant: SQLite without the check of the snapshot.
CanWrite_Stale(r) == lock[r.link] \in {None, r}
CanWrite(r) == lock[r.link] \in {None, r} /\ (Postgres \/ fresh[r])
WriteFails(r) == ~Postgres /\ ~CanWrite(r)

Lock(r) ==
    lock' = [l \in Links |-> IF Postgres /\ l # r.link THEN lock[l] ELSE r]
Unlock(r) == lock' = [l \in Links |-> IF lock[l] = r THEN None ELSE lock[l]]

\* The end of a transaction that wrote, and of one that did not.
Commit(r) ==
    /\ Unlock(r)
    /\ fresh' = [q \in Requests |-> FALSE]
Rollback(r) ==
    /\ Unlock(r)
    /\ fresh' = [fresh EXCEPT ![r] = FALSE]

Fail(r) == Goto(r, "failed") /\ Rollback(r)
------------------------------------------------------------------------------
(***************************************************************************)
(* Owners.                                                                 *)
(***************************************************************************)
BelowLimit(l) == link[l].limit # NoLimit => link[l].count < link[l].limit
Usable(l) == link[l].state = "live" /\ link[l].active /\ BelowLimit(l)

\* Bad body, unknown target, id or token: an answer before anything is read.
Reject(r) ==
    /\ pc[r] = "idle"
    /\ Goto(r, "failed")
    /\ UNCHANGED <<link, tokens, events, lock, fresh, body, swept, granted>>

BeginCreate(r) ==
    /\ pc[r] = "idle" /\ r.op = "create"
    /\ Snapshot(r)
    /\ Goto(r, "creating")
    /\ UNCHANGED <<link, tokens, events, lock, body, swept, granted>>

\* Sharing a target again returns a link that is still usable.
\* Mutant: every request makes a link of its own.
CreateShareLink_NoReuse(r) == r.link \in ShareLinks /\ BeginCreate(r)
CreateShareLink(r) ==
    /\ r.link \in ShareLinks
    /\ \A l \in ShareLinks : ~Usable(l)
    /\ BeginCreate(r)

ReuseShareLink(r) ==
    /\ r.link \in ShareLinks
    /\ pc[r] = "idle" /\ r.op = "create"
    /\ \E l \in ShareLinks : Usable(l)
    /\ Goto(r, "done")
    /\ UNCHANGED <<link, tokens, events, lock, fresh, body, swept, granted>>

CreateTrackedLink(r) == r.link \in TrackedLinks /\ BeginCreate(r)
CreateUploadLink(r) == r.link \in UploadLinks /\ BeginCreate(r)

InsertLink(r) ==
    /\ pc[r] = "creating" /\ CanWrite(r)
    /\ Lock(r)
    /\ \E m \in Limits : body' = [body EXCEPT ![r] = [active |-> TRUE, limit |-> m]]
    /\ Goto(r, "inserted")
    /\ UNCHANGED <<link, tokens, events, fresh, swept, granted>>

\* The registry row is committed at once, in the main database.
RegisterToken(r) ==
    /\ pc[r] = "inserted"
    /\ tokens' = tokens \cup {r.link}
    /\ Goto(r, "registered")
    /\ UNCHANGED <<link, events, lock, fresh, body, swept, granted>>

\* Mutant: the error of registerLinkToken is ignored, like deleteLinkToken's.
RegisterFails_Ignored(r) ==
    /\ pc[r] = "inserted"
    /\ Goto(r, "registered")
    /\ UNCHANGED <<link, tokens, events, lock, fresh, body, swept, granted>>
RegisterFails(r) ==
    /\ pc[r] = "inserted"
    /\ Fail(r)
    /\ UNCHANGED <<link, tokens, events, body, swept, granted>>

CreateCommit(r) ==
    /\ pc[r] = "registered"
    /\ link' = [link EXCEPT ![r.link].state = "live", ![r.link].active = body[r].active,
                            ![r.link].limit = body[r].limit]
    /\ Commit(r)
    /\ Goto(r, "done")
    /\ UNCHANGED <<tokens, events, body, swept, granted>>

BeginUpdate(r) ==
    /\ pc[r] = "idle" /\ r.op = "update"
    /\ link[r.link].state = "live"
    /\ Snapshot(r)
    /\ Goto(r, "updating")
    /\ UNCHANGED <<link, tokens, events, lock, body, swept, granted>>

UpdateShareLink(r) == r.link \in ShareLinks /\ BeginUpdate(r)
UpdateTrackedLink(r) == r.link \in TrackedLinks /\ BeginUpdate(r)
UpdateUploadLink(r) == r.link \in UploadLinks /\ BeginUpdate(r)

\* A body may leave either field out; it cannot set a limit back to NULL.
UpdateRow(r) ==
    /\ pc[r] = "updating" /\ CanWrite(r)
    /\ link[r.link].state = "live"
    /\ Lock(r)
    /\ \E b \in Bodies :
           /\ b.limit = NoLimit => link[r.link].limit = NoLimit
           /\ body' = [body EXCEPT ![r] = b]
    /\ Goto(r, "updated")
    /\ UNCHANGED <<link, tokens, events, fresh, swept, granted>>

\* PostgreSQL: the row was deleted while the UPDATE waited; the reload fails.
UpdateFindsNothing(r) ==
    /\ pc[r] = "updating" /\ CanWrite(r)
    /\ link[r.link].state # "live"
    /\ Fail(r)
    /\ UNCHANGED <<link, tokens, events, body, swept, granted>>

UpdateCommit(r) ==
    /\ pc[r] = "updated"
    /\ link' = [link EXCEPT ![r.link].active = body[r].active,
                            ![r.link].limit = body[r].limit]
    /\ Commit(r)
    /\ Goto(r, "done")
    /\ UNCHANGED <<tokens, events, body, swept, granted>>

BeginDelete(r, next) ==
    /\ pc[r] = "idle" /\ r.op = "delete"
    /\ link[r.link].state = "live"
    /\ Snapshot(r)
    /\ Goto(r, next)
    /\ UNCHANGED <<link, tokens, events, lock, body, swept, granted>>

DeleteShareLink(r) == r.link \in ShareLinks /\ BeginDelete(r, "deleting")
DeleteUploadLink(r) == r.link \in UploadLinks /\ BeginDelete(r, "deleting")
\* A tracked link's events are deleted first.
\* Mutant: its events stay behind.
DeleteTrackedLink_KeepEvents(r) == r.link \in TrackedLinks /\ BeginDelete(r, "deleting")
DeleteTrackedLink(r) == r.link \in TrackedLinks /\ BeginDelete(r, "sweeping")

SweepEvents(r) ==
    /\ pc[r] = "sweeping" /\ (Postgres \/ CanWrite(r))
    /\ lock' = IF Postgres THEN lock ELSE [l \in Links |-> r]
    /\ swept' = [swept EXCEPT ![r] = {v \in events : v.link = r.link}]
    /\ Goto(r, "deleting")
    /\ UNCHANGED <<link, tokens, events, fresh, body, granted>>

DeleteRow(r) ==
    /\ pc[r] = "deleting" /\ CanWrite(r)
    /\ Lock(r)
    /\ Goto(r, "deleted")
    /\ UNCHANGED <<link, tokens, events, fresh, body, swept, granted>>

\* The registry row goes at once; the error of deleteLinkToken is ignored.
DropToken(r) ==
    /\ pc[r] = "deleted"
    /\ tokens' \in {tokens, tokens \ {r.link}}
    /\ Goto(r, "unregistered")
    /\ UNCHANGED <<link, events, lock, fresh, body, swept, granted>>

DeleteCommit(r) ==
    /\ pc[r] = "unregistered"
    /\ link' = [link EXCEPT ![r.link].state = "deleted"]
    /\ events' = events \ swept[r]
    /\ Commit(r)
    /\ Goto(r, "done")
    /\ UNCHANGED <<tokens, body, swept, granted>>

\* "database is locked": the owner gets a 500.
OwnerLocked(r) ==
    /\ pc[r] \in {"creating", "updating", "sweeping", "deleting"}
    /\ WriteFails(r)
    /\ Fail(r)
    /\ UNCHANGED <<link, tokens, events, body, swept, granted>>
------------------------------------------------------------------------------
(***************************************************************************)
(* Visitors.                                                               *)
(***************************************************************************)
\* resolveLinkToken: one query in the main database.
Resolve(r) ==
    /\ pc[r] = "idle" /\ r \in Visitors
    /\ r.link \in tokens
    /\ Goto(r, "resolved")
    /\ UNCHANGED <<link, tokens, events, lock, fresh, body, swept, granted>>

\* The gate, read in one SELECT: the first statement of the transaction.
Admit(r) ==
    /\ pc[r] = "resolved"
    /\ Usable(r.link)
    /\ Snapshot(r)
    /\ Goto(r, "open")
    /\ UNCHANGED <<link, tokens, events, lock, body, swept, granted>>

OpenShareLink(r) == r.link \in ShareLinks /\ Admit(r)
OpenTrackedLink(r) == r.link \in TrackedLinks /\ Admit(r)
OpenUploadLink(r) == r.link \in UploadLinks /\ Admit(r)

\* No such link, inactive, limit reached; or expiry, password, access, scope,
\* size, type, a missing file, or a storage error.  A tracked view loads its
\* target only after it has been counted.
Refuse(r) ==
    /\ \/ pc[r] \in {"resolved", "open", "uploading"}
       \/ pc[r] = "counted" /\ r.op = "view"
    /\ Fail(r)
    /\ UNCHANGED <<link, tokens, events, body, swept, granted>>

\* PublicUpload inserts the pending rows before, and finishes them after, the
\* storage upload: in SQLite it keeps the write lock all the while.
TakeFile(r) ==
    /\ pc[r] = "open" /\ r.op = "upload" /\ (Postgres \/ CanWrite(r))
    /\ lock' = IF Postgres THEN lock ELSE [l \in Links |-> r]
    /\ Goto(r, "uploading")
    /\ UNCHANGED <<link, tokens, events, fresh, body, swept, granted>>

\* PublicShareRaw and PublicTrackedRaw send the bytes first.
Stream(r) ==
    /\ pc[r] = "open" /\ r.op = "raw"
    /\ granted' = granted \cup {r}
    /\ Goto(r, "streamed")
    /\ UNCHANGED <<link, tokens, events, lock, fresh, body, swept>>

\* The event row and the counter.
Count(r) ==
    /\ \/ pc[r] = "open" /\ r.op \in {"download", "view"}
       \/ pc[r] \in {"uploading", "streamed"}
    /\ CanWrite(r)
    /\ Lock(r)
    /\ Goto(r, "counted")
    /\ UNCHANGED <<link, tokens, events, fresh, body, swept, granted>>

\* Stale snapshot: the visitor gets a 500, a raw download is not counted.
CountFails(r) ==
    /\ pc[r] = "open" /\ r.op # "raw"
    /\ WriteFails(r)
    /\ Fail(r)
    /\ UNCHANGED <<link, tokens, events, body, swept, granted>>
RawNotCounted(r) ==
    /\ pc[r] = "streamed" /\ WriteFails(r)
    /\ Goto(r, "done")
    /\ Rollback(r)
    /\ UNCHANGED <<link, tokens, events, body, swept, granted>>

\* The visits the limit is about: a tracked link limits views only.
Limited(r) == r.link \in TrackedLinks => r.op = "view"

\* Mutants: a visit that is not counted; one that is counted twice.
Visited_Uncounted(r, n) == n
Visited_Twice(r, n) == n + 2
Visited(r, n) == IF Limited(r) THEN n + 1 ELSE n

\* finishPublicTx commits.  An UPDATE of a row deleted meanwhile (PostgreSQL)
\* changes nothing and is no error.
FinishVisit(r) ==
    /\ pc[r] = "counted"
    /\ link' = [link EXCEPT ![r.link].count =
                   IF link[r.link].state = "live" THEN Visited(r, @) ELSE @]
    /\ events' = IF r.link \in TrackedLinks THEN events \cup {r} ELSE events
    /\ granted' = granted \cup {r}
    /\ Commit(r)
    /\ Goto(r, "done")
    /\ UNCHANGED <<tokens, body, swept>>
------------------------------------------------------------------------------
\* The client disconnects, which rolls its transaction back, or the server
\* dies.
Abort(r) ==
    /\ pc[r] \notin Ended \cup {"idle"}
    /\ Goto(r, "aborted")
    /\ Rollback(r)
    /\ UNCHANGED <<link, tokens, events, body, swept, granted>>

\* Any other write of the tenant is committed.
OtherCommit ==
    /\ ~Postgres
    /\ \A l \in Links : lock[l] = None
    /\ \E r \in Requests : fresh[r]
    /\ fresh' = [q \in Requests |-> FALSE]
    /\ UNCHANGED <<database, link, tokens, events, lock, pc, body, swept, granted>>

Owner(r) ==
    \/ CreateShareLink(r) \/ ReuseShareLink(r) \/ CreateTrackedLink(r)
    \/ CreateUploadLink(r) \/ InsertLink(r) \/ RegisterToken(r) \/ RegisterFails(r)
    \/ CreateCommit(r) \/ UpdateShareLink(r) \/ UpdateTrackedLink(r)
    \/ UpdateUploadLink(r) \/ UpdateRow(r) \/ UpdateFindsNothing(r)
    \/ UpdateCommit(r) \/ DeleteShareLink(r) \/ DeleteTrackedLink(r)
    \/ DeleteUploadLink(r) \/ SweepEvents(r) \/ DeleteRow(r) \/ DropToken(r)
    \/ DeleteCommit(r) \/ OwnerLocked(r)

Visitor(r) ==
    \/ Resolve(r) \/ OpenShareLink(r) \/ OpenTrackedLink(r) \/ OpenUploadLink(r)
    \/ Refuse(r) \/ TakeFile(r) \/ Stream(r) \/ Count(r) \/ CountFails(r)
    \/ RawNotCounted(r) \/ FinishVisit(r)

Next ==
    \/ \E r \in Requests : Reject(r) \/ Owner(r) \/ Visitor(r) \/ Abort(r)
    \/ OtherCommit

Spec == Init /\ [][Next]_vars
------------------------------------------------------------------------------
TypeOK ==
    /\ database \in Databases
    /\ link \in [Links -> [state : {"none", "live", "deleted"}, active : BOOLEAN,
                           limit : Limits, count : Nat]]
    /\ \A l \in Links : link[l].count <= Cardinality({v \in Visitors : v.link = l})
    /\ tokens \subseteq Links
    /\ events \subseteq Visitors
    /\ lock \in [Links -> Requests \cup {None}]
    /\ fresh \in [Requests -> BOOLEAN]
    /\ pc \in [Requests -> Points]
    /\ body \in [Requests -> Bodies]
    /\ swept \in [Requests -> SUBSET Visitors]
    /\ granted \subseteq Visitors

\* "Reuse an existing usable share link for the same target so that sharing
\* the same file/folder twice returns the same URL" (share.go:81-82): in SQLite
\* no request makes a link for a target that has a usable one, also when two
\* share it at once. In PostgreSQL both may find none, and both insert.
OneLinkPerTarget ==
    [][~Postgres =>
         \A l, m \in ShareLinks :
           link[l].state = "none" /\ link'[l].state = "live" => ~Usable(m)]_vars

\* A live link's counter is the number of visits it served, however visits,
\* updates and disconnects interleave: none is lost, none is counted twice.
CountExact ==
    \A l \in Links : link[l].state = "live" =>
        link[l].count = Cardinality({r \in granted : r.link = l /\ Limited(r)})

\* The registry and the tenant's rows are written without a common
\* transaction, and yet a live link is reachable, unless a delete of it has
\* dropped its token and not committed.
LiveLinkReachable ==
    \A l \in Links : link[l].state = "live" /\ l \notin tokens =>
        \E r \in Requests : /\ r.op = "delete" /\ r.link = l
                            /\ pc[r] \in {"unregistered", "aborted"}

\* DeleteTrackedLink "removes a tracked link, its events, and its registry
\* token": no visit in flight records an event for a link that is gone (in
\* SQLite, whose snapshots order the visit and the delete).
NoOrphanEvents == ~Postgres => \A v \in events : link[v.link].state = "live"

\* Every link keeps its promise (LinkPromise): it grants only while it is live,
\* active and below its limit at the moment of the grant, although the gate
\* was read earlier, in the presence of other visitors and of its owner.  (In
\* PostgreSQL, without the snapshot, a visitor overtakes an update.)
Promise(l) == INSTANCE LinkPromise WITH
    state <- link[l].state, active <- link[l].active, limit <- link[l].limit,
    granted <- {r \in granted : r.link = l /\ Limited(r)}
ImplementsLinkPromise ==
    /\ \A l \in Links : Promise(l)!Init
    /\ [][\A l \in Links : ~Postgres => [Promise(l)!Next]_(Promise(l)!vars)]_vars

\* "whenDownload additionally enforces the 'view' access restriction and
\* maxDownloads limit": when nobody changes a link, it serves at most its limit.
LimitHolds ==
    \A l \in Links : link[l].limit # NoLimit =>
        Cardinality({r \in granted : r.link = l}) <= link[l].limit
==============================================================================
