--------------------------- MODULE PublicLinksProofs ---------------------------
(***************************************************************************)
(* What holds of public links for any links, requests and limits.          *)
(***************************************************************************)
EXTENDS PublicLinks, FiniteSetTheorems, TLAPS

Row == [state : {"none", "live", "deleted"}, active : BOOLEAN, limit : Limits, count : Nat]

\* TypeOK without the bound of the counters, which CountBound implies.
LinkTypes ==
    /\ database \in Databases
    /\ link \in [Links -> Row]
    /\ tokens \subseteq Links
    /\ events \subseteq Visitors
    /\ lock \in [Links -> Requests \cup {None}]
    /\ fresh \in [Requests -> BOOLEAN]
    /\ pc \in [Requests -> Points]
    /\ body \in [Requests -> Bodies]
    /\ swept \in [Requests -> SUBSET Visitors]
    /\ granted \subseteq Visitors

Creating == {"creating", "inserted", "registered"}
Updating == {"updating", "updated"}
Deleting == {"sweeping", "deleting", "deleted", "unregistered"}
Visiting == {"open", "uploading", "streamed", "counted"}
Wrote == {"inserted", "registered", "updated", "deleted", "unregistered", "counted"}

\* A request is where its kind of request can be.
PointsFit ==
    \A r \in Requests :
        /\ pc[r] \in Creating => r.op = "create"
        /\ pc[r] \in Updating => r.op = "update"
        /\ pc[r] \in Deleting => r.op = "delete"
        /\ pc[r] \in Visiting \cup {"resolved"} => r \in Visitors
        /\ pc[r] = "streamed" => r.op = "raw"

\* Who wrote a link's row holds its lock; SQLite's lock is on everything and
\* its holder's snapshot is current.
LocksHeld ==
    /\ \A r \in Requests : pc[r] \in Wrote => lock[r.link] = r
    /\ ~Postgres => \A l \in Links, r \in Requests :
                        lock[l] = r => fresh[r] /\ \A m \in Links : lock[m] = r

\* A link is created once, with its token, and nothing happens to it before.
Lifecycle ==
    /\ \A r \in Requests :
          /\ r.op = "create" /\ pc[r] \in Creating \cup {"idle"} =>
                 link[r.link].state = "none"
          /\ pc[r] \in Updating \cup Deleting \cup Visiting => link[r.link].state # "none"
          /\ pc[r] = "registered" => r.link \in tokens
          /\ pc[r] \in {"inserted", "registered"} => body[r].active = TRUE
    /\ \A l \in Links :
          link[l].state = "none" => link[l].active = TRUE /\ link[l].count = 0
                                    /\ link[l].limit = NoLimit
    /\ \A r \in granted : link[r.link].state # "none"

\* SQLite: what a request has read holds as long as its snapshot is current.
SnapshotsTrue ==
    ~Postgres => \A r \in Requests : fresh[r] =>
        /\ pc[r] \in Creating /\ r.link \in ShareLinks =>
               \A m \in ShareLinks : ~Usable(m)
        /\ pc[r] \in Updating \cup Deleting => link[r.link].state = "live"
        /\ pc[r] \in Visiting => Usable(r.link)

\* SQLite: a delete of a tracked link has swept all its events.
SweptAll ==
    /\ \A v \in events : v.link \in TrackedLinks
    /\ ~Postgres => \A r \in Requests :
           r.link \in TrackedLinks /\ pc[r] \in Deleting \ {"sweeping"} =>
               lock[r.link] = r /\ swept[r] = {v \in events : v.link = r.link}

\* Visits in flight have been granted nothing, but for raw downloads.
GrantedLast == \A r \in granted : r.op = "raw" \/ pc[r] = "done"

\* A counter is at most the number of visits that were completed.
Completed(l) == {v \in Visitors : v.link = l /\ pc[v] = "done"}
CountBound == \A l \in Links : link[l].count <= Cardinality(Completed(l))

LinkInv ==
    /\ LinkTypes /\ PointsFit /\ LocksHeld /\ Lifecycle /\ SnapshotsTrue
    /\ SweptAll /\ GrantedLast /\ CountBound /\ NoOrphanEvents /\ LiveLinkReachable
------------------------------------------------------------------------------
(***************************************************************************)
(* The steps, by what they change.                                         *)
(***************************************************************************)
\* A request ends before or instead of its transaction.
Passes(r) ==
    /\ pc[r] = "idle"
    /\ \/ Goto(r, "failed")
       \/ Goto(r, "done") /\ r.op = "create"
       \/ Goto(r, "resolved") /\ r \in Visitors
    /\ UNCHANGED <<link, tokens, events, lock, fresh, body, swept, granted>>

\* A transaction takes its snapshot.
Begins(r) ==
    /\ \/ /\ pc[r] = "idle" /\ r.op = "create" /\ Goto(r, "creating")
          /\ r.link \in ShareLinks => \A l \in ShareLinks : ~Usable(l)
       \/ /\ pc[r] = "idle" /\ r.op = "update" /\ Goto(r, "updating")
          /\ link[r.link].state = "live"
       \/ /\ pc[r] = "idle" /\ r.op = "delete" /\ link[r.link].state = "live"
          /\ Goto(r, IF r.link \in TrackedLinks THEN "sweeping" ELSE "deleting")
       \/ pc[r] = "resolved" /\ Usable(r.link) /\ Goto(r, "open")
    /\ Snapshot(r)
    /\ UNCHANGED <<link, tokens, events, lock, body, swept, granted>>

\* A transaction is given up.
Ends(r) ==
    /\ pc[r] # "idle"
    /\ \/ Goto(r, "failed") /\ pc[r] \notin {"deleted", "unregistered"}
       \/ Goto(r, "aborted")
       \/ Goto(r, "done") /\ pc[r] = "streamed"
    /\ pc[r] \notin Ended
    /\ Rollback(r)
    /\ UNCHANGED <<link, tokens, events, body, swept, granted>>

\* A transaction writes.
Writes(r) ==
    InsertLink(r) \/ UpdateRow(r) \/ SweepEvents(r) \/ DeleteRow(r) \/ TakeFile(r) \/ Count(r)

\* A transaction commits.
Commits(r) == CreateCommit(r) \/ UpdateCommit(r) \/ DeleteCommit(r) \/ FinishVisit(r)

Acts(r) ==
    \/ Passes(r) \/ Begins(r) \/ Ends(r) \/ Writes(r) \/ Commits(r)
    \/ RegisterToken(r) \/ DropToken(r) \/ Stream(r)

LEMMA Steps ==
    ASSUME [Next]_vars
    PROVE  UNCHANGED vars \/ OtherCommit \/ \E r \in Requests : Acts(r)
<1>1. ASSUME NEW r \in Requests, Reject(r) \/ ReuseShareLink(r) \/ Resolve(r)
      PROVE  Passes(r)
  BY <1>1 DEF Reject, ReuseShareLink, Resolve, Passes
<1>2. ASSUME NEW r \in Requests,
             \/ CreateShareLink(r) \/ CreateTrackedLink(r) \/ CreateUploadLink(r)
             \/ UpdateShareLink(r) \/ UpdateTrackedLink(r) \/ UpdateUploadLink(r)
      PROVE  Begins(r)
  BY <1>2, LinksAssumption
  DEF CreateShareLink, CreateTrackedLink, CreateUploadLink, BeginCreate,
      UpdateShareLink, UpdateTrackedLink, UpdateUploadLink, BeginUpdate, Begins
<1>3. ASSUME NEW r \in Requests,
             DeleteShareLink(r) \/ DeleteTrackedLink(r) \/ DeleteUploadLink(r)
      PROVE  Begins(r)
  BY <1>3, LinksAssumption
  DEF DeleteShareLink, DeleteTrackedLink, DeleteUploadLink, BeginDelete, Begins
<1>4. ASSUME NEW r \in Requests, OpenShareLink(r) \/ OpenTrackedLink(r) \/ OpenUploadLink(r)
      PROVE  Begins(r)
  BY <1>4 DEF OpenShareLink, OpenTrackedLink, OpenUploadLink, Admit, Begins
<1>5. ASSUME NEW r \in Requests,
             \/ RegisterFails(r) \/ UpdateFindsNothing(r) \/ OwnerLocked(r) \/ Refuse(r)
             \/ CountFails(r) \/ RawNotCounted(r) \/ Abort(r)
      PROVE  Ends(r)
  BY <1>5
  DEF RegisterFails, UpdateFindsNothing, OwnerLocked, Refuse, CountFails, RawNotCounted, Abort,
      Fail, Ends, Ended
<1>6. QED
  BY <1>1, <1>2, <1>3, <1>4, <1>5 DEF Next, Owner, Visitor, Acts, Writes, Commits

\* The rows stay rows when a create or an update commits.
LEMMA RowWritten ==
    ASSUME NEW rows \in [Links -> Row], NEW l \in Links, NEW b \in Bodies
    PROVE  /\ [rows EXCEPT ![l].state = "live", ![l].active = b.active, ![l].limit = b.limit]
                  \in [Links -> Row]
           /\ [rows EXCEPT ![l].active = b.active, ![l].limit = b.limit] \in [Links -> Row]
<1>1. \A row \in Row :
         /\ [row EXCEPT !.state = "live", !.active = b.active, !.limit = b.limit] \in Row
         /\ [row EXCEPT !.active = b.active, !.limit = b.limit] \in Row
  BY DEF Row, Bodies
<1>2. QED
  BY <1>1

LEMMA TypesKept ==
    ASSUME LinkTypes, PointsFit, [Next]_vars
    PROVE  LinkTypes'
<1> USE LinksAssumption, RequestsAssumption
<1>1. ASSUME NEW r \in Requests, Passes(r) \/ Begins(r) \/ Ends(r)
      PROVE  LinkTypes'
  <2>1. CASE Passes(r)
    BY <2>1 DEF Passes, Goto, LinkTypes, Points
  <2>2. CASE Begins(r)
    BY <2>2 DEF Begins, Goto, Snapshot, LinkTypes, Points
  <2>3. CASE Ends(r)
    <3>1. /\ lock' \in [Links -> Requests \cup {None}]
          /\ fresh' \in [Requests -> BOOLEAN]
          /\ pc' \in [Requests -> Points]
      BY <2>3 DEF Ends, Goto, Rollback, Unlock, LinkTypes, Points
    <3>2. QED
      BY <2>3, <3>1 DEF Ends, Goto, LinkTypes
  <2>4. QED
    BY <1>1, <2>1, <2>2, <2>3
<1>2. ASSUME NEW r \in Requests, Writes(r) PROVE LinkTypes'
  <2>1. lock' \in [Links -> Requests \cup {None}]
    BY <1>2 DEF Writes, InsertLink, UpdateRow, SweepEvents, DeleteRow, TakeFile, Count, Lock,
       LinkTypes
  <2>2. body' \in [Requests -> Bodies] /\ swept' \in [Requests -> SUBSET Visitors]
    <3>1. CASE InsertLink(r)
      BY <3>1 DEF InsertLink, LinkTypes, Bodies
    <3>2. CASE UpdateRow(r)
      BY <3>2 DEF UpdateRow, LinkTypes
    <3>3. CASE SweepEvents(r)
      BY <3>3 DEF SweepEvents, LinkTypes
    <3>4. CASE DeleteRow(r) \/ TakeFile(r) \/ Count(r)
      BY <3>4 DEF DeleteRow, TakeFile, Count, LinkTypes
    <3>5. QED
      BY <1>2, <3>1, <3>2, <3>3, <3>4 DEF Writes
  <2>3. pc' \in [Requests -> Points]
    <3>1. \E p \in Points : pc' = [pc EXCEPT ![r] = p]
      BY <1>2 DEF Writes, InsertLink, UpdateRow, SweepEvents, DeleteRow, TakeFile, Count, Goto,
         Points
    <3>2. QED
      BY <3>1 DEF LinkTypes
  <2>4. UNCHANGED <<database, link, tokens, events, fresh, granted>>
    BY <1>2 DEF Writes, InsertLink, UpdateRow, SweepEvents, DeleteRow, TakeFile, Count, Goto
  <2>5. QED
    BY <2>1, <2>2, <2>3, <2>4 DEF LinkTypes
<1>3. ASSUME NEW r \in Requests, Commits(r) PROVE LinkTypes'
  <2>1. link' \in [Links -> Row]
    <3>0. r.link \in Links /\ body[r] \in Bodies /\ link \in [Links -> Row]
      BY RequestsAssumption DEF LinkTypes
    <3>1. CASE CreateCommit(r)
      BY <3>0, <3>1, RowWritten DEF CreateCommit
    <3>2. CASE UpdateCommit(r)
      BY <3>0, <3>2, RowWritten DEF UpdateCommit
    <3>3. CASE DeleteCommit(r)
      BY <3>0, <3>3 DEF DeleteCommit, Row
    <3>4. CASE FinishVisit(r)
      BY <3>0, <3>4 DEF FinishVisit, Row, Visited
    <3>5. QED
      BY <1>3, <3>1, <3>2, <3>3, <3>4 DEF Commits
  <2>2. events' \subseteq Visitors /\ granted' \subseteq Visitors
    BY <1>3 DEF Commits, CreateCommit, UpdateCommit, DeleteCommit, FinishVisit, LinkTypes,
       PointsFit, Visiting
  <2>3. lock' \in [Links -> Requests \cup {None}] /\ fresh' \in [Requests -> BOOLEAN]
    BY <1>3 DEF Commits, CreateCommit, UpdateCommit, DeleteCommit, FinishVisit, LinkTypes,
       Commit, Unlock
  <2>4. pc' \in [Requests -> Points] /\ UNCHANGED <<database, tokens, body, swept>>
    BY <1>3 DEF Commits, CreateCommit, UpdateCommit, DeleteCommit, FinishVisit, LinkTypes,
       Goto, Points
  <2>5. QED
    BY <2>1, <2>2, <2>3, <2>4 DEF LinkTypes
<1>4. ASSUME NEW r \in Requests, RegisterToken(r) \/ DropToken(r) PROVE LinkTypes'
  BY <1>4 DEF RegisterToken, DropToken, Goto, LinkTypes, Points
<1>5. ASSUME NEW r \in Requests, Stream(r) PROVE LinkTypes'
  BY <1>5 DEF Stream, Goto, LinkTypes, Points, PointsFit, Visiting
<1>6. CASE OtherCommit \/ UNCHANGED vars
  BY <1>6 DEF OtherCommit, vars, LinkTypes
<1>7. QED
  BY <1>1, <1>2, <1>3, <1>4, <1>5, <1>6, Steps DEF Acts

\* Every request stays where its kind can be.
LEMMA PointsKept ==
    ASSUME LinkTypes, PointsFit, [Next]_vars
    PROVE  PointsFit'
<1> USE DEF PointsFit, LinkTypes, Creating, Updating, Deleting, Visiting, Visitors, OwnerOps
<1>1. ASSUME NEW r \in Requests, Passes(r) \/ Begins(r) \/ Ends(r) PROVE PointsFit'
  BY <1>1 DEF Passes, Begins, Ends, Goto
<1>2. ASSUME NEW r \in Requests, Writes(r) PROVE PointsFit'
  BY <1>2 DEF Writes, InsertLink, UpdateRow, SweepEvents, DeleteRow, TakeFile, Count, Goto
<1>3. ASSUME NEW r \in Requests, Commits(r) PROVE PointsFit'
  BY <1>3 DEF Commits, CreateCommit, UpdateCommit, DeleteCommit, FinishVisit, Goto
<1>4. ASSUME NEW r \in Requests, RegisterToken(r) \/ DropToken(r) \/ Stream(r)
      PROVE  PointsFit'
  BY <1>4 DEF RegisterToken, DropToken, Stream, Goto
<1>5. CASE OtherCommit \/ UNCHANGED vars
  BY <1>5 DEF OtherCommit, vars
<1>6. QED
  BY <1>1, <1>2, <1>3, <1>4, <1>5, Steps DEF Acts

\* The locks stay with those who wrote.
LEMMA LocksKept ==
    ASSUME LinkTypes, LocksHeld, [Next]_vars
    PROVE  LocksHeld'
<1> USE RequestsAssumption DEF LocksHeld, LinkTypes, Wrote, Postgres
<1>1. ASSUME NEW r \in Requests, Passes(r) \/ Begins(r) PROVE LocksHeld'
  BY <1>1 DEF Passes, Begins, Goto, Snapshot
<1>2. ASSUME NEW r \in Requests, Ends(r) PROVE LocksHeld'
  BY <1>2 DEF Ends, Goto, Rollback, Unlock
<1>3. ASSUME NEW r \in Requests, Writes(r) PROVE LocksHeld'
  <2>1. CASE Postgres /\ lock' = lock
    BY <1>3, <2>1
    DEF Writes, InsertLink, UpdateRow, SweepEvents, DeleteRow, TakeFile, Count, Goto, CanWrite, Lock
  <2>2. CASE CanWrite(r) /\ Lock(r)
    <3>1. \A q \in Requests \ {r} : pc[q] \in Wrote => lock[q.link] = q
      OBVIOUS
    <3>2. UNCHANGED <<database, fresh>> /\ \A q \in Requests \ {r} : pc'[q] = pc[q]
      BY <1>3
      DEF Writes, InsertLink, UpdateRow, SweepEvents, DeleteRow, TakeFile, Count, Goto
    <3>3. QED
      BY <2>2, <3>1, <3>2 DEF CanWrite, Lock
  <2>3. QED
    BY <1>3, <2>1, <2>2
    DEF Writes, InsertLink, UpdateRow, SweepEvents, DeleteRow, TakeFile, Count, Goto, CanWrite, Lock
<1>4. ASSUME NEW r \in Requests, Commits(r) PROVE LocksHeld'
  <2>1. lock[r.link] = r /\ Commit(r) /\ Goto(r, "done")
    BY <1>4 DEF Commits, CreateCommit, UpdateCommit, DeleteCommit, FinishVisit
  <2>2. QED
    BY <2>1 DEF Commit, Unlock, Goto
<1>5. ASSUME NEW r \in Requests, RegisterToken(r) \/ DropToken(r) \/ Stream(r)
      PROVE  LocksHeld'
  BY <1>5 DEF RegisterToken, DropToken, Stream, Goto
<1>6. CASE OtherCommit \/ UNCHANGED vars
  BY <1>6 DEF OtherCommit, vars
<1>7. QED
  BY <1>1, <1>2, <1>3, <1>4, <1>5, <1>6, Steps DEF Acts

\* What a commit does to the rows.
LEMMA CommitForm ==
    ASSUME LinkTypes, NEW r \in Requests, Commits(r)
    PROVE  /\ lock[r.link] = r \/ ~LocksHeld
           /\ Commit(r) /\ Goto(r, "done") /\ UNCHANGED <<tokens, body, swept>>
           /\ \A l \in Links \ {r.link} : link'[l] = link[l]
           /\ CreateCommit(r) => /\ link'[r.link].state = "live"
                                 /\ link'[r.link].active = body[r].active
                                 /\ link'[r.link].limit = body[r].limit
                                 /\ link'[r.link].count = link[r.link].count
           /\ UpdateCommit(r) => /\ link'[r.link].state = link[r.link].state
                                 /\ link'[r.link].active = body[r].active
                                 /\ link'[r.link].limit = body[r].limit
                                 /\ link'[r.link].count = link[r.link].count
           /\ DeleteCommit(r) => /\ link'[r.link].state = "deleted"
                                 /\ link'[r.link].active = link[r.link].active
                                 /\ link'[r.link].limit = link[r.link].limit
                                 /\ link'[r.link].count = link[r.link].count
           /\ FinishVisit(r) => /\ link'[r.link].state = link[r.link].state
                                /\ link'[r.link].active = link[r.link].active
                                /\ link'[r.link].limit = link[r.link].limit
                                /\ link'[r.link].count =
                                      IF link[r.link].state = "live"
                                      THEN Visited(r, link[r.link].count)
                                      ELSE link[r.link].count
<1>1. r.link \in Links /\ link \in [Links -> Row]
  BY RequestsAssumption DEF LinkTypes
<1>2. /\ lock[r.link] = r \/ ~LocksHeld
      /\ Commit(r) /\ Goto(r, "done") /\ UNCHANGED <<tokens, body, swept>>
  BY DEF Commits, CreateCommit, UpdateCommit, DeleteCommit, FinishVisit, LocksHeld, Wrote
<1>3. CASE CreateCommit(r)
  BY <1>1, <1>2, <1>3 DEF CreateCommit, UpdateCommit, DeleteCommit, FinishVisit, Row
<1>4. CASE UpdateCommit(r)
  BY <1>1, <1>2, <1>4 DEF CreateCommit, UpdateCommit, DeleteCommit, FinishVisit, Row
<1>5. CASE DeleteCommit(r)
  BY <1>1, <1>2, <1>5 DEF CreateCommit, UpdateCommit, DeleteCommit, FinishVisit, Row
<1>6. CASE FinishVisit(r)
  BY <1>1, <1>2, <1>6 DEF CreateCommit, UpdateCommit, DeleteCommit, FinishVisit, Row
<1>7. QED
  BY <1>3, <1>4, <1>5, <1>6 DEF Commits

\* Links are created once, with their token.
LEMMA LifecycleKept ==
    ASSUME LinkTypes, PointsFit, LocksHeld, Lifecycle, [Next]_vars
    PROVE  Lifecycle'
<1> USE RequestsAssumption
    DEF PointsFit, Lifecycle, LinkTypes, Creating, Updating, Deleting, Visiting, Visitors, OwnerOps
<1>1. ASSUME NEW r \in Requests, Passes(r) \/ Begins(r) \/ Ends(r) PROVE Lifecycle'
  BY <1>1 DEF Passes, Begins, Ends, Goto, Usable, Ended
<1>2. ASSUME NEW r \in Requests, Writes(r) PROVE Lifecycle'
  BY <1>2 DEF Writes, InsertLink, UpdateRow, SweepEvents, DeleteRow, TakeFile, Count, Goto
<1>3. ASSUME NEW r \in Requests, Commits(r) PROVE Lifecycle'
  <2>1. CASE CreateCommit(r)
    <3>1. r.op = "create" /\ pc[r] = "registered" /\ r.link \in Links
      BY <2>1 DEF CreateCommit
    <3>2. UNCHANGED <<granted, tokens, body>> /\ pc' = [pc EXCEPT ![r] = "done"]
      BY <2>1 DEF CreateCommit, Goto
    <3>3. /\ link'[r.link].state = "live"
          /\ \A l \in Links \ {r.link} : link'[l] = link[l]
      BY <1>3, <2>1, CommitForm
    <3>4. \A q \in Requests \ {r} : q.op = "create" => q.link # r.link
      BY <3>1
    <3>5. QED
      BY <3>1, <3>2, <3>3, <3>4
  <2>2. CASE UpdateCommit(r)
    <3>1. /\ pc[r] = "updated" /\ pc' = [pc EXCEPT ![r] = "done"]
          /\ UNCHANGED <<tokens, body, granted>>
      BY <2>2 DEF UpdateCommit, Goto
    <3>2. /\ link'[r.link].state = link[r.link].state
          /\ \A l \in Links \ {r.link} : link'[l] = link[l]
      BY <1>3, <2>2, CommitForm
    <3>3. QED
      BY <3>1, <3>2
  <2>3. CASE DeleteCommit(r)
    <3>1. /\ pc[r] = "unregistered" /\ pc' = [pc EXCEPT ![r] = "done"]
          /\ UNCHANGED <<tokens, body, granted>>
      BY <2>3 DEF DeleteCommit, Goto
    <3>2. /\ link'[r.link].state = "deleted"
          /\ \A l \in Links \ {r.link} : link'[l] = link[l]
      BY <1>3, <2>3, CommitForm
    <3>3. QED
      BY <3>1, <3>2
  <2>4. CASE FinishVisit(r)
    <3>1. /\ pc[r] = "counted" /\ pc' = [pc EXCEPT ![r] = "done"]
          /\ UNCHANGED <<tokens, body>> /\ granted' = granted \cup {r}
      BY <2>4 DEF FinishVisit, Goto
    <3>2. /\ link'[r.link].state = link[r.link].state
          /\ \A l \in Links \ {r.link} : link'[l] = link[l]
      BY <1>3, <2>4, CommitForm
    <3>3. link[r.link].state # "none" /\ \A l \in Links : link'[l].state = link[l].state
      BY <3>1, <3>2
    <3>4. \A q \in Requests :
             /\ q.op = "create" /\ pc'[q] \in Creating \cup {"idle"} =>
                    link'[q.link].state = "none"
             /\ pc'[q] \in Updating \cup Deleting \cup Visiting => link'[q.link].state # "none"
             /\ pc'[q] = "registered" => q.link \in tokens'
             /\ pc'[q] \in {"inserted", "registered"} => body'[q].active = TRUE
      BY <3>1, <3>3
    <3>5. QED
      BY <3>1, <3>2, <3>3, <3>4
  <2>5. QED
    BY <1>3, <2>1, <2>2, <2>3, <2>4 DEF Commits
<1>4. ASSUME NEW r \in Requests, RegisterToken(r) \/ DropToken(r) \/ Stream(r)
      PROVE  Lifecycle'
  BY <1>4 DEF RegisterToken, DropToken, Stream, Goto
<1>5. CASE OtherCommit \/ UNCHANGED vars
  BY <1>5 DEF OtherCommit, vars
<1>6. QED
  BY <1>1, <1>2, <1>3, <1>4, <1>5, Steps DEF Acts

\* Every commit makes the other snapshots of SQLite stale.
LEMMA SnapshotsKept ==
    ASSUME LinkTypes, PointsFit, LocksHeld, SnapshotsTrue, [Next]_vars
    PROVE  SnapshotsTrue'
<1> USE DEF SnapshotsTrue, LinkTypes, Creating, Updating, Deleting, Visiting, Postgres, Usable,
            BelowLimit
<1>1. ASSUME NEW r \in Requests, Passes(r) \/ Begins(r) \/ Ends(r) PROVE SnapshotsTrue'
  BY <1>1 DEF Passes, Begins, Ends, Goto, Snapshot, Rollback, Ended
<1>2. ASSUME NEW r \in Requests, Writes(r) PROVE SnapshotsTrue'
  BY <1>2 DEF Writes, InsertLink, UpdateRow, SweepEvents, DeleteRow, TakeFile, Count, Goto
<1>3. ASSUME NEW r \in Requests, Commits(r) PROVE SnapshotsTrue'
  BY <1>3, CommitForm DEF Commit
<1>4. ASSUME NEW r \in Requests, RegisterToken(r) \/ DropToken(r) \/ Stream(r)
      PROVE  SnapshotsTrue'
  BY <1>4 DEF RegisterToken, DropToken, Stream, Goto
<1>5. CASE OtherCommit \/ UNCHANGED vars
  BY <1>5 DEF OtherCommit, vars
<1>6. QED
  BY <1>1, <1>2, <1>3, <1>4, <1>5, Steps DEF Acts

\* No event is added to a link while a delete of it holds SQLite's lock.
LEMMA SweptKept ==
    ASSUME LinkTypes, PointsFit, LocksHeld, SweptAll, [Next]_vars
    PROVE  SweptAll'
<1> USE RequestsAssumption DEF SweptAll, LinkTypes, Deleting, Postgres
<1>1. ASSUME NEW r \in Requests, Passes(r) \/ Begins(r) \/ Ends(r) PROVE SweptAll'
  BY <1>1 DEF Passes, Begins, Ends, Goto, Rollback, Unlock, Ended
<1>2. ASSUME NEW r \in Requests, Writes(r) PROVE SweptAll'
  <2>1. CASE SweepEvents(r)
    BY <2>1 DEF LocksHeld, SweepEvents, CanWrite, Goto
  <2>2. CASE DeleteRow(r)
    BY <2>2 DEF LocksHeld, DeleteRow, CanWrite, Goto, Lock
  <2>3. CASE InsertLink(r) \/ UpdateRow(r) \/ TakeFile(r) \/ Count(r)
    BY <2>3 DEF LocksHeld, InsertLink, UpdateRow, TakeFile, Count, CanWrite, Goto, Lock
  <2>4. QED
    BY <1>2, <2>1, <2>2, <2>3 DEF Writes
<1>3. ASSUME NEW r \in Requests, Commits(r) PROVE SweptAll'
  <2>1. \A v \in events' : v.link \in TrackedLinks
    BY <1>3 DEF Commits, CreateCommit, UpdateCommit, DeleteCommit, FinishVisit
  <2>2. ASSUME ~Postgres, NEW q \in Requests \ {r} PROVE lock[q.link] # q
    BY <1>3, <2>2, CommitForm DEF LocksHeld
  <2>3. pc' = [pc EXCEPT ![r] = "done"] /\ UNCHANGED database
    BY <1>3, CommitForm DEF Goto
  <2>4. QED
    BY <2>1, <2>2, <2>3
<1>4. ASSUME NEW r \in Requests, RegisterToken(r) \/ DropToken(r) \/ Stream(r)
      PROVE  SweptAll'
  BY <1>4 DEF RegisterToken, DropToken, Stream, Goto
<1>5. CASE OtherCommit \/ UNCHANGED vars
  BY <1>5 DEF OtherCommit, vars
<1>6. QED
  BY <1>1, <1>2, <1>3, <1>4, <1>5, Steps DEF Acts

\* A visit that has been granted and counted is over.
LEMMA GrantsKept ==
    ASSUME LinkTypes, PointsFit, GrantedLast, [Next]_vars
    PROVE  GrantedLast'
<1> USE DEF GrantedLast, LinkTypes, Visitors
<1>1. ASSUME NEW r \in Requests, Passes(r) \/ Begins(r) \/ Ends(r) PROVE GrantedLast'
  BY <1>1 DEF Passes, Begins, Ends, Goto, Ended
<1>2. ASSUME NEW r \in Requests, Writes(r) PROVE GrantedLast'
  BY <1>2 DEF Writes, InsertLink, UpdateRow, SweepEvents, DeleteRow, TakeFile, Count, Goto
<1>3. ASSUME NEW r \in Requests, Commits(r) PROVE GrantedLast'
  BY <1>3 DEF Commits, CreateCommit, UpdateCommit, DeleteCommit, FinishVisit, Goto
<1>4. ASSUME NEW r \in Requests, RegisterToken(r) \/ DropToken(r) \/ Stream(r)
      PROVE  GrantedLast'
  BY <1>4 DEF RegisterToken, DropToken, Stream, Goto
<1>5. CASE OtherCommit \/ UNCHANGED vars
  BY <1>5 DEF OtherCommit, vars
<1>6. QED
  BY <1>1, <1>2, <1>3, <1>4, <1>5, Steps DEF Acts

\* An event's link is live.
LEMMA EventsKept ==
    ASSUME LinkTypes, LocksHeld, SnapshotsTrue, SweptAll, NoOrphanEvents, [Next]_vars
    PROVE  NoOrphanEvents'
<1> USE RequestsAssumption DEF NoOrphanEvents, LinkTypes, Postgres
<1>1. ASSUME NEW r \in Requests, Passes(r) \/ Begins(r) \/ Ends(r) PROVE NoOrphanEvents'
  BY <1>1 DEF Passes, Begins, Ends, Goto
<1>2. ASSUME NEW r \in Requests, Writes(r) PROVE NoOrphanEvents'
  BY <1>2 DEF Writes, InsertLink, UpdateRow, SweepEvents, DeleteRow, TakeFile, Count, Goto
<1>3. ASSUME NEW r \in Requests, Commits(r) PROVE NoOrphanEvents'
  <2>1. CASE CreateCommit(r)
    <3>1. /\ link'[r.link].state = "live" /\ UNCHANGED <<database, events>>
          /\ \A l \in Links \ {r.link} : link'[l] = link[l]
      BY <1>3, <2>1, CommitForm DEF CreateCommit, Goto
    <3>2. \A v \in events : v.link \in Links
      BY DEF Visitors
    <3>3. QED
      BY <3>1, <3>2
  <2>2. CASE UpdateCommit(r)
    <3>1. UNCHANGED <<database, events>> /\ \A v \in events : v.link \in Links
      BY <2>2 DEF UpdateCommit, Goto, Visitors
    <3>2. \A l \in Links : link'[l].state = link[l].state
      BY <1>3, <2>2, CommitForm
    <3>3. QED
      BY <3>1, <3>2
  <2>3. CASE DeleteCommit(r)
    <3>1. ASSUME ~Postgres, NEW v \in events' PROVE v \in events /\ v.link # r.link
      BY <2>3, <3>1 DEF DeleteCommit, SweptAll, Deleting
    <3>2. \A l \in Links \ {r.link} : link'[l] = link[l]
      BY <1>3, CommitForm
    <3>3. database' = database /\ \A v \in events : v.link \in Links
      BY <2>3 DEF DeleteCommit, Goto, Visitors
    <3>4. QED
      BY <3>1, <3>2, <3>3
  <2>4. CASE FinishVisit(r)
    <3>1. ~Postgres => link[r.link].state = "live"
      BY <2>4 DEF FinishVisit, LocksHeld, Wrote, SnapshotsTrue, Visiting, Usable
    <3>2. \A l \in Links : link'[l].state = link[l].state
      BY <1>3, <2>4, CommitForm
    <3>3. /\ database' = database /\ \A v \in events \cup {r} : v.link \in Links
          /\ events' \subseteq events \cup {r}
      BY <2>4 DEF FinishVisit, Goto, Visitors
    <3>4. QED
      BY <3>1, <3>2, <3>3
  <2>5. QED
    BY <1>3, <2>1, <2>2, <2>3, <2>4 DEF Commits
<1>4. ASSUME NEW r \in Requests, RegisterToken(r) \/ DropToken(r) \/ Stream(r)
      PROVE  NoOrphanEvents'
  BY <1>4 DEF RegisterToken, DropToken, Stream, Goto
<1>5. CASE OtherCommit \/ UNCHANGED vars
  BY <1>5 DEF OtherCommit, vars
<1>6. QED
  BY <1>1, <1>2, <1>3, <1>4, <1>5, Steps DEF Acts

\* Who loses a live link its token is a delete that has not committed.
LEMMA ReachableKept ==
    ASSUME LinkTypes, PointsFit, Lifecycle, LiveLinkReachable, [Next]_vars
    PROVE  LiveLinkReachable'
<1> USE RequestsAssumption DEF LiveLinkReachable, LinkTypes
<1>1. ASSUME NEW r \in Requests, Passes(r) \/ Begins(r) \/ Ends(r) PROVE LiveLinkReachable'
  BY <1>1 DEF Passes, Begins, Ends, Goto, Ended
<1>2. ASSUME NEW r \in Requests, Writes(r) PROVE LiveLinkReachable'
  BY <1>2 DEF Writes, InsertLink, UpdateRow, SweepEvents, DeleteRow, TakeFile, Count, Goto
<1>3. ASSUME NEW r \in Requests, Commits(r) PROVE LiveLinkReachable'
  <2>1. CASE CreateCommit(r)
    <3>1. /\ pc[r] = "registered" /\ pc' = [pc EXCEPT ![r] = "done"] /\ UNCHANGED tokens
          /\ \A l \in Links \ {r.link} : link'[l] = link[l]
      BY <1>3, <2>1, CommitForm DEF CreateCommit, Goto
    <3>2. r.link \in tokens
      BY <3>1 DEF Lifecycle
    <3>3. QED
      BY <3>1, <3>2
  <2>2. CASE UpdateCommit(r)
    <3>1. /\ pc[r] = "updated" /\ pc' = [pc EXCEPT ![r] = "done"]
          /\ UNCHANGED <<tokens, body, granted>>
      BY <2>2 DEF UpdateCommit, Goto
    <3>2. /\ link'[r.link].state = link[r.link].state
          /\ \A l \in Links \ {r.link} : link'[l] = link[l]
      BY <1>3, <2>2, CommitForm
    <3>3. QED
      BY <3>1, <3>2
  <2>3. CASE DeleteCommit(r)
    <3>1. /\ pc[r] = "unregistered" /\ pc' = [pc EXCEPT ![r] = "done"]
          /\ UNCHANGED <<tokens, body, granted>>
      BY <2>3 DEF DeleteCommit, Goto
    <3>2. /\ link'[r.link].state = "deleted"
          /\ \A l \in Links \ {r.link} : link'[l] = link[l]
      BY <1>3, <2>3, CommitForm
    <3>3. QED
      BY <3>1, <3>2
  <2>4. CASE FinishVisit(r)
    <3>1. /\ pc[r] = "counted" /\ pc' = [pc EXCEPT ![r] = "done"]
          /\ UNCHANGED <<tokens, body>> /\ granted' = granted \cup {r}
      BY <2>4 DEF FinishVisit, Goto
    <3>2. /\ link'[r.link].state = link[r.link].state
          /\ \A l \in Links \ {r.link} : link'[l] = link[l]
      BY <1>3, <2>4, CommitForm
    <3>3. QED
      BY <3>1, <3>2
  <2>5. QED
    BY <1>3, <2>1, <2>2, <2>3, <2>4 DEF Commits
<1>4. ASSUME NEW r \in Requests, RegisterToken(r) \/ Stream(r) PROVE LiveLinkReachable'
  BY <1>4 DEF RegisterToken, Stream, Goto
<1>5. ASSUME NEW r \in Requests, DropToken(r) PROVE LiveLinkReachable'
  BY <1>5 DEF DropToken, Goto, PointsFit, Deleting
<1>6. CASE OtherCommit \/ UNCHANGED vars
  BY <1>6 DEF OtherCommit, vars
<1>7. QED
  BY <1>1, <1>2, <1>3, <1>4, <1>5, <1>6, Steps DEF Acts

LEMMA VisitsFinite ==
    ASSUME NEW S \in SUBSET Visitors PROVE IsFiniteSet(S)
  BY RequestsAssumption, FS_Subset DEF Visitors

\* A counter goes up with the visit that completes.
LEMMA BoundKept ==
    ASSUME LinkTypes, PointsFit, CountBound, [Next]_vars
    PROVE  CountBound'
<1> USE RequestsAssumption
<1>1. SUFFICES ASSUME NEW l \in Links PROVE link'[l].count <= Cardinality(Completed(l)')
  BY DEF CountBound
<1>2. /\ Cardinality(Completed(l)) \in Nat /\ Cardinality(Completed(l)') \in Nat
      /\ link[l].count \in Nat /\ link[l].count <= Cardinality(Completed(l))
  <2>1. IsFiniteSet(Completed(l)) /\ IsFiniteSet(Completed(l)')
    BY VisitsFinite DEF Completed
  <2>2. QED
    BY <2>1, FS_CardinalityType DEF CountBound, LinkTypes, Row
<1>3. ASSUME Completed(l) \subseteq Completed(l)', link'[l].count = link[l].count
      PROVE  link'[l].count <= Cardinality(Completed(l)')
  BY <1>2, <1>3, VisitsFinite, FS_Subset DEF Completed
<1>4. ASSUME NEW r \in Requests, Passes(r) \/ Begins(r) \/ Ends(r)
      PROVE  Completed(l) \subseteq Completed(l)' /\ UNCHANGED link
  BY <1>4 DEF Passes, Begins, Ends, Goto, Completed, LinkTypes, Ended, Visitors
<1>5. ASSUME NEW r \in Requests, Writes(r)
      PROVE  Completed(l) \subseteq Completed(l)' /\ UNCHANGED link
  BY <1>5 DEF Writes, InsertLink, UpdateRow, SweepEvents, DeleteRow, TakeFile, Count, Goto,
     Completed, LinkTypes, Visitors
<1>6. ASSUME NEW r \in Requests, RegisterToken(r) \/ DropToken(r) \/ Stream(r)
      PROVE  Completed(l) \subseteq Completed(l)' /\ UNCHANGED link
  BY <1>6 DEF RegisterToken, DropToken, Stream, Goto, Completed, LinkTypes, Visitors
<1>7. ASSUME NEW r \in Requests, Commits(r)
      PROVE  link'[l].count <= Cardinality(Completed(l)')
  <2>1. Completed(l) \subseteq Completed(l)'
    BY <1>7, CommitForm DEF Goto, Completed, LinkTypes, Visitors
  <2>2. CASE ~FinishVisit(r) \/ l # r.link
    BY <1>3, <1>7, <2>1, <2>2, CommitForm DEF Commits
  <2>3. CASE FinishVisit(r) /\ l = r.link
    <3>1. link'[l].count <= link[l].count + 1
      BY <1>2, <1>7, <2>3, CommitForm DEF Visited
    <3>2. /\ r \in Visitors /\ pc[r] = "counted"
          /\ pc' = [pc EXCEPT ![r] = "done"]
      BY <2>3 DEF FinishVisit, Goto, PointsFit, Visiting
    <3>3. Completed(l)' = Completed(l) \cup {r} /\ r \notin Completed(l)
      BY <2>3, <3>2 DEF Completed, LinkTypes, Visitors
    <3>4. IsFiniteSet(Completed(l))
      BY VisitsFinite DEF Completed
    <3>5. Cardinality(Completed(l)') = Cardinality(Completed(l)) + 1
      BY <3>3, <3>4, FS_AddElement
    <3>6. link'[l].count \in Nat
      BY <1>2, <1>7, <2>3, CommitForm DEF Visited
    <3>7. QED
      BY <1>2, <3>1, <3>5, <3>6
  <2>4. QED
    BY <2>2, <2>3
<1>8. CASE OtherCommit \/ UNCHANGED vars
  BY <1>3, <1>8 DEF OtherCommit, vars, Completed
<1>9. QED
  BY <1>3, <1>4, <1>5, <1>6, <1>7, <1>8, Steps DEF Acts
------------------------------------------------------------------------------
LEMMA LinkInvInit == Init => LinkInv
<1> SUFFICES ASSUME Init PROVE LinkInv
  OBVIOUS
<1> USE LinksAssumption, RequestsAssumption DEF Init
<1>1. LinkTypes
  BY DEF LinkTypes, Row, Points, Bodies
<1>2. PointsFit /\ LocksHeld /\ Lifecycle
  BY DEF PointsFit, LocksHeld, Lifecycle, Creating, Updating, Deleting, Visiting, Wrote
<1>3. SnapshotsTrue /\ SweptAll /\ GrantedLast /\ NoOrphanEvents /\ LiveLinkReachable
  BY DEF SnapshotsTrue, SweptAll, GrantedLast, NoOrphanEvents, LiveLinkReachable, Deleting
<1>4. CountBound
  <2>1. \A l \in Links : Cardinality(Completed(l)) \in Nat
    BY VisitsFinite, FS_CardinalityType DEF Completed
  <2>2. QED
    BY <2>1 DEF CountBound
<1>5. QED
  BY <1>1, <1>2, <1>3, <1>4 DEF LinkInv

LEMMA LinkInvNext == LinkInv /\ [Next]_vars => LinkInv'
  BY TypesKept, PointsKept, LocksKept, LifecycleKept, SnapshotsKept, SweptKept, GrantsKept,
     BoundKept, EventsKept, ReachableKept
  DEF LinkInv

LEMMA LinkInvAlways == Spec => []LinkInv
  BY LinkInvInit, LinkInvNext, PTL DEF Spec

\* Links, tokens, events, locks and requests keep their types, and no link's
\* counter exceeds the number of its visitors, in both databases.
THEOREM LinksTyped == Spec => []TypeOK
<1>1. LinkInv => TypeOK
  <2>1. SUFFICES ASSUME LinkInv PROVE TypeOK
    OBVIOUS
  <2>2. ASSUME NEW l \in Links
        PROVE  link[l].count <= Cardinality({v \in Visitors : v.link = l})
    <3>1. Completed(l) \subseteq {v \in Visitors : v.link = l}
      BY DEF Completed
    <3>2. IsFiniteSet({v \in Visitors : v.link = l}) /\ IsFiniteSet(Completed(l))
      BY VisitsFinite DEF Completed
    <3>3. Cardinality(Completed(l)) <= Cardinality({v \in Visitors : v.link = l})
      BY <3>1, <3>2, FS_Subset
    <3>4. /\ Cardinality(Completed(l)) \in Nat
          /\ Cardinality({v \in Visitors : v.link = l}) \in Nat
      BY <3>2, FS_CardinalityType
    <3>5. link[l].count \in Nat /\ link[l].count <= Cardinality(Completed(l))
      BY <2>1 DEF LinkInv, LinkTypes, Row, CountBound
    <3>6. QED
      BY <3>3, <3>4, <3>5
  <2>3. QED
    BY <2>1, <2>2 DEF LinkInv, LinkTypes, Row, TypeOK
<1>2. QED
  BY <1>1, LinkInvAlways, PTL

\* The registry and the rows are written without a common transaction, and a
\* live link is still reachable unless a delete of it has not committed.
THEOREM LinksReachable == Spec => []LiveLinkReachable
<1>1. LinkInv => LiveLinkReachable
  BY DEF LinkInv
<1>2. QED
  BY <1>1, LinkInvAlways, PTL

\* A deleted tracked link leaves no events, whatever visits were in flight.
THEOREM EventsHaveLinks == Spec => []NoOrphanEvents
<1>1. LinkInv => NoOrphanEvents
  BY DEF LinkInv
<1>2. QED
  BY <1>1, LinkInvAlways, PTL

\* Sharing a target twice in SQLite gives one usable link: no snapshot that shows
\* no usable link survives the commit of one.
THEOREM OneLink == Spec => OneLinkPerTarget
<1> DEFINE Step == ~Postgres =>
              \A l, m \in ShareLinks :
                link[l].state = "none" /\ link'[l].state = "live" => ~Usable(m)
<1>1. LinkInv /\ [Next]_vars => [Step]_vars
  <2>1. SUFFICES ASSUME LinkInv, [Next]_vars, ~Postgres,
                        NEW l \in ShareLinks, NEW m \in ShareLinks,
                        link[l].state = "none", link'[l].state = "live"
                 PROVE  ~Usable(m)
    BY DEF Step
  <2>2. l \in Links /\ ~Postgres
    BY <2>1 DEF Links
  <2>3. PICK r \in Requests : CreateCommit(r) /\ r.link = l
    <3>1. ~(OtherCommit \/ UNCHANGED vars)
      BY <2>1 DEF OtherCommit, vars
    <3>2. PICK r \in Requests : Acts(r)
      BY <2>1, <3>1, Steps
    <3>3. Commits(r)
      BY <2>1, <3>2 DEF Acts, Passes, Begins, Ends, Writes, InsertLink, UpdateRow, SweepEvents,
         DeleteRow, TakeFile, Count, RegisterToken, DropToken, Stream
    <3>4. r.link = l /\ CreateCommit(r)
      BY <2>1, <2>2, <3>3, CommitForm DEF Commits, LinkInv
    <3>5. QED
      BY <3>4
  <2>4. fresh[r] /\ pc[r] = "registered" /\ r.link \in ShareLinks
    BY <2>1, <2>2, <2>3 DEF CreateCommit, LinkInv, LocksHeld, Wrote
  <2>5. QED
    BY <2>1, <2>2, <2>4 DEF LinkInv, SnapshotsTrue, Creating
<1>2. QED
  BY <1>1, LinkInvAlways, PTL DEF Spec, OneLinkPerTarget
------------------------------------------------------------------------------
(***************************************************************************)
(* Counting.  A share link's raw download is the one visit that is granted *)
(* before it is counted; without it the counters are exact and every link  *)
(* keeps its promise.                                                      *)
(***************************************************************************)
NoRawShare == \A r \in Requests : r.op = "raw" => r.link \in TrackedLinks

Served(l) == {r \in granted : r.link = l /\ Limited(r)}

LEMMA ServedSteps ==
    ASSUME NoRawShare, LinkInv, [Next]_vars, NEW l \in Links
    PROVE  \/ Served(l)' = Served(l) /\ UNCHANGED link
           \/ \E r \in Requests :
                 /\ Commits(r)
                 /\ \/ Served(l)' = Served(l)
                    \/ FinishVisit(r) /\ r.link = l
                 /\ FinishVisit(r) => /\ pc[r] = "counted" /\ r \in Visitors
                                      /\ Limited(r) => r \notin granted
<1> USE DEF LinkInv, LinkTypes, Served, Limited
<1>1. ASSUME NEW r \in Requests, Passes(r) \/ Begins(r) \/ Ends(r) \/ Writes(r)
      PROVE  Served(l)' = Served(l) /\ UNCHANGED link
  BY <1>1 DEF Passes, Begins, Ends, Writes, InsertLink, UpdateRow, SweepEvents, DeleteRow,
     TakeFile, Count
<1>2. ASSUME NEW r \in Requests, RegisterToken(r) \/ DropToken(r)
      PROVE  Served(l)' = Served(l) /\ UNCHANGED link
  BY <1>2 DEF RegisterToken, DropToken
<1>3. ASSUME NEW r \in Requests, Stream(r)
      PROVE  Served(l)' = Served(l) /\ UNCHANGED link
  BY <1>3 DEF Stream, NoRawShare
<1>4. ASSUME NEW r \in Requests, Commits(r)
      PROVE  /\ Served(l)' = Served(l) \/ (FinishVisit(r) /\ r.link = l)
             /\ FinishVisit(r) => /\ pc[r] = "counted" /\ r \in Visitors
                                  /\ Limited(r) => r \notin granted
  <2>1. CASE FinishVisit(r)
    <3>1. pc[r] = "counted" /\ r \in Visitors
      BY <2>1 DEF FinishVisit, PointsFit, Visiting
    <3>2. Limited(r) => r.op # "raw"
      BY DEF NoRawShare
    <3>3. Limited(r) => r \notin granted
      BY <3>1, <3>2 DEF GrantedLast
    <3>4. r.link # l => Served(l)' = Served(l)
      BY <2>1 DEF FinishVisit
    <3>5. QED
      BY <2>1, <3>1, <3>3, <3>4
  <2>2. CASE CreateCommit(r) \/ UpdateCommit(r) \/ DeleteCommit(r)
    <3>1. UNCHANGED granted /\ pc[r] \in {"registered", "updated", "unregistered"}
      BY <2>2 DEF CreateCommit, UpdateCommit, DeleteCommit
    <3>2. QED
      BY <3>1 DEF FinishVisit
  <2>3. QED
    BY <1>4, <2>1, <2>2 DEF Commits
<1>5. CASE OtherCommit \/ UNCHANGED vars
  BY <1>5 DEF OtherCommit, vars
<1>6. QED
  BY <1>1, <1>2, <1>3, <1>4, <1>5, Steps DEF Acts

LEMMA CountKept ==
    ASSUME NoRawShare, LinkInv, CountExact, [Next]_vars
    PROVE  CountExact'
<1>1. SUFFICES ASSUME NEW l \in Links, link'[l].state = "live"
               PROVE  link'[l].count = Cardinality(Served(l)')
  BY DEF CountExact, Served, Limited
<1>2. link[l].state = "live" => link[l].count = Cardinality(Served(l))
  BY DEF CountExact, Served
<1>3. CASE Served(l)' = Served(l) /\ UNCHANGED link
  BY <1>1, <1>2, <1>3
<1>4. ASSUME NEW r \in Requests, Commits(r),
             Served(l)' = Served(l) \/ (FinishVisit(r) /\ r.link = l),
             FinishVisit(r) => /\ pc[r] = "counted" /\ r \in Visitors
                               /\ Limited(r) => r \notin granted
      PROVE  link'[l].count = Cardinality(Served(l)')
  <2>1. CASE FinishVisit(r) /\ r.link = l
    <3>1. link[l].state = "live" /\ link'[l].count = Visited(r, link[l].count)
      BY <1>1, <1>4, <2>1, CommitForm DEF LinkInv
    <3>2. CASE Limited(r)
      <4>1. Served(l)' = Served(l) \cup {r} /\ r \notin Served(l)
        BY <1>4, <2>1, <3>2 DEF FinishVisit, Served, Limited
      <4>2. IsFiniteSet(Served(l))
        BY VisitsFinite DEF Served, LinkInv, LinkTypes
      <4>3. Cardinality(Served(l)') = Cardinality(Served(l)) + 1
        BY <4>1, <4>2, FS_AddElement
      <4>4. QED
        BY <1>2, <3>1, <3>2, <4>3 DEF Visited
    <3>3. CASE ~Limited(r)
      <4>1. Served(l)' = Served(l)
        BY <2>1, <3>3 DEF FinishVisit, Served, Limited
      <4>2. QED
        BY <1>2, <3>1, <3>3, <4>1 DEF Visited
    <3>4. QED
      BY <3>2, <3>3
  <2>2. CASE CreateCommit(r) /\ r.link = l
    <3>1. link[l].state = "none" /\ link[l].count = 0 /\ Served(l) = {}
      BY <2>2 DEF CreateCommit, LinkInv, Lifecycle, PointsFit, Creating, Served
    <3>2. Served(l)' = {} /\ link'[l].count = 0
      <4>1. link'[l].count = 0
        BY <1>4, <2>2, <3>1, CommitForm DEF LinkInv
      <4>2. granted' = granted
        BY <2>2 DEF CreateCommit
      <4>3. QED
        BY <3>1, <4>1, <4>2 DEF Served
    <3>3. QED
      BY <3>2, FS_EmptySet
  <2>3. CASE ~(FinishVisit(r) /\ r.link = l) /\ ~(CreateCommit(r) /\ r.link = l)
    <3>1. link[l].state = "live" /\ link'[l].count = link[l].count
      BY <1>1, <1>4, <2>3, CommitForm DEF LinkInv, Commits
    <3>2. QED
      BY <1>2, <1>4, <2>3, <3>1
  <2>4. QED
    BY <2>1, <2>2, <2>3
<1>5. QED
  BY <1>3, <1>4, ServedSteps

\* A live link's counter is the number of limited visits it served.
THEOREM CountersExact ==
    ASSUME NoRawShare
    PROVE  Spec => []CountExact
<1>1. Init => CountExact
  BY DEF Init, CountExact
<1>2. LinkInv /\ CountExact /\ [Next]_vars => CountExact'
  BY CountKept
<1>3. QED
  BY <1>1, <1>2, LinkInvAlways, PTL DEF Spec

\* In SQLite every link keeps its promise: a grant finds the link live, active
\* and below its limit at the moment it counts.
THEOREM PromiseKept ==
    ASSUME NoRawShare
    PROVE  Spec => ImplementsLinkPromise
<1> DEFINE Step == \A l \in Links : ~Postgres => [Promise(l)!Next]_(Promise(l)!vars)
<1>1. Init => \A l \in Links : Promise(l)!Init
  BY DEF Init, Promise!Init
<1>2. LinkInv /\ CountExact /\ [Next]_vars => [Step]_vars
  <2>1. SUFFICES ASSUME LinkInv, CountExact, [Next]_vars, NEW l \in Links, ~Postgres
                 PROVE  [Promise(l)!Next]_(Promise(l)!vars)
    BY DEF Step
  <2>2. CASE Served(l)' = Served(l) /\ UNCHANGED link
    BY <2>2 DEF Promise!vars, Served
  <2>3. ASSUME NEW r \in Requests, Commits(r),
               Served(l)' = Served(l) \/ (FinishVisit(r) /\ r.link = l),
               FinishVisit(r) => pc[r] = "counted" /\ r \in Visitors
        PROVE  [Promise(l)!Next]_(Promise(l)!vars)
    <3>1. CASE r.link # l
      <4>1. link'[l] = link[l] /\ Served(l)' = Served(l)
        BY <2>1, <2>3, <3>1, CommitForm DEF LinkInv
      <4>2. QED
        BY <4>1 DEF Promise!vars, Served
    <3>2. CASE FinishVisit(r) /\ r.link = l
      <4>1. Usable(l)
        BY <2>1, <2>3, <3>2
        DEF LinkInv, LinkTypes, LocksHeld, Wrote, SnapshotsTrue, Visiting
      <4>2. /\ link'[l].state = link[l].state /\ link'[l].active = link[l].active
            /\ link'[l].limit = link[l].limit
        BY <2>1, <2>3, <3>2, CommitForm DEF LinkInv
      <4>3. CASE Limited(r)
        <5>1. Served(l)' = Served(l) \cup {r}
          BY <3>2, <4>3 DEF FinishVisit, Served, Limited
        <5>2. link[l].state = "live" => link[l].count = Cardinality(Served(l))
          BY <2>1 DEF CountExact, Served
        <5>3. Promise(l)!Cardinality(Served(l)) = Cardinality(Served(l))
          BY DEF Promise!Cardinality, Cardinality
        <5>4. Promise(l)!Grant(r)
          BY <4>1, <4>2, <5>1, <5>2, <5>3 DEF Promise!Grant, Usable, BelowLimit, Served
        <5>5. QED
          BY <2>3, <3>2, <5>4 DEF Promise!Next
      <4>4. CASE ~Limited(r)
        <5>1. Served(l)' = Served(l)
          BY <3>2, <4>4 DEF FinishVisit, Served, Limited
        <5>2. QED
          BY <4>2, <5>1 DEF Promise!vars, Served
      <4>5. QED
        BY <4>3, <4>4
    <3>3. CASE CreateCommit(r) /\ r.link = l
      <4>1. /\ link[l].state = "none" /\ link[l].active = TRUE /\ body[r].active = TRUE
            /\ body[r].limit \in Limits
        BY <2>1, <3>3
        DEF CreateCommit, LinkInv, LinkTypes, Bodies, Lifecycle, PointsFit, Creating
      <4>2. /\ link'[l].state = "live" /\ link'[l].active = body[r].active
            /\ link'[l].limit = body[r].limit /\ Served(l)' = Served(l)
        <5>1. Served(l)' = Served(l)
          BY <2>3, <3>3 DEF CreateCommit
        <5>2. QED
          BY <2>1, <2>3, <3>3, <5>1, CommitForm DEF LinkInv
      <4>3. QED
        BY <4>1, <4>2 DEF Promise!Next, Promise!Create, Served
    <3>4. CASE UpdateCommit(r) /\ r.link = l
      <4>1. link[l].state = "live" /\ body[r] \in Bodies
        BY <2>1, <3>4
        DEF UpdateCommit, LinkInv, LinkTypes, LocksHeld, Wrote, SnapshotsTrue, Updating
      <4>2. /\ link'[l].state = link[l].state /\ link'[l].active = body[r].active
            /\ link'[l].limit = body[r].limit /\ Served(l)' = Served(l)
        <5>1. Served(l)' = Served(l)
          BY <2>3, <3>4 DEF UpdateCommit
        <5>2. QED
          BY <2>1, <2>3, <3>4, <5>1, CommitForm DEF LinkInv
      <4>3. QED
        BY <4>1, <4>2 DEF Promise!Next, Promise!Configure, Served, Bodies
    <3>5. CASE DeleteCommit(r) /\ r.link = l
      <4>1. link[l].state = "live"
        BY <2>1, <3>5
        DEF DeleteCommit, LinkInv, LinkTypes, LocksHeld, Wrote, SnapshotsTrue, Deleting
      <4>2. /\ link'[l].state = "deleted" /\ link'[l].active = link[l].active
            /\ link'[l].limit = link[l].limit /\ Served(l)' = Served(l)
        <5>1. Served(l)' = Served(l)
          BY <2>3, <3>5 DEF DeleteCommit
        <5>2. QED
          BY <2>1, <2>3, <3>5, <5>1, CommitForm DEF LinkInv
      <4>3. QED
        BY <4>1, <4>2 DEF Promise!Next, Promise!Delete, Served
    <3>6. QED
      BY <2>3, <3>1, <3>2, <3>3, <3>4, <3>5 DEF Commits
  <2>4. QED
    BY <2>1, <2>2, <2>3, ServedSteps
<1>3. QED
  BY <1>1, <1>2, CountersExact, LinkInvAlways, PTL DEF Spec, ImplementsLinkPromise
==============================================================================
