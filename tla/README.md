# go-drive: TLA+ models, model checking and proofs

go-drive is a multi-tenant file server: a Go backend (gin, bun; `server/`) in
front of pluggable storage back ends (local disk, S3, Google Drive, OneDrive),
an S3-compatible gateway, public links, webhooks and a React frontend (`web/`).
Metadata live in SQLite (one database file per tenant) or in PostgreSQL (one
schema per tenant). This directory holds TLA+ models of the backend's core and
of the frontend's state, the TLC configurations that check them, and proofs that
TLAPS checks.

Paths below are relative to the repository; `internal/` is short for
`server/internal/`, and `web/` for `web/src/`.

    tlc -workers 2 -config FileRecords_writers.cfg MCFileRecords.tla
    tlapm FileRecordsProofs.tla

`PROJECT.json` lists the components, the runs, for every checked property a
mutant of the code that breaks it, the source lines behind every definition,
the findings, the hazards and the theorems.

## 1. Inventory

| Component | State | Operations | Correct when |
|---|---|---|---|
| **File-record layer** `internal/store/file_records.go` | tables `files`, `file_blobs`, `blob_locations` of a tenant | CreatePendingFileUpload, MarkFileUploadReady, DeleteBlobEverywhere, DeleteFileEverywhere | the three tables agree; an object key is owned once; a failed request shows nothing |
| **Dashboard upload** `internal/handler/upload.go` | up to 3 attempts per file, two short transactions around storage I/O | UploadFile, uploadOne, uploadOneAttempt | every accepted upload is answered; a retry leaves nothing behind that blocks it |
| **File handlers** `internal/handler/file.go`, `internal/store/explorer.go` | request transaction | delete, batch delete, folder delete; rename, move | bytes and rows disappear together; a move leaves every location valid |
| **S3 gateway** `internal/handler/s3gateway.go`, `s3multipart.go` | its own transaction per request; multipart tables | PUT, GET, DELETE, ListObjectsV2, multipart | as the dashboard upload; a listing pages through every key once |
| **Tenant transactions and pool** `internal/middleware/tenant.go`, `internal/tenant/*.go` | cached database per tenant, bounded pool, one write lock | begin, commit or roll back by status | no leak, no starvation, nobody waits for ever |
| **Storage providers** `internal/storage/*.go`, `internal/drive/*.go` | objects by key; local: one `.tmp` file per key | Upload, Download, Delete, Copy, List | an object holds one upload's bytes |
| **Routing, tiering** `internal/store/file_records.go` 20-310, `internal/handler/routing_policy.go`, `tiering.go` | stores, quotas, policies, reservations | ResolvePrimaryStore, ResolveUploadStoreReserved | never a full, failed or read-only store |
| **Replication, ingest** `internal/store/sync.go`, `ingest.go` | sync runs, locations | SyncFileToStores, SyncWorkspace, IngestFromStore | a location names an existing copy; a deleted file does not come back |
| **Quotas** `internal/handler/quota.go` | organization and user limits | SetOrgQuota, AdminSetUserLimit, checkOrgUploadQuota | allocations stay within the owner's limit; uploads within the quota |
| **Public links** `internal/handler/share.go`, `trackedlink.go`, `uploadlink.go`, `linktoken.go` | link rows with counters in the tenant database, token registry in the main one | create, update, delete, browse, download, upload | a link grants only while it is active and below its limit; a live link is reachable |
| **Folders** `internal/handler/folder.go` | tree by `parent_id` | create, rename, move, delete | a tree; unique names |
| **Stores administration** `internal/handler/store.go` | stores, secrets, settings row | create, test, delete, set primary, set mode | the primary exists and is writable |
| **Webhooks** `internal/store/webhook.go` | hooks, delivery log | dispatch, 3 delivery attempts | an event of a committed change is delivered or logged |
| **Organizations** `internal/handler/org.go`, `internal/migrate/*.go` | organization rows, tenant file or schema | create, delete | never a row without a tenant database or the reverse |
| **External upload API**, **rate limits** | API keys; fixed-window counters | upload, count | as uploads; at most N requests in a window |
| **Web session** `web/store/auth.ts`, `store/org.ts`, `App.tsx`, route guards, sign-in, sign-up and organization pages | auth store, org store, `localStorage`, the path, requests for `/api/me` | sign in, up and out, reload, choose, create and delete an organization, redirects | some page always renders; a reload keeps the organization; signing in ends in the app |
| **Web queries and mutations** `web/lib/query.ts` (TanStack Query) | one cache entry per key, mutations on their way, who handles their answers | fetch, answer, fail, invalidate, reconnect, mutate | what was changed is what is displayed |
| **Files page** `web/pages/app/FilesPage.tsx`, `files/` | folder in the URL, selection, dialogs, share mutation | folders and files: create, rename, move, delete, tag, upload, share; batches | each answer refreshes what it changed (but for the recent folders, section 8); a dialog shows its own item |
| **Links page** `web/pages/app/LinksPage.tsx`, `links/` | tab, one form for all links and kinds | create, update, delete | a link is saved with its own values |
| **Stores page** `web/pages/app/StoresPage.tsx`, `stores/` | one form with credentials, a secret shown once, a consent in two tabs | attach, edit, test, primary, ingest, sync, mode, delete; S3 keys | an edit sends only credentials typed for that store |
| **Administration pages** `web/pages/admin/`, `SettingsMembersPage.tsx`, `OrgSettingsQuotaCard.tsx` | lists and dialogs | users, organizations, members, quota, registration | as queries and mutations |
| Authentication, signing, password hashing, audit log, server side of administration, tags | | | not modelled, see section 7 |
| Upload panel, visitor pages, dashboards, preview, component library of the frontend | | | not modelled, see section 7 |

How they interact. Every tenant request passes the Tenant middleware (or the S3
gateway), which opens one transaction on the tenant's database and commits it
iff the handler answered below 400. Uploads leave that transaction at once and
run short transactions of their own around the storage I/O. Handlers call the
record layer inside a transaction and the storage providers directly, so bytes
and rows are never changed atomically. Nothing but SQLite's write lock and the
UNIQUE constraints orders two requests of one tenant.

What is hard here: transactions whose snapshot another commit invalidates; one
upload overtaking another upload of the same key between its phases; storage
I/O before, between and after transactions; retries of an attempt that left
rows behind; clients that disconnect in the middle (the request context rolls
the transaction back); a bounded connection pool that one request uses twice.

The frontend meets the backend through HTTP calls whose answers may come late,
in another order, or never. It shares state with itself: the query cache, the
two stores, a form or dialog that several calls reset. What is hard is
that an answer is handled by the closure of whichever render observed its call,
while the user has gone on: to another folder, another dialog, another page.

## 2. Modules

| Module | Contents |
|---|---|
| `FileRecords` | the record layer, the uploads, S3 PUT and DELETE, file, batch and folder deletes, local and remote stores, replicate fan-out; SQLite mode |
| `VisibleFiles` | what a reader may rely on: a file appears once, at a free key, and disappears for good; `FileRecords` implements it |
| `FileRecordsProofs` | theorems about `FileRecords`: what the tables and the stores hold |
| `FileRecordsAnswers` | theorems about what a request is answered, and that it is |
| `FileRecordsOrphans` | theorems about the locations that run `orphan` finds |
| `ConnectionPool` | the tenant's `database/sql` pool and the requests that hold and take connections |
| `ConnectionPoolProofs` | theorems about `ConnectionPool` |
| `PublicLinks` | share, tracked and upload links: owners, visitors, the token registry in the main database; SQLite and PostgreSQL mode |
| `LinkPromise` | what a visitor and an owner may rely on: a link counts and grants only while it is live, on and below its limit; `PublicLinks` implements it in SQLite mode for every visit but a share link's raw download (run `links_raw`) |
| `Folders` | pure operators on the folder tree: subtree, descendant, name clash, the checks of the folder handlers |
| `FolderTree` | the folder handlers as sessions that check and then write, over `Folders`; SQLite and PostgreSQL mode |
| `AtomicFolders` | the same handlers, each of which checks and writes in one step; `FolderTree` implements it in SQLite mode |
| `FolderTreeProofs` | theorems about `FolderTree` |
| `PublicLinksProofs` | theorems about `PublicLinks`, the refinement of `LinkPromise` among them |
| `WebSession` | who is signed in, and in which organization, as one browser tab sees it |
| `WebSessionProofs` | theorems about `WebSession` |
| `WebPage` | one cache entry, the mutations on their way, the open dialog: what every page is built from |
| `WebFiles`, `WebLinks`, `WebStores`, `WebAdmin` | the pages, over `WebPage` |
| `WebPages` | the composition of the pages: a visit to one of them |
| `WebPagesProofs` | theorems about `WebPages` |
| `MC*` | requests, links, folders and visits for TLC |

`FileRecords`, `PublicLinks` and `FolderTree` are three views of one tenant
database. No property relates the rows of one to those of another; what they
share is the write lock and the currency of snapshots. Each represents the
others' commits by an action of its own (`OtherCommit`; in `FolderTree` a
session that meets one is `GiveUp`), so that action composes them and no product
of their states is needed.

The two web specifications contain the server as actions of their own
(`ServeMe`, `ServeForm`, `ServeOrgCall`; `ServeQuery`, `Apply`), which serve a
request at any time after it was sent; or the request fails. Session and pages
are kept apart because signing out, or changing the organization, changes
nothing a page's properties are about: it unmounts the page, as `Leave` does, or
changes the keys, as a new visit does.

### FileRecords and the code

A request is a process with a control point `pc[r]`; its kind names the handler.
Its steps are cut where another request can run: after the first read of a
transaction (it fixes the snapshot), around storage I/O, between transactions.
A transaction that wrote holds `writer`, so what follows up to its commit is
applied to the tables in the commit step, which nobody can tell from applying it
statement by statement: no other transaction reads uncommitted rows.

* `files`, `blobs`, `locs` are the three tables. An attempt of an upload inserts
  its rows under fresh UUIDs, so the pair of request and attempt number is the
  row's identity. `locs` outlive their blob when the code lets them.
* `objects[s][k]` is the set of attempts whose bytes the object holds: one for
  a whole object, several when concurrent writers shared one temporary file.
  `temp[s][k]` is `k.tmp` of a local store (`internal/storage/local.go` 53-80).
* `writer`, `fresh` are SQLite's write lock and the snapshots. `CanWrite` is the
  condition for the first write of a deferred transaction in WAL mode; when it
  fails the driver reports "database is locked" and the upload is retried
  (`upload.go` 125-153), other handlers answer 500.
* `published`, `erased` are histories: what was ever visible, and which objects
  each request asked a store to delete.

| Action | Code |
|---|---|
| `BeginSetup`, `UploadSetup`, `SetupFails` | `uploadOneAttempt`, phase 1: store resolution, CreatePendingFileUpload, commit |
| `PutPrepare`, `PutSetup` | `s3PutObject`, phase 1: rows, deletion of the replaced object, commit |
| `UploadRemote`, `UploadLocalOpen`, `UploadLocalRename`, `UploadFails` | phase 2: `Storage.Upload` |
| `BeginFinalize`, `Finalize`, `FinalizeConflict`, `SyncFileToStore`, `FinalizeCommit` | phase 3: MarkFileUploadReady, fan-out, commit |
| `UploadRetry`, `UploadGivesUp` | `uploadOne`'s retry loop |
| `BeginDelete`, `DeleteObject`, `DeleteRows`, `DeleteLastRows`, `DeleteCommit`, `DeleteLocked` | `DeleteFile`, `BatchDeleteFiles`, `DeleteFolderRecursiveWithFiles` |
| `BeginS3Delete`, `S3DeleteNothing`, `S3DeleteRows` | `s3DeleteObject` |
| `Abort` | client disconnect or crash at any point |
| `OtherCommit` | any other handler's commit, which makes snapshots stale |

### ConnectionPool and the code

`used` is the set of connections in use; `Acquire` waits while there are
`PoolSize` of them (`internal/tenant/db.go` 53-55). `pc` follows one request:
its middleware transaction, which uploads and S3 PUT give back early; the quota
transaction of `UploadFile`, during which `checkOrgUploadQuota` asks the pool for
two more connections, one after the other; then at most `MaxShortTx` short
transactions. A disconnect ends every wait and transaction of the request.

### PublicLinks and the code

A link's row lives in the tenant database, its token in the main one
(`internal/handler/linktoken.go`), so creating and deleting a link is two
transactions. `link` is the row (`state`, `active`, `limit`, `count`), `tokens`
the registry, `events` the rows of `tracked_link_events`; `lock` is SQLite's one
write lock or PostgreSQL's row locks, `fresh` the snapshots. The three handler
files differ in little: whether sharing a target again reuses a link, whether a
delete sweeps events, which visits count. Entry actions of their own say so, and
the rest is common.

| Action | Code |
|---|---|
| `CreateShareLink`, `ReuseShareLink`, `CreateTrackedLink`, `CreateUploadLink`, `InsertLink`, `RegisterToken`, `RegisterFails`, `CreateCommit` | the create handlers, `registerLinkToken`, the middleware's commit |
| `UpdateShareLink`, `UpdateTrackedLink`, `UpdateUploadLink`, `UpdateRow`, `UpdateFindsNothing`, `UpdateCommit` | the update handlers |
| `DeleteShareLink`, `DeleteTrackedLink`, `DeleteUploadLink`, `SweepEvents`, `DeleteRow`, `DropToken`, `DeleteCommit` | the delete handlers, `deleteLinkToken` |
| `Resolve`, `OpenShareLink`, `OpenTrackedLink`, `OpenUploadLink`, `Refuse` | token lookup and gates |
| `TakeFile`, `Stream`, `Count`, `CountFails`, `RawNotCounted`, `FinishVisit` | public upload, raw download, counting |
| `OwnerLocked`, `Abort`, `OtherCommit` | "database is locked", disconnect, the rest of the tenant |

### FolderTree and the code

`parent` and `name` are the columns of the table, `todo` and `fresh` what each
session is about to write and whether its snapshot is current. A session makes
the handler's checks on what it reads (`Folders`: `MayCreate`, `MayUpdate`,
`MayMove` for `isDescendant`, `Subtree` for the recursive delete) and writes
later; between the two, SQLite makes the write fail if any commit came in
between, PostgreSQL does not. `internal/handler/folder.go` compares the given
parent with the stored one by pointer (line 212), so a body that carries
`parentId` at all counts as a move; `Keep` stands for a body without.

### WebSession and the code

`AuthLoader` (`web/App.tsx`) writes both stores from inside its query function, so
an answer to `/api/me` has its effect even after another fetch has replaced its
own: `me` is the sequence of the requests on their way, the last of which is the
query's. `call` is the one request the user waits for (a bound: the forms
disable their buttons), with the points at which its handler awaits.

| Action | Code |
|---|---|
| `Redirect`, with `Target` | `ProtectedRoute`, `OrgGuard`, `AdminGuard`, and the `Navigate` of the sign-in and sign-up pages |
| `Reload`, `ServeMe`, `MeArrives`, `SetOrganizations`, `Reconnect` | `AuthLoader`, `store/org.ts` |
| `SubmitLogin`, `SubmitSignup`, `ServeForm`, `SignIn`, `Land` | `LoginPage`, `SignupPage`, `signIn` and `signUp` of `store/auth.ts` |
| `SignOut`, `ServeSignOut`, `SignedOut` | `signOut` |
| `HandleSwitch`, `Navigate`, `CreateOrg`, `DeleteOrg`, `ServeOrgCall`, `OrgCreated`, `OrgDeleted` | `OrgsPage`, `OrgSwitcher`, `CreateOrgDialog`, `OrgSettingsPage` |

### WebPage, the pages and the code

TanStack Query is external and modelled from how the code configures and calls it:
`staleTime` 0, no retries, refetch on reconnect; an invalidated entry
is fetched anew if it is displayed, and a running fetch is replaced unless it is
the entry's first. `cache.data` and `cache.flight` are "now" or "old": whether
they are what the server would answer at this moment. `LeftRunning` is the one
case in which invalidating brings nothing new: a fetch from before the change is
on its way and is the entry's first, or the entry is out of view. It is neither
cancelled nor repeated, not even if the entry comes into view again meanwhile.

The entries followed are those of the page and of the sidebar of `AppLayout`
(`Sidebar`): the storage usage and the recent folders. What a change at the
server changes (`FilesChange`, `StoresChange`, ...) is stated apart from what the
`onSuccess` of the call invalidates. The two differ: no handler refreshes the
recent folders, nor after a change of the stores the usage and its breakdown.
`FilesUnrefreshed` and `StoresUnrefreshed` name these keys, `ReadYourWrites`
promises nothing about them, and section 8 lists them.

A mutation is a record of `calls`. `via` says which closure handles its
answer: that of the latest render as long as a component observes the call, else
the one of the last render that did, which knows the folder displayed then.
`Submit` and `Abandoned` detach calls as `mutate()` again and unmounting do.

Each page's module has the same parts: what its calls change at the server,
what the user does, and one `...Done`
action per `onSuccess`, which says what it invalidates, closes and resets. `ui`
holds what only this page has: the selection and the item of the share
mutation's data; the tab and whose values the link form holds; whose credentials
the store form holds, and whether a secret is shown. `submit()` of
`StoreFormDialog.tsx` is an async function and no mutation: it works on with the
form of the render in which Save was clicked, which `CreateStoreDone` and
`UpdateStoreDone` put back.

## 3. Runs

A behaviour is over when its requests have been answered, so the
configurations switch TLC's deadlock check off; `EveryRequestEnds`,
`NoPoolDeadlock` and `EveryRequestAnswered` say what a deadlock check would.

| Run | Question | Instance |
|---|---|---|
| `writers` | racing writers of one key, with retries: is the key owned once, do the tables agree, does a failed request show nothing, does the lock never leak, is everybody answered? | two uploads and an S3 PUT, one local store, two attempts |
| `replicate` | fan-out, overwrites, single, S3 and batch deletes: the inductive invariant of the proofs; is every lost byte somebody's delete, does the file of an upload that nothing crossed stand, do readers see `VisibleFiles`, does every step of a request use up one of those it has left? | two keys, a remote primary and a local second store, two attempts, three workloads |
| `pool` | can a full pool always go on, does every step bring a request closer to its answer, is every request answered? | two uploads, an empty one and an S3 PUT, three connections |
| `links` | do registry and rows agree, do grants respect switch and limit, is every served view counted once, is a usable share link of SQLite reused, do events go with their link? | SQLite: two share links, a tracked and an upload link, each with an owner and visitors. PostgreSQL: a tracked link with two views, an update and a delete |
| `tree` | is the tree a tree, are names unique, does no folder lose its parent, does every session behave as one that checks and writes in one step? | SQLite; two sessions, four folders |
| `web_session` | do the guards settle, and within two redirects, do members get in, does a reload keep the organization, does signing in end in the app? | a user and an administrator, two organizations, two answers of `/api/me` on their way |
| `web_pages` | is what a page refreshes what it changed, but for the named exceptions, and is no refetch lost; does the share dialog show its own item's link, does the link form hold the link being edited, does saving a store send only that store's credentials? | every operation of every page, two rows, two mutations on their way |
| `orphan`, `erase`, `pool_burst`, `links_raw`, `tree_cycle` | findings, see section 6 | two or three requests or sessions |

Two configurations put several workloads in one run and keep them apart with a
CONSTRAINT: `OneWorkload` (`replicate`: overwrites, deletes of one key, or a
batch) and `OneKind` (`links`: links of one kind). A constraint only bounds which
requests arrive together: links of different kinds touch no common row, and what
they do to each other through the database is `OtherCommit`. Neither run checks a
liveness property.

`web_pages` starts in one of the `Visits`: a page, what its user comes to do,
and the cache entry followed. Entries do not influence each other or what the
page lets the user do, so following one of them at a time loses nothing; the
operations of a plan are those that share a dialog, a form or a list, and a plan
may be carried out any number of times. Visits to the same list of the folder
"sub" are left out, since the two folders are treated alike; rows are symmetric.

Why the bounds are enough. Requests interact only through the key, the lock and
the snapshots. Three requests of one key are the smallest number in which one
overtakes a second while a third invalidates both; a fourth adds a delete. A
second key matters only to a batch. Stores differ by whether they go through a
temporary file and whether they are the primary, so one or two suffice. Two
attempts instead of the code's three: one retry already leaves the rows of a
failed attempt behind. A limit of 1 is reached by one visit, and the visit that
must be refused is the second. A cycle needs two folders and two moves; four
folders add an ancestor that a check must climb over. In the browser two calls
on their way are the fewest that can be answered out of order, and two rows the
fewest a dialog can confuse. The theorems of section 5 cover every other size.

Mutants: every checked property is broken by a small change of one definition
that stands for code (`PROJECT.json`, "mutants"); the mutated forms stand in the
modules before the definitions they mutate.

## 4. Fairness

`FairSpec` asks for weak fairness of `Step(r)` for each request: gin serves each
on a goroutine of its own, which keeps running until it answers, `busy_timeout`
bounds its waits for the write lock, and `database/sql` serves waiters. Arrivals,
early rejections, disconnects, crashes and the commits of other handlers are not
fair: nothing forces them, and no liveness property depends on them.

`SessionFairness` asks that the browser renders (`Redirect`), that a request is
answered or fails, and that a promise that has settled resumes its `await`. What
the user does, a reload and a reconnect are not fair. `WebPages` has no fairness:
its properties are invariants.

## 5. Proofs

The modules `...Proofs`, `FileRecordsAnswers` and `FileRecordsOrphans` prove, for every value of the constants (requests,
keys, stores, sessions, folders, links, limits, users, organizations, rows and
visits; every number of attempts, connections and calls on their way):

* `TypeCorrect`: `Spec => []TypeOK`.
* `RecordsCorrect`: `Spec => []RecordInv`. `RecordsAgree`, `UniqueObjectKey` and
  `FailureLeavesNothingVisible` are not inductive: an attempt that inserts its
  rows must know that no location of its own exists yet, and a location can
  outlive its blob. The strengthening is `LocationsOfAnswered` (only the last
  attempt of a request answered with success owns locations, even orphaned
  ones) and `VisiblePublished`. The proof has a lemma per kind of table change
  (setting up, finalising, deleting) and a case per action. The corollaries
  `TablesAgree`, `KeysOwnedOnce` and `FailuresShowNothing` take its parts.
* `LockCorrect`: the lock is held only by an open transaction with a current
  snapshot.
* `NoSilentLoss`: `LossOnlyByErasure`. It rests on an invariant about requests
  in flight: what a request that has stored its bytes will record exists, or
  somebody asked for its deletion.
* `Refinement`: `Spec => ImplementsVisibleFiles`, step by step: `FinalizeCommit`
  publishes or stutters, deletes and set-ups withdraw, everything else stutters.
* `FileRecordsAnswers!RequestsRunOut`: `StepsRunOut`, the safety half of
  `EveryRequestEnds`. `StepsLeft(r)` is a number, computed from the control point,
  the attempts still allowed, the stores still to copy to and the files and
  stores still to delete from, that every step of `r` lowers and no step of
  another request raises; so nothing but never being scheduled keeps a request
  from its answer. It uses that the stores are finitely many (an assumption:
  they are rows of a table); the strengthening `FinitelyMany` is that the files
  that exist are too, since each step adds at most one.
* `LoneUploadsStand`: `LoneUploadStands`. For the one request in its own key
  everything must stay as it left it, though uploads and deletes of other keys
  run all the time. `LoneInv` follows it through its control points (`Sound`),
  `TempKeys` keeps temporary files apart by key, and `ControlInv` says which
  files a delete in flight is after. Two lemmas bound what others can do
  (`RowsOfOtherKeys`, `DiskOfOtherKeys`), one follows the request itself
  (`LoneOwnStep`).
* `OrphansStay`, `OrphansBlock`: no step removes a location whose blob is gone, nor
  brings its blob back, and as long as it is there no upload of its key to its
  store is answered with success. Both rest on what a transaction may believe:
  between its first write and its commit the lock is its own (`LockOwned`), so
  the path it found free stays free (`PathsFree`); while its snapshot is current
  the files it has read exist (`ReadsCurrent`), so a delete never comes across
  an orphan.
* `PoolCorrect`: `TypeOK` with `PoolInv`, which ties `used` to the control
  points; it needs the requests to be finite, so that cardinalities are defined.
* `NoDeadlockBelowPoolSize`: with fewer uploads than connections a full pool
  always contains a holder that waits for nothing: a waiting holder is an
  upload in its quota transaction, and each holds one connection.
* `ConnectionPoolProofs!RequestsRunOut`: `AnswersComeCloser`, the same for
  the pool. With the theorem before it: below the size of the pool somebody can
  go on, and who goes on comes to an end.
* `StuckForGood`: when the connections are all held by uploads that wait for
  another one, no arrival and no step changes that, only a client that
  disconnects: what `pool_burst` finds does not heal by itself.
* `TreeCorrect`: in SQLite mode `NoCycle`, `NamesUnique`, `NoLostFolder` and
  `TypeOK` hold always. They are not inductive, because a handler writes what an
  earlier check allowed. The strengthening `ChecksHold` says that the check of
  a session with a current snapshot still holds of the table now; every
  commit makes the other snapshots stale, which is what PostgreSQL lacks (run
  `tree_cycle`). `Subtree` is the least set closed under children and acyclicity
  is "every non-empty set of folders has a member whose parent lies outside", so
  that the argument about a move needs no induction over paths. Corollaries:
  `SiblingsDistinct`, `FoldersKeepParents`.
* `FoldersAtomic`: in SQLite mode `FolderTree` implements `AtomicFolders`. The
  check of a session is an earlier step than its write, so the proof shows with
  `ChecksHold` that the check would pass again at the commit.
* `TreeTyped`: `FolderTree!TypeOK` in either database, without the invariants that
  PostgreSQL breaks. `CyclesStay`: in either database a circle of folders which
  no session has yet to write to stays one through every create, rename, move
  and delete: the handlers cannot repair what `tree_cycle` finds. The walk down
  from a folder of the circle fails, which refuses its moves and deletes
  (`ChecksSpare`), and no subtree outside reaches into it (`OutsideCircle`).
* `LinksTyped`, `LinksReachable`, `EventsHaveLinks`, `OneLink`, `CountersExact`
  and `PromiseKept` rest on `LinkInv`. Its core: who wrote a row holds its lock,
  and in SQLite everything (`LocksHeld`); what was read holds as long as the
  snapshot is current (`SnapshotsTrue`), so whoever still can write acts on what
  is true now; a link has no past before its one create commits, whose token is
  then in the registry (`Lifecycle`). `CountersExact` and `PromiseKept` assume
  that nobody downloads a share link raw: that visit streams before it is
  counted, and `links_raw` refutes both with it. `OneLink` is about SQLite: `OneLinkPerTarget`
  has that guard, since two creates under PostgreSQL both insert (section 8).
* `RefetchCorrect`: `ReadYourWrites`. `RefetchInv` says that what was promised
  is in the entry or being fetched; one lemma shows for each page that the keys
  its `onSuccess` handlers invalidate include all that their calls change, but
  for the `Unrefreshed`. The other exceptions are a fetch that is `LeftRunning`, a
  folder that the closure of an abandoned call does not know, and a failed fetch.
  None is wider than it must be: with `FilesUnrefreshed` empty, or without either
  half of `LeftRunning`, TLC refutes the invariant.
* `ShareCorrect`, `FormCorrect`, `CredentialsCorrect`: the share dialog, the
  link form and the store form hold what they are open for. The first needs that
  all calls keep their operation, item and folder while their observers change
  (`CallsInv`, `ShareInv`); the others that every answer that resets the form
  also closes it or ends the edit.
* `PageTyped`: `PageTypeOK`, whose core is that a page the user has left
  observes no call and has no dialog. It takes three invariants: slots are free
  or hold a call (`CallsInv`), dialogs ask for what the visit is for
  (`DialogsInv`), and a page goes only with its calls (`VisitInv`).
* `SessionTyped`, `ReloadCorrect`: `SavedOrgs` says that without an open
  organization there is no list of them and no delete on its way, and that a
  reload leaves the one that was open in `localStorage`.
* `GuardsAgree`: `GuardsSettle`, by cases over what the two stores hold; the lemma
  `Targets` evaluates the guards. `MembersLetIn`: `MembersGetIn`, which takes from
  `SavedOrgs` that whoever has organizations has one open, through switches,
  deletes and late answers.

The assumptions are the named ASSUMEs of the modules, which TLC evaluates on
every instance. Only model-checked: liveness (`EveryRequestEnds`,
`EveryRequestAnswered`, `RedirectsSettle`, `SignInLands`), which needs fairness and
ENABLED; and the findings. What those four rest on is proved: `StepsRunOut`,
`AnswersComeCloser` with `NoPoolDeadlock`, `GuardsSettle` and `MembersGetIn`; what
is left to TLC is that a request can always take a step, and is scheduled.

## 6. Findings

* `orphan`: an upload overtaken by another upload of its key leaves a
  `blob_locations` row without a blob, which blocks all later uploads of the key
  to that store, for good (`OrphansStay`, `OrphansBlock`).
* `erase`: `DeleteFile` deletes the bytes, then fails to delete the rows.
* `pool_burst`: as many concurrent uploads as the pool has connections wait for
  each other for ever (`StuckForGood`).
* `links_raw`: a raw download streams before it is counted, so two that open a
  link together exceed its limit of one.
* `tree_cycle`: under PostgreSQL two concurrent moves form a cycle, which stays (`CyclesStay`).

`PROJECT.json`, "findings", quotes for each the sentence of the repository that
it contradicts.

## 7. Not modelled, and why

* PostgreSQL mode of uploads: with READ COMMITTED and row locks the
  interleavings differ, and the short transactions do not set the tenant's
  `search_path`, so there is nothing of the record layer to check yet.
* The replica copy to a local store is one step; its temporary file is the same
  mechanism as in `UploadLocalOpen` and `UploadLocalRename`.
* A multi-file upload is several requests. Its reservations belong to routing.
* A file's key is fixed: `FileRecords` has no rename or move (module
  `FileMoves` of the plan).
* Link expiry, password, access level, scope, size and type filters: any of them
  is a `Refuse`. Browsing a shared folder changes nothing.
* Contents, names, sizes, MIME types; formatting and logging.
* Cryptography, single-row CRUD (tags, API keys, users), the server side of
  dashboards: nothing there depends on interleaving or order.
* Provider SDKs: an upload replaces the object or fails.
* In the browser: search, breadcrumbs, sorting and view mode of the files page, the
  folder picker's own lists, the details drawer and the events dialog (reads), the
  "copied" flag, preferences and appearance. Form fields are data; only whose
  they are matters.
* The upload panel (`web/store/upload.ts`) displays the progress of uploads that
  the files page sends as one mutation: per-file progress, a display.
* The visitor pages (`web/pages/public/`) are one query or mutation each without
  shared state. What a visit does to a link is `PublicLinks`.
* Two tabs share only `localStorage`; the model has the other tab's part in a
  Google consent (`OtherTabConnects`) and nothing else of it.
* The component library, types and translations carry no behaviour.

## 8. Plan

Modelled and proved: uploads and deletes, the connection pool, public links,
folders, the web session and the pages. Open, in this order:

| Module | Subject | Proof |
|---|---|---|
| `Routing` | store selection, policies, reservations, stale quotas | chosen store is usable |
| `Quotas` | allocation limits, upload quota | sum within limit |
| `Multipart` | parts and completion across committed transactions | |
| `FileMoves` | rename and move of keys, locations and objects | |
| `Replication`, `Ingest` | sync runs, re-import, deletes | |
| `Webhooks` | dispatch relative to commit, delivery attempts | |
| `StoreAdmin` | primary store, status, mode | |
| `TenantLifecycle` | organization, tenant file, cached database | |
| `RateLimit` | fixed window | counter bound |
| `ListObjects` | ListObjectsV2 paging against the full listing | |

Behaviour the present models contain and no run asks about: the success answer
of an overtaken upload whose file does not exist; two local uploads that share
one `.tmp` file; a delete whose registry row goes before a transaction that then
fails; limits of upload links, and duplicate share links and folder names, under
PostgreSQL; recent folders that no change of a folder refreshes, and a usage and
a breakdown that no ingest or change of a store does; a refetch that a round trip
to another folder loses; credentials typed in an edit that the attach form keeps
and sends with the next store; an answer of `/api/me` that signs a user in again after signing out;
a link form that turns into one for a new link when an update is answered.
