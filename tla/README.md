# DriveMPVD: specification, model checking and proofs

DriveMPVD is a private drive for one administrator: a FastAPI backend over
PostgreSQL (READ COMMITTED) and a local file system, a separate worker that
processes the storage outbox, and a React client. This directory models the
parts of it in which several steps, several requests or a failure decide
whether data survives. Paths below are relative to `src/`; `app/` is
`backend/app/`.

## 1. Inventory

| Component | State | Operations | Interacts with | What makes it correct |
|---|---|---|---|---|
| Resumable uploads (`app/application/use_cases/storage/uploads.py`, `app/infrastructure/storage/local.py`) | `upload_sessions` row, `staging/<id>.part`, `objects/<key>` | start, status, append, complete, cancel | file system outside the transaction, tree (parent folder) | confirmed bytes stay staged; what is published is what was sent; a completed session has its object |
| Storage tree (`.../storage/actions.py`, `app/infrastructure/persistence/repositories/storage.py`) | `storage_entries`, `trash_items` | create, rename, move, copy, trash, restore, purge | outbox (sweep event of a purge), objects (versions of a copy) | one rooted tree; trashing takes whole subtrees; nothing lost in the trash; only trashed entries are purged |
| Storage outbox (`.../storage/outbox.py`, `app/infrastructure/cli/process_storage_outbox.py`) | `outbox_events`, `storage_objects`, `file_versions` | poll, lease, sweep, physical delete, record failure | uploads, copies, purges, file system | bytes of a committed version are never removed; purged bytes are reclaimed |
| Unit of work (`app/infrastructure/persistence/unit_of_work.py`) | one transaction | commit, rollback | everything | rollback unless committed |
| Authentication (`app/application/use_cases/auth/`, `.../repositories/auth.py`) | account, sessions with rotated refresh tokens, security events | bootstrap, login, refresh, logout, revoke all, change password | cookies, client, PostgreSQL's deadlock detector | a refresh token is consumed once; revocation and password change are complete and final; every request ends |
| Login guard (`.../auth/login.py`, rate limiter in `.../repositories/auth.py`) | rate-limit buckets, failed attempts and lock of the account | consume, register failure or success | clock, authentication | no window admits more than its limit; no failure is lost; a locked account verifies nothing |
| Queries and activity (`.../storage/queries.py`, `.../use_cases/activity.py`, `app/presentation/http_cache.py`) | favourites, recent opens; cursors and cached pages at the client | listings by keyset, mark, unmark, record an open, revalidate | tree commands, HTTP caches | pages skip nothing that stays; activity does not repeat; a matching ETag means current metadata |
| Downloads (`.../storage/downloads.py`, `app/presentation/file_delivery.py`) | open file of a stream | prepare, conditions, ranges, stream | purge and outbox worker | ranges are the bytes asked for; a finished body is the announced one |
| API client (`frontend/src/shared/api/client.ts`, `frontend/src/features/auth`) | cookie jar, refresh in flight, status of each tab | call, refresh, retry, log in and out | authentication | calls that fail at once share one refresh and settle; a live session is not cleared |
| Upload queue of the client (`frontend/src/features/uploads`) | queue of files | enqueue, retry, cancel | uploads | at most two uploads at a time |
| HTTP layer, configuration, deployment | none that matters here | | | |

The hard behaviours: row locks and statement snapshots of READ COMMITTED; file
system effects that no transaction covers, some of them after the lock is
released; workers and requests that stop anywhere; commits whose outcome the
caller does not learn; retries that overlap the request they replace. Each is
listed at its line under `hazards` in `PROJECT.json`.

## 2. Modules

| Module | Models |
|---|---|
| `StorageOutbox` | objects from publication to reclamation: completion of uploads, copies, purges, outbox workers |
| `ObjectLifecycle` | abstract specification: what the storage subsystem promises about one object |
| `StorageTree` | the tree commands as transactions of concurrent requests |
| `Uploads` | one upload session, its staging file and its object, with overlapping requests |
| `AuthSessions` | the account, the session rows and the transactions that change them |
| `SessionStore` | abstract specification: every change of the sessions is one step |
| `LoginGuard` | rate limiter and account lock of the login |
| `AuthClient` | browser tabs, cookie jar and API client, composed with `SessionStore` |
| `Listing` | the listings and the requests that change them; conditional requests |
| `Downloads` | one download: conditions, ranges, streamed body |
| `MC*` | model values, sets and symmetry for TLC |
| `StorageOutboxProofs`, `StorageTreeProofs`, `UploadsProofs`, `AuthSessionsProofs`, `LoginGuardProofs`, `AuthClientProofs`, `ListingProofs`, `DownloadsProofs` | TLAPS proofs about these modules (section 4) |

Each module starts with the operators for locks and queries, then one action
for every step of a handler, then the properties. A definition introduced as a
*faulty variant* is not used by the specification: it is a plausible mistake in
the operation that follows it, and replacing that operation by it violates a
property (`mutants` in `PROJECT.json`). This shows that the property depends on
the code.

### 2.1 StorageOutbox

A transaction that keeps locks between two statements is a process with a
program counter, and its locks are read off its state: a copy holds FOR KEY
SHARE on the objects its new versions reference, a sweep FOR UPDATE on the rows
it claimed, a worker FOR UPDATE on the event it leased. Transactions that can be
observed only as a whole (a purge) are one action.

* Upload completion: `Publish` (os.replace), then `CommitUpload`, `FailUpload`
  (compensation), `CrashUpload`, or `AmbiguousUpload` (the server committed, the
  caller got an exception and compensated).
* Copy: `ReadSource` without a lock, `InsertVersion` with the foreign-key check
  (waits for a claim, fails when the row is gone), `CommitCopy`, `AbortCopy`.
* `Purge` removes versions and appends the sweep event.
* Worker: `StartCycle`, `PollDeletes`, `PollSweeps`, `Lease` (SKIP LOCKED),
  `SnapshotOrphans` and `ClaimOrphans` (the query's snapshot and its row locks
  are different moments), `Detach` (the recheck), `CommitSweep`, `Unlink`,
  `Acknowledge`, `FailEvent`, `AmbiguousEvent`, `RecordFailure`, `CrashWorker`.

Abstractions. A file version is the object it references. Events are in commit
order; the code orders them by `created_at`, the start of the transaction.
`attempts` and `last_error` are left out: nothing reads them. The worker may
claim any orphans up to its limit; the code takes the oldest. A failing delete
event makes every worker come back to it; the bound on failures (`MaxFaults`)
means that failures end. The history variable `passed` remembers the orphans that a
sweep skipped because a copy had their row locked, until a later purge asks for a
sweep again or the copy commits; no step depends on it.

### 2.2 StorageTree

A request advances Begin, Aim, Scan, Finish: lock the entry, lock the
destination (and check it), take the snapshot on which the multi-row statement
selects its subtree, write and commit. Uncommitted writes are visible to nobody,
so they all happen at Finish. `Abort` is possible everywhere (an error, a name
conflict, a disconnect, `statement_timeout`, a deadlock victim). `Closure` is the
recursive query: the least set closed under children. A copy reads the rows
below its source (`Below`) and inserts a twin for each (`Insert`); a copy into its
own subtree finds its own top row there. `NamesUnique` is the
partial unique index; the earlier `name_exists` asks the same question. The
completion of an upload appears as the creation of a file.

A purge selects on its snapshot but `ON DELETE CASCADE` also takes whatever is
below the deleted rows by then. The tombstone is kept as membership in `trash`:
its original parent is only the default destination, and the model lets a
restore choose any folder. A trash request for an entry that is already trashed
changes nothing. Identifiers are never reused, so the number of entries bounds
the creations of a behaviour.

### 2.3 Uploads

Files are sequences of bytes; byte *i* of the client's file is *i* and 0 is the
hole that extending a file leaves, so corruption is visible. `RowFree` is the
lock of `SELECT ... FOR UPDATE`. What the code does to files after its
transaction (`OpenStaging`, `TruncateAppend`, `Compensate`, `Discard`) is a step of its
own that needs no lock. `truncate_upload` opens the file in one thread and truncates it
in another, so a rename can come between; the handle follows the file, and
`TruncateAppend` then cuts the published object. `publish_upload` compares the size
(`CheckSize`) before it renames (`PublishUpload`), and a truncation can come between
these two. A directory fsync that fails after the rename ends the request without
compensation (`RejectComplete`). `BeginAppend` includes the repair of `append_chunk`: a
staging file of another size than the confirmed offset is resized to it and the request
fails. Every commit may take effect and yet raise: `AmbiguousStart`, `AmbiguousAppend`,
and `AmbiguousComplete`, after which the compensation deletes the object of a completed
upload. Three ghost variables record the exemptions of the properties: `raced` (an
append was admitted while a truncation was pending, or the commit of a start or an
append was ambiguous), `unsure` (the commit of a completion was ambiguous) and `crashed`.

### 2.4 AuthSessions and SessionStore

A request is a process that takes row locks one after the other, keeps the copy
of the row it read and makes its writes visible at its commit. `LockAccount` and
`LockSession` are the `FOR UPDATE` reads; `StartUpdate` and `VisitRow` are the
snapshot and the row visits of the bulk `UPDATE` (`revoke_all_active`), which
waits for a locked row and evaluates its condition again; `InsertEvent` is the
security event, whose foreign key takes KEY SHARE on the account. A refresh and a
password change lock account and sessions in opposite orders, so they can
deadlock; `BreakDeadlock` is PostgreSQL's detector, and `Rollback` any other
failure. `RefuseRefresh`, `DetectReuse` and `Rotation` are the three outcomes of
a refresh. Middleware authentication is an unlocked read in an earlier
transaction and therefore part of the arrival.

A token pair is the number of the request that drew it, a password the number of
times it was set. The account is never disabled by any code. `SessionStore` has
one atomic step for each effect on the rows; `AuthSessions` implements it
(`ImplementsStore`), which is what lets `AuthClient` use it as the server.

### 2.5 LoginGuard

A login reads the clock once, in `Begin`, and carries that instant through the
wait for the advisory lock of its bucket (`LockBucket`, `CommitBucket`) and the
wait for the account row (`LockAccount`, then `CommitLocked`, `CommitFailure` or
`CommitSuccess`). `Consume` is `_consume_locked`, branch by branch. A missing
account ends like a denied one and does not touch the row. The refresh limiter
is the same code with other buckets. Nothing is assumed of the durations of window and
block: the settings do not relate them (`app/infrastructure/config/settings.py:117-124`),
and the run takes them equal.

### 2.6 AuthClient

Calls of two tabs are sent with the cookies of that moment, served by
`SessionStore` at another, and answered at a third. `Receive401` starts or joins
the refresh of its tab (`activeRefresh`), `SettleRefresh` stores the new pair and
sends the waiting calls again with new headers, or clears the tab. `Lose` and
`LoseRefresh` lose a request or an answer. `Serve` and `ServeRefresh` use the
steps of `SessionStore` unchanged.

What the model shows about the code, beyond its properties: two tabs that refresh
with the same pair make the loser get 403 and clear its session, although the
session is alive (this is the exemption `collided` in `NoSpuriousLogout`); the
late refusal of an old session's refresh clears a login made meanwhile; a lost
refresh answer ends the session; a logout refused with 403 clears the page while
the session stays active on the server.

### 2.7 Listing

One folder is observed. Requests lock their entry, then commit; the client reads
one page after the other. `Page` is the query of the repositories: filter and
keyset comparison of (key, id) (`Found`), the order of the rows (`Ordered`),
`limit + 1` rows, cursor from the last row.
A folder page is two statements (`ReadChildren`, `ReadFlags`), and a change may
commit between them. `ETag`, `LastModified` and `NotModified` are the validators
of `list_folder_entries`; `If-None-Match: *` is answered with 304 whatever the client
has, so `ETagMeansCurrent` is about the tag of its copy. In the trash listing the
identifier of the entry stands for that of its tombstone. The clock is a counter: storage commands read it before
they wait for the row, the activity commands when they have it, which is what
`ActivityNeverRepeats` rests on. The trash listing has no such guarantee: an
entry that is restored and trashed again by a request that waited can appear
twice in one walk.

### 2.8 Downloads

The handler looks at the database, then at the disk, then answers, then opens
the file once for every range, while the entry is purged and the file unlinked
at any moment. Bytes are positions, so the body can be compared with what the
headers announced. `ParseRanges` resolves the members (`Resolve`) or refuses
them, `CoalesceRange` is one turn of the loop of `_coalesce_ranges`, and the
result is compared with `Requested`, the definition of RFC 9110. The loop goes
through the ranges in the order of (start, end); a range that is asked for twice
joins itself, so the list is a set. If-Range is not looked at by the code;
the content behind an identifier does not change, so nothing depends on it.
Header texts and multipart boundaries are left out. A file that is shorter than its row
says is met by the size check of `PrepareDownload`; one that is damaged between that
check and a read is not modelled, and would give a short body without an error
(`app/infrastructure/storage/local.py:253`).

## 3. Runs

| Run | Instance | Shows |
|---|---|---|
| `outbox_safety` | 2 objects, 2 workers, 2 copies, 2 purges, 2 failures | `CommittedBytesExist`, `DeleteEventsAreFinal`, `SweepsKeepForeignKey`, `LeaseHolds`, `BytesAccountedFor`, refinement of `ObjectLifecycle` |
| `outbox_liveness` | 2 objects, 2 workers, 1 copy of up to 2 files that commits or rolls back, batches of 1, ambiguous commits | `OrphansAreScheduled`, `OrphansAreReclaimed` |
| `tree_sequential` | root and 4 entries, 2 names, one request at a time, all operations | `Rooted`, `ActiveUnderActive`, `TrashIsCovered`, `PurgeOnlyTrashed` |
| `tree_concurrent` | root and 3 entries, 2 requests, all operations | `AttachedToActive` |
| `tree_cycle` | root and 4 entries, 2 requests, create and move | violation of `Rooted` |
| `uploads_overlapping` | files of up to 3 bytes, 3 requests, ambiguous commits | `ConfirmedBytesStaged`, `CompletedHasObject`, `CancelledLeavesNoStaging`, `SessionsOnlyAdvance` |
| `uploads_late_truncate` | files of up to 2 bytes, 2 requests | violation of `PublishedIntact` |
| `auth_sessions` | 5 requests or commands of any kind | `TokensAccounted`, `PasswordEndsSessions`, `RevocationIsFinal`, `BulkRevocationComplete`, `RequestsFinish`, refinement of `SessionStore` |
| `login_guard` | 4 logins of 2 clients, 4 ticks, limit 2 per window of 2, block 2, lock after 2 failures for 2 ticks | `AdmittedPerWindow`, `DeniedOnlyWhenFull`, `NoFailureLost`, `NothingVerifiedWhileLocked` |
| `auth_client` | 2 tabs, 3 calls, 1 expiry, 1 loss | `ForbiddenMeansOvertaken`, `NoSpuriousLogout`, `CallsSettle` |
| `listing` | 3 entries and room for one more, 4 names, 2 requests, pages of 1 or 2, every listing, direction and filter | `PagesExact`, `ActivityNeverRepeats`, `ETagMeansCurrent` |
| `downloads` | files of up to 3 bytes, blocks of 2, limit of 3 ranges | `RangesExact`, `BodyAsAnnounced` |

Why the bounds are enough to be interesting. Two objects with batches of one
make sweeps defer (`has_more`); two copies of one object raise its versions
above one; two purges overlap two sweeps; two workers compete for the same
event, and two failures let a retry fail again. Root and four entries are what a
copy of a folder with a child needs, and what two crossing moves need; three
entries below the root give nested trash. Three requests let one append, one
wait with its truncation and one complete. Five authentication requests are a
bootstrap, a login and three that overlap on the session, or two sessions under
one bulk revocation. Four logins exceed the limit of one bucket and still leave
one that arrives when the block ends. Three calls are two that receive 401 at
once and one of another tab or a login. Three entries and pages of one give
walks of three pages, with two changes between any two of them. Three bytes and
blocks of two give a range that takes two reads and two ranges that cannot be
joined. Symmetry is used for safety only.

Fairness. `outbox_liveness`: weak fairness of each worker's own steps, because
the CLI loop polls for ever and the container restarts it, and of the end of a started
copy, by a commit or by a rollback, because an error, the connection's end or
`statement_timeout` (30 s) rolls it back when it does not go on; nothing is assumed of
uploads, purges or failures. `auth_sessions`: weak
fairness of the steps of every request that has arrived (the event loop and
PostgreSQL serve it) and of the deadlock detector; requests need not arrive.
`auth_client`: the server answers and the browser delivers, nobody has to click.
The runs other than `outbox_*` and `tree_*` end when their requests are used up,
so they do not check for deadlock; `RequestsFinish` and `CallsSettle` say that
nothing is left waiting.

### Findings and counterexamples

The first two are runs of the project. The others are kept as configurations:
`tlc -config <cfg> <module>` in this directory shows the behaviour.

1. **Crossing moves** (`tree_cycle`). A into a folder below B, B into a folder
   below A: each request locks its entry and its destination, four different
   rows, and each check reads the tree before the other's commit.
2. **Late truncation** (`uploads_late_truncate`). The truncation after a failed
   append runs without the row lock. It cuts bytes that another append has confirmed
   meanwhile, which the repair of the next append fills with zeros; or it lands between
   the size check and the rename of a completion, or after the rename through its open
   handle, and shortens what is published. `ConfirmedBytesStaged` and
   `CompletedHasObject` show that with commits of known outcome this is the only way
   confirmed bytes are lost.
3. **Skipped sweep** (`StorageOutboxSkippedSweep.cfg`, `MCStorageOutbox`). A sweep
   skips an orphan that an uncommitted copy has locked, and closes its event. If
   the copy then rolls back, the orphan's bytes wait for the next purge, which may
   never come (`EveryOrphanIsReclaimed`). `OrphansAreScheduled` and
   `OrphansAreReclaimed` show that nothing else is forgotten, with two
   workers as well: every worker takes the *oldest* sweep only and stops when that
   one is leased, so sweeps never run at the same time and cannot skip each
   other's claims.
4. **Ambiguous commit** (`StorageOutboxAmbiguous.cfg`, `MCStorageOutbox`). The
   compensation of a failed completion deletes the published bytes also when the
   commit took effect (in `Uploads`: `AmbiguousComplete`, exempted by `unsure`). The worker's own ambiguous commits are harmless: they are
   in every other run and in the proofs.
5. **Entry created during a trash** (`StorageTreePurge.cfg`, `MCStorageTree`). The
   child is committed after the subtree snapshot of the trash and stays active
   below a trashed folder; purging that folder deletes it.
6. **Left-over tombstone** (`StorageTreeTombstones.cfg`, `MCStorageTree`). Trash a
   child, trash its folder, restore the folder: one request at a time is enough.
   The child's tombstone can be neither restored nor purged, and the child cannot
   be trashed again.
7. **CSRF error without a missing cookie** (`AuthClientLate401.cfg`,
   `MCAuthClient`). `docs/TROUBLESHOOTING.md:20` explains a CSRF error by an absent
   cookie or header. A 401 that arrives after the refresh of its tab has ended
   starts another refresh, and a write sent in between carries the superseded
   token and gets 403. `ForbiddenMeansOvertaken` shows that a needless refresh is
   the only other cause.
8. **Stale 304** (`ListingStaleCopy.cfg`, `MCListing`). `304` is described as "The
   cached representation is current." (`app/presentation/api/v1/storage.py:171`).
   The tag of a page does not contain the favourite flags that the page shows, and
   If-Modified-Since sees neither a deletion nor a second change within one second.
   `ETagMeansCurrent` is what does hold.
9. **Reuse that revokes nothing** (`AuthSessionsStaleCookie.cfg`, `MCAuthSessions`).
   `docs/SECURITY.md:29-30` says "La reutilización de refresh revoca su familia", and
   `app/application/use_cases/auth/refresh.py:29` "revoke on detected reuse". A stale
   refresh cookie comes with a stale CSRF token, and `_validate_csrf` (`refresh.py:78-79`)
   refuses it before the token is compared: the family of a cookie client is never
   revoked for reuse (`ReuseEndsFamily`). Clients that send the token in the body are
   treated as the document says.

Two more observations. The counter of failed logins is not reset when a lock
expires, so the next wrong password locks at once (`register_failed_login`); and
`Settings` admits a block that ends before its window, after which a client that waited
as long as Retry-After said is denied once more (the tests use 60 s for both,
`backend/tests/integration/test_authentication.py:55-56`).

## 4. Proofs

The theorems hold for every value of the constants that satisfies the named
assumptions: any number of objects, entries, requests, workers, tabs and calls,
any size and any limit. Each proof module states an inductive invariant (checked
with TLC on the instances of section 3 before it was proved), one lemma for each
action that keeps it, and the theorems that follow. No property of section 3 is
inductive by itself; what follows says what had to be added and why.

### 4.1 StorageOutboxProofs

With completions whose commit outcome is known (`~AmbiguousUploads`, finding 4),
`ObjectsAssumption` and `BoundsAssumption`: `TypeCorrect`, `BytesSafety`,
`DetachBeforeDelete`, `RecheckSuffices`, `LeaseSafety`, `NoLeak`, and `Refinement`
(`Spec => Lifecycle!Spec`). `IndInv` adds:

* `WorkerLocks`: a worker has locks and uncommitted work only while it detaches,
  and what it has detached is locked, still has a row and has no version. Without
  the lock a version could appear before the sweep's commit.
* `LocksExclude`: claims of different workers are disjoint, and a copy's shared
  rows exist and are claimed by nobody. This is what keeps the recheck valid.
* `WorkerEvents` and `LeaseHolds`: the event a worker holds exists, has the type
  its control state says, is pending, and has one lessee. A worker about to
  acknowledge a delete has already removed the bytes.
* `UploadPhases`, `DeletesAreOfObjects`: bytes, rows and events of an object agree
  with how far its upload came; delete events belong to completed uploads.

`NoOrphanForgotten` (`OrphansAreScheduled`) has the same hypotheses: copies have any
number of files and commit or roll back at any point. A sweep passes over a row that a
copy has locked, and the history variable `passed` is the exemption of the property;
finding 3 shows that it is needed. `ScheduleInv` adds to `IndInv` that a worker has
chosen the oldest pending sweep (`InOrder`), so only one sweep is under way, and that an
orphan the sweep does not have in its hands was passed over or waits for a later sweep
(`PassesOverNone`).

Frame lemmas (`CatalogueFrame`, `UploadFrame`, `CopyFrame`, `OutsideTransaction`)
carry what an action does not touch. The refinement shows that every step is a
step of `ObjectLifecycle` or leaves phases and versions alone.

### 4.2 StorageTreeProofs

Two invariants, because the code guarantees two different things.

* For requests that overlap in any way, `LockInv`: parents are folders, the root
  stays, and what a request checked of a row it has locked is still true
  (`LockedRows`). It gives `TypeCorrect` and `DestinationActive`
  (`AttachedToActive`).
* For requests that do not overlap (`Sequential`, at most one request exists),
  `TreeInv`: every entry is in the closure of the root (`Reached`), the trash is
  closed under children and covered by tombstones, and the snapshot of a subtree
  statement is still that subtree (`Snapshot`). It gives `TreeIsRooted`,
  `NothingActiveInTrash`, `TrashCovered` and `PurgeTakesTrashOnly`. The hypothesis is
  about the whole behaviour, not about the request at hand: a purge that runs alone after
  a trash and a creation that overlapped deletes an active entry. It cannot be dropped:
  findings 1 and 5 are the counterexamples with two requests.

`Rooted` is about a least closed set, so most of the work is in lemmas about
`Closure`: it is the least one (`ClosureLeast`), what it holds besides its rows is
a child of something it holds (`ClosureParent`), and how moving, copying and
deleting a subtree changes it. No induction over the tree is needed.

### 4.3 UploadsProofs

With `SizeAssumption` and `FileAssumption` (a missing file is not a content):
`TypeCorrect`,
`ConfirmedBytesKept`, `CompletedObjectKept`, `CancelledCleansUp` and
`SessionsAdvance`. `IndInv` adds `RowLock` (one request holds the row, and the
session is open), `BeforeRow` (before there is a row only one request is active),
`HolderKnows` (an append started at the confirmed offset, a completion found every
byte confirmed), `PublishedOnce` (the staging file is published once, and whoever
published it is alone, so a pending compensation can only be its own) and
`NothingRaced` (as long as nothing raced, a pending truncation cuts at the confirmed
offset and meets no append, so it leaves a complete staging file and the published
object as they are). The ghost `raced` is the exemption of `ConfirmedBytesStaged` and of
the contents in `CompletedHasObject`, `unsure` that of the object's existence; findings 2
and 4 show that both are needed.

### 4.4 AuthSessionsProofs

`TypeCorrect`, `TokensOnce`, `PasswordHolds`, `RevocationStays`, `BulkIsComplete`
and `Refinement` (`Spec => Store!Spec`). The core of `IndInv`
is that locks exclude each other (`RowsExclusive`, `AccountExclusive`) and that what
the holder of a lock read is still true (`AccountOK`, `SessionOK`): a refresh or a
logout overwrites the whole row with a copy, which is safe only because the copy is
the committed row plus its own change. `BulkOK` follows the `UPDATE` of
`revoke_all_active`: each row of its snapshot is ahead of it, locked and active, or
already revoked; for a password change the snapshot has every active session,
because the account lock keeps logins out. A lock that a deadlock or a rollback
releases takes the uncommitted change with it, so `BreakDeadlock` and `Rollback` need
no further argument. The refinement maps each commit to one step of `SessionStore`
and every other step to a stutter.

### 4.5 LoginGuardProofs

With `GuardAssumption` (natural numbers, positive where the settings say so):
`TypeCorrect`, `LimitHolds`, `DenialsJustified`, `FailuresCounted` and `LockRespected`.
`IndInv` adds that instants are past (`PastInstants`), that the holder of a bucket or of
the account works on the row as it is (`BucketHeld`, `AccountHeld`), and that the row
counts the admitted requests exactly, up to the limit, and is blocked only when its
window is full (`AdmittedCounted`). The instance of the run has too few logins for a
request that waits with an instant from before the end of a block while another opens
the next window; the theorem covers it. `ConsumeRow` and `ConsumeCount` say what
`_consume_locked` does to a row, for an instant older than the row's last change too.

### 4.6 AuthClientProofs

With `BoundsAssumption` (the bounds are natural numbers): `TypeCorrect`,
`RefusalsExplained` and `LogoutsJustified`. The invariant follows a token pair
through its life. A pair is fresh when the server hands it out, and until its answer
is delivered nobody can use it (`Undelivered`); an active session leaves a pair behind
only if its access token had expired or the refresh was needless (`Superseded`,
`Superseding`), which explains every 403; and without losses and collisions the jar
lags behind its session only while the answer of its refresh is under way
(`JarCurrent`), no two refreshes carry the same pair (`RefreshOnce`), so a refresh
carries the current pair and fails only when the session is over (`RefreshCurrent`).

### 4.7 ListingProofs

With `ListingAssumption` (the bounds are positive, and there are names for the
entries of the start): `TypeCorrect`, `WalksAreExact`, `ActivityShownOnce` and
`TagsAreCurrent`, for pages of any length and any number of entries and requests.

`Ordered` chooses rows by their rank. `OrderedRows` shows that the ranks of *n* rows
are 1 to *n*, each taken once, from the cardinality theorems and without induction
over the rows; `PageRows` and `PageFollows` give what a page has: the first rows after
the cursor, in order, and a cursor that is its last row. `IndInv` then has three
groups.

* Walk (`WalkInv`): the cursor splits the listing. What was seen is not after it;
  what has stayed under its key and was not seen is after it, or on the page that
  still waits for its flags.
* Locks and time (`LocksExclude`, `StampsPast`, `StampsOwn`, `StampsGrow`): an entry is
  locked by one request, no row has an instant that is still to come, and the instant
  a storage command has read is on no row and with no other command until it commits.
  An activity command with its row has an instant after those of the row, so with
  `ActivityInv` an entry that was shown can only get keys that the walk has passed.
* Pages (`PageTrue`): an item of a page that was read has the name that its entry has
  now or another `updated_at` than its entry. This is the hidden premise of the ETag,
  which contains `updated_at` and no name.

### 4.8 DownloadsProofs

With `DownloadsAssumption` (positive limits and parsed members): `TypeCorrect`,
`RangesAreExact` and `BodyIsAnnounced`, for files, blocks and range sets of any size.

* `LoopInv` is the invariant of the loop of `_coalesce_ranges`: the merged ranges are
  separated, no range to come starts before one of them, and the bytes of both are
  those asked for. `ResolveRange` compares one member with RFC 9110, `JoinRange` is
  one turn of the loop; without the sorted order it is false.
* `StreamInv`: the bytes sent are the announced ones below the position of the stream,
  ascending (`Prefix`). `PrefixExtended` is one block; `PartsFollow` says that no
  announced byte lies before the first range, between two, or after the last, which
  is what closing one range and opening the next needs.
* `DiskChecked`: after the size check the file is whole or gone. Without it a damaged
  file would end a range early and the response without an error.

### 4.9 Only model-checked

* Liveness (`OrphansAreReclaimed`, `RequestsFinish`, `CallsSettle`): fairness and
  ENABLED are out of the prover's reach.
* `OrphansAreScheduled` with ambiguous commits of uploads (the theorem excludes them).
* The findings are counterexamples.

## 5. Not modelled

* The upload queue of the client. `Uploads` admits every order and overlap of the
  requests it can send; its concurrency limit and progress display are not part
  of any property.
* The folder path and the details of one file: one read each, no cursor.
* Signatures, password hashing, MIME detection and SHA-256 are libraries or pure
  computations; tokens and contents are model values.
* Response schemas, envelopes, configuration, dependency wiring, logging, health
  and metrics: no state that a property needs.
* Migrations and deployment scripts: the schema is read through the models; the
  scripts are I/O around the containers.
* Code without a caller: thumbnails and previews have tables and no writer; nothing
  sets a session to EXPIRED or calls `claim_expired_upload_sessions`; `quarantine`,
  `list_objects` and the reconciliation DTOs have no use case.

## 6. Plan

1. Done: `StorageOutbox`, `ObjectLifecycle` and their proofs; `StorageTree`;
   `Uploads`.
2. Done: `AuthSessions` with `SessionStore`, `LoginGuard`, `AuthClient`, `Listing`,
   `Downloads`.
3. Done: proofs about `LoginGuard`, `AuthSessions` with the refinement of
   `SessionStore`, `Uploads`, `StorageTree`, `AuthClient`.
4. Done: proofs about `Listing` and `Downloads`, and `OrphansAreScheduled`. Every
   invariant and action property of the passing runs is now a theorem.
5. Done: `Uploads` with every await of truncation and publication as a step of its own
   and ambiguous completions; `OrphansAreScheduled` for copies of any size that roll back.
6. Left: a model of the client's upload queue.
