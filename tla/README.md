# AssetHarbor in TLA+

AssetHarbor is a self-hosted media library: a FastAPI server over SQLite and a
directory of files, run as **one process with one Uvicorn worker**, and a Vue
single-page client. This directory holds a formal model of the parts of it in
which order, concurrency or failure matter, the TLC runs that check it on small
instances, and TLAPS proofs for every value of the constants.

Paths below are relative to the repository; `videos.py`, `library.py` and
`images.py` are those of `app/services/`.

## 1. Inventory

| Component | State | Operations | Touches |
|---|---|---|---|
| Resumable video uploads (`videos.py`, `api/routes/videos.py`) | rows `upload_sessions`, `upload_parts`; `uploads/<id>/source.part`, `part-*.tmp` | create, PUT part, complete, cancel, recover at startup and at expiry, hourly cleanup, remove with an account | library rows and `files/`, teams, accounts, quota, disk |
| Video and image library (`images.py`, `library.py`) | rows `images`; `files/` | publish, delete, rename, change visibility, revoke links | uploads, groups, signed links |
| Locks and body streaming (`videos.py`, `library.py`) | library lease (RLock), create, finalization and per-upload locks, counted per-upload inbound gates, body slots, the event loop, the executor | acquire, poll, drain, release, reclaim | every mutation |
| Image uploads (`images.py` `store_upload`) | temporary file, row, file | receive, publish, compensate | lease, quota |
| Media groups (`library.py`) | `media_groups`, `media_group_items` | create, add, remove, move, repair at startup | media, teams, accounts |
| Accounts and roles (`api/routes/admin.py`, `core/auth_scope.py`) | `users` | create, promote, demote, disable, delete with hand-over | everything owned |
| Teams (`services/teams.py`, `api/routes/teams/`) | `teams`, `team_members` | create, invite, join, role change, transfer, leave, remove, dissolve | media, uploads, groups |
| Storage quota and disk reservation (`storage_quota.py`, `videos.py`) | bytes reserved by sessions, `_reserved_write_bytes` | reserve, release, enforce | uploads, images |
| Traffic statistics (`traffic.py`) | bounded queue, writer thread, daily rows | record, batch, retry, flush, shut down, prune | accounts, keys |
| Rate limiter (`ratelimit.py`) | windows in two pools | check, prune | routes |
| Passwords, JWTs (`core/security.py`, `routes/auth.py`) | hash, `auth_version` | login, upgrade, change, revoke | accounts |
| API keys and identifiers (`routes/keys.py`, `identifiers.py`) | key rows, counters | issue, revoke, allocate | accounts |
| Signed links (`signing.py`) | link versions | sign, verify, revoke | media |
| Browser upload store (`frontend/src/stores/videoUploads.js`) | task list, local storage | start, pause, resume, retry, reconcile | the upload API |
| Range and part arithmetic (`routes/videos.py`, `videos.py`) | none | pure functions | |
| Migrations, request pipeline, listings, type detection, views | | | not planned |

**How the parts interact.** Route handlers are threads of a pool, except
`upload_video_part` and `upload_image`, which are coroutines on the event loop;
the hourly cleanup and the commits of parts are jobs of the loop's default
executor. All of them share SQLite, the directory tree and the locks. Every
destructive or publishing step runs under the *library lifecycle lease*, taken
before every other lock. Two long activities deliberately do not hold it: a PUT
receiving its body (it holds its upload's inbound gate and a body slot) and the
hash of a completed upload (it holds nothing). Whatever was read before one of
those is read again after it: account, membership, status and a nonce.

**What is hard.** (a) Three stores, rows, session directory and `files/`, must
agree although a handler writes them one after the other and may crash or be
refused between any two writes. (b) Authority and status are checked before a
body or a hash and used after it. (c) Retries: a PUT whose answer was lost, a
second complete, recovery at startup and at expiry of the same session. (d) A
lock order over locks that are taken by threads and by coroutines of one loop.
(e) Ownership without foreign keys: an account is deleted in five commits, and
every one of them may be the last. (f) Versions instead of a list of issued
tokens and links: an update that reads a row and writes it later may resurrect
what another one revoked. (g) One queue for events, barriers and the stop marker,
bounded, in front of a thread that retries and may be started again.
`PROJECT.json` lists the hazards at their lines with the properties that cover
them, and those that no property covers yet.

**What makes each part correct.**
- uploads: an acknowledged part is stored; what is hashed is what is published;
  once, under authority still valid; no session is stuck; a cancelled directory
  stays away; nothing is published half.
- locks: one request inside a gate; slots never held outside; gates reclaimed;
  nobody waits in a circle; everybody is answered.
- tenancy and groups: every team has an owner who is a member; no asset, group
  or item names an account, team or medium that is gone.
- quota: what is stored and promised never exceeds the limit of an owner.
- traffic: an accepted event is counted once; a flush sees what preceded it; no
  caller of flush or shutdown waits for ever.
- rate limiter: a window never admits more than its limit, at capacity too.
- credentials and links: a revoked token, key or link is never honoured again.
- browser store: a task's state agrees with its jobs; a confirmed part is not
  sent again; every started task settles.

## 2. Modules

| Module | Contents |
|---|---|
| `VideoUpload` | the server side of uploads with the account and team handlers that share its lease |
| `Publication` | the abstract library: open, publish at most once, withdraw |
| `UploadAccess` | the abstract access to an upload's files: stream a body, work under the lease |
| `VideoUploadRefinement` | the mappings under which `VideoUpload` implements `Publication` and `UploadAccess` |
| `VideoUploadInvariant` | the inductive invariant `IInv` |
| `VideoUploadSteps` | lemmas: one `...Keeps` per action, that it preserves `IInv` |
| `VideoUploadProofs` | `Spec => []IInv`, the safety theorems, both refinements and the quota |
| `PublicationProofs` | what the abstract library guarantees |
| `LockOrder`, `LockOrderProofs` | lease, gates, slots, event loop and executor |
| `Tenancy`, `TenancyProofs` | accounts, roles, teams, owners of assets, media groups |
| `Access`, `AccessProofs` | password, JWTs, API keys and signed links under revocation |
| `TrafficWriter`, `TrafficWriterProofs` | requests, queue, writer thread, flushes and shutdown of the traffic recorder |
| `TrafficLedger` | the abstract recorder: accept or refuse an event, answer a flush |
| `RateLimiter`, `RateLimiterProofs` | windows and pools of the rate limiter |
| `MC...` | the instance of each for TLC |

The modules of uploads extend one another in the order of the table;
`Publication`, `UploadAccess` and `TrafficLedger` are instantiated by the
specifications that implement them. `UploadAccess` is where `LockOrder` and
`VideoUpload` meet: the first shows that the locks of the code provide it, the
second that it uses gate, slot and lease no otherwise.
Accounts and teams occur in several modules, each with the part of them that its
own handlers read: `Tenancy` has all their operations, `VideoUpload` those that
race with an upload, `TrafficWriter` the deletion of accounts and keys.

### VideoUpload and the code

*State.* `status`, `owner`, `team`, `live` (not expired), `info` (`resume_info`:
nonce, scope, code, digest), `final` and `rows` are the session and its parts;
`image` the image rows; `dir`, `source`, `files` the disk; `users`, `admins`,
`members`, `teams` the accounts; `lease`, `pc`, `at`, `part`, `blob`, `tmp`,
`digest`, `target` what a running request holds in memory; `mode`, `todo`,
`crashes` startup.

*Data.* A file is a function from parts to the blob in that part's range, with
`Hole` where nothing was written and `Torn` where a write was cut off. A SHA-256
digest is the file itself (no collisions). A short code is a model value; a
fresh one is any code that no image row uses, and by `FreshCodes` no unfinished
session either: the code checks only image rows, and seven random characters
stand for the rest. The verification nonce is the completing request. Ids are
never used twice.

*Actions.* Every handler under the lease that touches two stores is cut at each
commit and file operation:

| Code | Actions |
|---|---|
| `create_upload_session`, `enforce_storage_quota` | `CreateUploadSession` with `Admits` |
| `upload_video_part`, `store_upload_part` | `PutBegin`, `PutReceive`, `PutRefused`, `PutStaged`, `PutRejected`, `PutAbandoned`, `PutDone` |
| `_commit_upload_part` | `PutWrite`, `PutCommitted`, `PutWriteFails`, `PutRepeated`, `PutConflict` |
| `complete_upload_session` | `CompleteBegin`, `CompleteVerified`, `CompleteUnverified`, `CompletePrepared`, `CompleteDenied`, `CompleteMoved`, `CompleteMoveFails`, `CompleteRecorded`, `CompleteRecordFails`, `CompleteReset` |
| `recover_finalizing_session`, `recover_verifying_session` | `RecoverBegin`, `RecoverPublish`, `RecoverUndo`, `RecoverUndone`, `RecoverFails`, `RecoverFault`, `RecoverVerifying` |
| `cancel_upload_session`, `_delete_upload_session_locked` | `CancelCommitted`, `DirectoryRemoved`, `FileUnlinked` |
| `_cleanup_upload_directory` | `CleanupDirectory` |
| `delete_image` | `DeleteVideo` |
| member removal, demotion, dissolution, account deletion | `RemoveMember`, `Demote`, `DissolveTeam`, `DeleteUser` |
| time, process | `Expire`, `Crash`, `StartupDone` |

*Simplifications.* Gate, slot and lease are taken in one step (`LockOrder` takes
them apart, and both implement `UploadAccess`). The part rows a
verification read at its start are taken to be the current ones, which is sound because no part is added while a session is
verifying. `DeleteUser` is one step although it commits several times (`Tenancy`
takes it apart). The heir of a deleted account's team uploads is any the code
could choose. Removing a member never removes the owner, and demotion leaves an
administrator, as the routes enforce and `Tenancy` shows. A failed commit at
startup ends the process, which is the crash action. Cleanup of invalid part
rows and of part rows without a session is left out: with
`AcknowledgedPartsSurvive` and the atomic deletion of rows they are unreachable
without damage from outside; so are sessions with corrupt metadata. Every video
has the same size, so quotas count videos: `UserUsage` and `TeamUsage` add what
is stored to what unexpired sessions reserve. A create that repeats the intent
of a live session gets that session and changes nothing. Free disk space is left
out.

### LockOrder and the code

A request is a walk over steps (`pc`). A PUT polls its gate, polls a slot,
receives, has its buffer flushed by an executor thread, lets everything go and
submits its commit; a commit, a DELETE (after draining) and a cleanup take lease,
gate and work. `registry`, `users` are `_inbound_upload_gates` and
`_inbound_gate_users`; gates are numbered objects, so that a reclaimed gate and
its successor are different ones. A coroutine moves only while nobody blocks the
loop; a job starts only while an executor thread is free. A PUT may be cancelled
or refused at every await (`PutGivesUp`): while it polls or receives, while its
buffer waits for a thread (the job is withdrawn) or is written (closing the file
waits for that write), and while its commit waits for a thread
(`PutWithdraws`). A commit that a thread has begun goes on without the request,
which changes nothing about locks. An image upload that gives up
(`ImageGivesUp`) holds nothing. An image upload takes
the lease *on the loop*, and so does a PUT that finds its session expired while
finalizing (`get_upload_for_user` recovers it). Other lease holders that wait
for nothing add nothing to a wait cycle and are left out. `WaitsFor` gives the
requests one of which must move first; `NoWaitCycle` says that no set of
requests waits only for itself. What all this is for is `UploadAccess`: a body
streams into an upload that nobody else uses, in one of the slots; a request
works on an upload's files alone, and one request at a time works at all.

### Tenancy and the code

*State.* The rows of `users`, `teams`, `team_members`, `images` and
`upload_sessions` (one `media` row, whose `kind` changes at publication),
`media_groups`, `media_group_items`, reduced to who owns what where; `used`, the
ids handed out so far, since the counters of `identifiers.py` never give one
twice; `del`, the account deletion between two of its commits.

| Code | Actions |
|---|---|
| `register`, `create_user`, `set_user_role` | `Register`, `CreateUser`, `SetRole` |
| `teams/*.py` | `CreateTeam`, `AddMember`, `RemoveMember` (and leaving), `ChangeMemberRole`, `DissolveTeam` |
| `create_upload_session`, `store_upload`, publication, deletion | `Upload`, `Publish`, `DeleteMedia` |
| `library.py` groups | `CreateGroup`, `AddItem`, `RemoveItem`, `RemoveGroup` |
| `delete_user` | `Transfer`, `RemoveSession`, `PrepareGroups`, `RemoveAsset`, `RemoveAccount`, and `DeletionFails` after any of them |
| `cleanup_orphan_media_library` at startup | `Startup`, after `Crash` and `Edit` |

Handlers run under the lease, so each is one step; only `delete_user` commits
five times. The guards are the authority checks, recomputed from the rows.
`Edit` is a hand in the database while the process is down: the startup repair
exists for it, so it is limited to what that repair can mend (it never removes
the owner of a team or an administrator). Members of a dissolved team keep their
rows, as in the code. Names, colours, their uniqueness and their limits are left
out.

### Access and the code

One account, its keys and one asset. Nothing issued is stored: a JWT carries
`auth_version`, a link `signing_version`, and each is good while that version is
current. `tokens` and `links` are the history of what was issued, with a mark on
what a later change was meant to revoke. Requests that read a row and write it
later hold what they read in `held`:

| Code | Actions |
|---|---|
| `login` | `Login`; with a hash of the old scheme `LoginVerifies`, `LoginUpgrades`, `LoginRefused`, `LoginAnswers` |
| `change_password` | `ChangeBegins`, `ChangeCommits`, `ChangeRefused` |
| `reset_password`, `set_user_role` | `AdminOpens`, `ResetCommits`, `RoleCommits` |
| `ensure_admin` after a restart | `Restart` |
| `routes/keys.py`, `_next_api_key_id` | `KeyRequested`, `CreateKey`, `RotateKey`, `RevokeKey`, `KeyRefused` |
| traffic of keys: `_commit_batch_under_lease`, `_prune_expired_traffic` | `KeyUsed`, `TrafficRemoved` |
| links of an asset, `update_media_metadata`, `revoke_media_links` | `IssueLink`, `MediaOpens`, `LinksRevoked`, `MadePrivate`, `MadePublic` |

Tokens and links that merely expire are left out: time can only end them
earlier. So is who may administer the account or manage the asset (`Tenancy` has
those rules). A salted hash is told apart by the version it was made for. Rows
of traffic come and go: an event of a key may be recorded after its revocation,
and rows are pruned by age or removed with an account. The counter starts where
the migration puts it (`migrations.py:225-256`), at or above every id that a key
or a row has by then.

### TrafficWriter and the code

`queue`, `started` (`_worker`), `wpc` and `batch` are the recorder; `fpc` and
`spc` the callers of `flush_traffic` and `shutdown_traffic_recorder`; `users`,
`keys` what the events may name. The thread's loop is `Get`, `Drain`, `Drained`,
`Resolve` (under the lease), `Written` or `WriteFails`, `Prune`, `Control` (the
code resolves and writes in one transaction, the model in two steps, which is
the weaker system and leaves the lease as the only protection); a
control item met while draining is deferred until the batch is committed. A
flush, and the shutdown's own, is `Call`, `PutBarrier` or `NoRoom`, `Answer`; a
shutdown keeps `_state_lock` while it waits for room for the stop marker
(`Shutdown`, `ShutdownLocks`, `ShutdownStops`, `ShutdownJoined`), and a request
that comes later starts a new thread (`Record`).

A row of `traffic_daily` is the sum of the events merged into it, so the model
keeps per event how often it was added (`times`) and under which names
(`label`). `Caller`, `Via` and `Holder` fix the identity of each request. Ids
are never given twice, so the comparison of `created_at` in the code agrees with
existence. `DaysPass` and `Prune` stand for the retention. A timeout of a waiting
caller may come at any moment. One shutdown per process.

`TrafficLedger` promises: an event is accepted or refused, never both; an
accepted one is counted at most once; a flush that answers true answers for all
that was accepted before it. `TrafficWriter` implements it.

### RateLimiter and the code

`check_rate_limit` reads the clock, waits for one lock and does the rest under
it. Each call is one action, `Request(k, d)`, whose clock is `d` ticks old, up
to a constant `Lag`. Calls are therefore not ordered by their clocks: a late one
may begin a window in the past, find a window run out later than an earlier one
did, or move the next pruning back. Time is kept as ages: of a window, until the
next pruning, and of what was admitted. Ages stop at `Window + Pause + Lag`,
after which nothing asks for them, and a count stops at `Limit + 1`. The lag
costs the promise its own length: less than twice the limit is admitted in any
stretch of `Window - Lag`, while a stretch one tick longer can see requests of
three windows. A limit of zero or less switches the limiter off and is left
out, as is a change of the window's length for a key, which no caller makes.

## 3. Runs

| Run | Instance | What it shows |
|---|---|---|
| `publish` | 1 upload of 2 parts, 2 bodies, 1 PUT at a time, 2 completions, 2 workers, 2 codes, two administrators and a team, 1 crash, faults | `IInv` holds; acknowledged parts survive every order of writes, moves, undone moves and crashes; a verified file is frozen; publication is verified, intact, unique and authorised at the moment of its commit; no directory is resurrected; the library behaves as `Publication` |
| `liveness` | 1 upload, 1 crash, faults, fairness | no session stays verifying or finalizing, no retired directory stays |
| `oversell` | 2 uploads, quota of one | **violation**: an expired session is revived and exceeds the quota |
| `order` | 3 PUTs (two of one upload), DELETE, cleanup, 1 slot, 4 threads | gates are exclusive and reclaimed, nobody waits in a circle, the locks behave as `UploadAccess`, and everybody is answered |
| `loop` | 2 PUTs (one late), DELETE, image upload, uploads all different | a lease on the loop is harmless while the lease holder waits for no PUT |
| `image` | 2 PUTs of one upload, an image upload | **violation**: the process deadlocks |
| `threads` | 2 PUTs, cleanup, 2 threads | **violation**: the executor deadlocks |
| `queue` | 2 requests, a flush, a shutdown, 1 account with a key, room for 2 | an event is counted once and at last, a true flush has seen what preceded it, no row names a deleted account, the recorder behaves as `TrafficLedger` |
| `rows` | 3 accounts, a team, an asset, a group, 1 crash, 1 edit | an administrator and the owners of teams remain; groups and items name what exists; a deletion takes personal assets only |
| `revocation` | 2 requests, 2 passwords, 3 versions, 2 key ids | no password comes back, no revoked token or link is honoured, no key id is given twice, whatever traffic is removed |
| `login` | the same, without keys and links | **violation**: a login with the old password gets a token of the new version |
| `windows` | 3 identities for a pool of 2, 1 for a pool of 1, limit 2, window 3, pause 1, lag 1 | any stretch of a window less the lag admits less than twice the limit; a newcomer is refused only for live windows |

**Bounds.** *Uploads.* Two parts are the least with a first part (whose head is
sniffed), a last part and a hole. Two bodies tell a repeat from a conflict. Two
completions and two workers are the least for a race of complete with complete,
with recovery and with cancel; a third would only repeat, since one holder of
the lease moves at a time. One crash per run meets every pair of writes. Two
codes let a wrong code be taken. Two PUTs of one upload at once, two uploads
beside each other and any number of crashes are in the proofs only. A crash is
the death of the process: what was committed or renamed before it stays. The
failure of the machine is left out; there more could be lost, since commits are
not synced one by one (`database.py:34`, `synchronous=NORMAL` with a
write-ahead log) and files are synced but their directories are not. A
`part-*.tmp` that a crash leaves behind is not followed: nothing but the removal
of its directory and the hourly sweep meets it again.
*Locks.* In `order` one slot makes PUTs of different uploads compete, and threads
exceed jobs so that the executor never decides; the real pool has
`min(32, cpus + 4)`, and `threads` needs only as many waiting commits as the
pool has threads. *Traffic.* Room for two is the least at which an event, a
barrier and the stop marker compete for the last place, and a batch of two the
least that a control item can cut short. *Tenancy.* Three accounts are the
administrator who deletes, the one who is deleted and an heir; the proofs are
for any numbers. *Access.* Two requests overlap in every pair of handlers; three
versions are two changes. Two key ids let one be revoked, used late and pruned
before the next is chosen. *Limiter.* A window of three, a pause of one and a
lag of one separate expired, pruned, live and late; one identity more than fits
is refused.
Symmetry is used where the constants of a set are interchangeable and no
liveness property is checked (`rows`, `revocation`, `login`, `windows`).
`CHECK_DEADLOCK FALSE` everywhere: requests are finite in number, and when all
have been answered the system rests.

**Fairness.** `VideoUpload`: a thread that holds the lease goes on (weak); time
passes; the hourly cleanup and startup meet every session they can act on again
and again, which with an operating system that does not refuse the same
operation for ever is strong fairness of the retried steps (the loop of
`app/main.py` retries after every exception). No request is assumed to be sent.
`LockOrder`: every thread and ready coroutine is scheduled (weak), and a client
sends the rest of its body or is disconnected. The application itself has no
such timeout, so this is the reverse proxy's or the operating system's;
without it a stalled client keeps its gate, a DELETE of the
same upload waits for it with the lease, and the library stands still.
`TrafficWriter`: the writer thread is scheduled (weak), and the database does not
refuse every retry of a batch (`_worker_loop` retries without end, so strong
fairness of `Written`). `Tenancy`, `Access` and `RateLimiter` have no liveness:
nothing in them goes on by itself.

**Mutants.** Every property of a passing run is broken by a plausible slip in
the code (a dropped status check, the wrong code unlinked, a slot or reference
not given back, a lease not taken, a version computed from a stale row); the
mutated operators stand next to the ones they mutate.

## 4. Proofs

All theorems hold for any values of the constants under the named assumption of
each module (`ConstantsAssumption`, `DistinctAssumption`, `RequestsApart`,
`PoolsNotEmpty`, `NobodyApart`, `TenancyAssumption`, `AccessAssumption`,
`TrafficAssumption`, `LimiterAssumption`), which say that special values are not
data, that kinds of requests are disjoint and that limits are numbers, and under
the modelling decisions above. Theorems that assume more say so in their
statement. Each set has the same shape: an invariant `IInv`
that holds at first and is kept by every action, and the properties from it.

**Uploads.** `IInv` is needed because none of the safety properties is
inductive: that a row is backed by bytes depends on who is in the middle of a
write, a move or a removal. Besides types it says: each kind of request walks
its own steps; a request between two steps of a leased handler holds the lease
(`LeaseHeld`, so at most one is); a finalizing session names an unused code of
its own and has its bytes at exactly one end of the move
(`FinalizingRecorded`, `CodesDistinct`); rows imply bytes before publication
(`RowsBacked`); what a running handler established still holds at its next step
(`WritesFounded`, `VerificationsFounded`, `MovesFounded`, `RemovalsFounded`);
and a published row has its file and an upload that is published or gone
(`ImagesBacked`). `VideoUploadSteps` proves for each action that it keeps each
conjunct it can disturb; `VideoUploadProofs` puts them together:
`InductiveInvariant`, and from it `TypesHold`, `PartsSurvive`,
`PublishedStaysIntact`, `PublishedIsVerified`, `PublishedAtMostOnce`,
`FailureMeansNoOwner` and the action properties `VerifiedFileStaysFrozen` and
`RemovedDirectoriesStayRemoved`. `PublicationIsAuthorised` adds an invariant of
its own, `Authorised`: a request between its last check and the commit still has
the authority it found, because it holds the lease under which alone accounts
change. The nonce (`videos.py:1024`) is a second line of defence: TLC finds every
property of `publish` intact without it, since a row pins the digest of its
part, so that a session verified anew has the bytes it had. That a digest is still its
file's when it is applied rests on `VerificationsFounded` and
`VerifiedFileFrozen`, and `PublishedIntact` is what would break.

`Refinement` maps creation, publication (by a
completion or by a recovery) and removal of rows to `Open`, `Publish` and
`Withdraw`, everything else to a stutter. `OnceEach` and `UnchangedWhileServed`
say what the abstract library promises its readers, hence what the code gives
them.

`UploadsImplementAccess` maps a PUT that receives to a stream and a request that
writes, removes or unlinks to work; a free gate means that nobody uses the
upload, a free lease that nobody works (`FreeGateUnused`, `FreeLeaseUnused`).
TLC checks `ImplementsAccess` for `LockOrder` only: in `publish` it would double
the length of the run, and the theorem says more.

`OnlyRevivalOrInheritanceOversells` puts finding 3 in its place. `WithinQuota`
is false of the code, but every step that breaks it either gives an expired
reservation its expiry back or publishes it, or hands something over
(`NothingComesBack`, `NothingInherited` exclude them, both as conditions on each
step). All other steps keep it: usage is a sum of two cardinalities, a creation
adds one to an account that had room for it (`CreationFits`), a publication moves
one from the reserved to the stored (`RecordingFits`), and everything else
shrinks both sets (`PromisesShrink`, `VideosShrink`). The theorem is for finite
sets of uploads and codes.

**Locks.** `RegistryInv`: a registered gate belongs to one upload, every counted
request refers to the registered gate of its upload, and the reference count is
the number of those requests. `LeaseGate` and `DropGate` keep it, whatever
request calls them. `ProcessInv`: a request refers to a gate exactly while it
waits for it or is inside, and has acquired it exactly while inside. A new gate
object can always be found because there are more of them than requests
(`TypesHold`, by counting). From both: `OneInsideAGate`, `SlotsStayInside`,
`GatesAreReclaimed`. `NobodyWaitsInACircle` states `NoWaitCycle` under two
assumptions more: nobody takes the lease on the event loop (no image uploads, no
late PUTs) and the executor has a thread for every PUT and cleanup. Findings 1
and 2 show that the code needs both. With them the waits lead one way, from the
lease to the gate, from the gate to the slot, and from the slot to a body that
waits for nobody (`LeaseInv`, `ThreadsToSpare`). `NobodyWaitsWithoutSharing`
keeps images, late PUTs and any number of threads, and assumes instead that every
PUT has its upload to itself. Then a gate that somebody waits for is held by a
request that works and waits for nothing (`GateOwner`), the holder of the lease
goes on, and with it whatever waits on the loop or in a thread: both deadlocks
need a second request for one upload.
`LocksImplementAccess` maps the taking of a slot to a stream and of the second
gate to work, everything before them to nothing.

**Tenancy.** To `AdministratorRemains`, `TeamsOwned` and `GroupsRooted` the
invariant adds `IdsUsed` (what exists has an id that is never given again) and
`DeletionPrepared`: between two commits of a deletion the account owns no team,
another administrator exists, and after `PrepareGroups` no group or item names
it. Together with the last commit this is what makes the five commits safe.

**Access.** The invariant has one part per kind of row. Tokens and links that
were revoked name a smaller version than the current one (`TokensBehind`,
`LinksBehind`); an id once given to a key is at most the counter, whatever
becomes of the key and of its traffic (`IdsCovered`); whoever is about to write a version it has read holds the lease,
so what it read is current (`WritesCurrent`). `OnlyTheReloadMisleads` is finding
4 turned round: `TokensProvePassword` fails of the code, and holds of every
behaviour in which the answer to an upgrading login signs the version it
verified (`AnswersAsVerified`). A login whose row still has that version has
verified the current password (`LoginsVerified`), and every change of password
or role moves the version on.

**Traffic.** An event is queued in one place at most (`QueuedApart`), batched
events are not counted until the commit and are counted once after it
(`BatchCounted`), an accepted event is somewhere (`NothingLost`); nothing a
flush answers for is behind its barrier (`BarriersBehind`); names resolved under
the lease still stand when they are written (`ResolvedFresh`).
`RecorderImplementsLedger` maps `Put` to acceptance or refusal, `Written` to
the counting of a batch, `Call` to the opening and `Answer` and `NoRoom` to the
answer of a flush, everything else to a stutter.

**Rate limiter.** `FewerThanTwice` is about a sum over the admissions of a
stretch. Its induction is over the ages, and the library's induction
theorems cannot be instantiated here; `NatSets` gets it from the
well-foundedness of the naturals, as a lemma about sets of numbers. From it come
the facts about sums that the steps need: a sum over no ages is zero, a sum
splits at an age, shifts with time and grows by what is added. The invariant
then says, besides types: a window has counted what was admitted since its first
request, up to the lag, and what was admitted before that, but within the
stretch, is below the limit (`Accounted`); no window a pool still holds is older than
the pause since its last pruning allows (`PauseInv`); a pool holds finitely many
windows, within its capacity (`PoolsInv`); and a refusal at capacity met live
windows only (`FullOfLiveWindows`, which is inductive).

**Only model-checked:** the liveness properties (no rule here for fairness and
ENABLED) and the violations.

## 5. Findings

1. `image` (`images.py:221`): `store_upload` waits for the library lease on the
   event loop. Two parts of one upload and an image upload suffice: the commit
   of the first part holds the lease and waits for the gate that the second
   PUT holds; the second PUT needs the loop; the loop waits for the lease. The
   comment at `videos.py:1384` excludes a reverse-order wait and overlooks the
   loop. `get_upload_for_user` takes the lease on the loop as well.
2. `threads` (`videos.py:697`): commits wait for the lease in the executor in
   which body writes run, so enough of them keep the gate holder from ever
   finishing its body.
3. `oversell` (`videos.py:811`): the commit of a part does not look at
   `expires_at` again and renews it. A part received in time and committed late
   revives a session whose reservation has meanwhile been given to another, and
   the owner's quota (`README.md:124`) is exceeded.
4. `login` (`auth.py:140`): after upgrading a legacy hash, login commits, reloads
   the row and signs the version it finds there. A password change between the
   two gives a login with the replaced password a valid token, which the comment
   at `auth.py:120` excludes.

Two gaps were met that no run shows. A file whose unlink the operating system
refused is never looked at again, although comments promise a later sweep
(`videos.py:1365`, `images.py:317`). `delete_user` hands over assets of teams the
account still belongs to (`admin.py:483`); those in teams it had already left
keep the deleted id as their owner.

## 6. Plan

Open, in order:

1. `UploadStore`: the browser's tasks, jobs, pauses and retries over an
   unreliable network; implements an abstract task, composed with the server's
   answers as `VideoUpload` gives them.
2. `ImageUpload`: temporary file, row, file and their compensation; composed
   with deletion.
3. Disk reservation: `_reserved_write_bytes` under concurrent writes; theorem:
   the counter equals the promises in flight.
4. Pure operators: `_parse_range`, `_expected_part`, `_parse_content_range`,
   `_part_peak_growth` against reference definitions.
5. Proofs: `TeamUsage` against the team's quota, as for accounts; what
   `UploadAccess` promises, as `PublicationProofs` does for the library; no wait
   in a circle while images exist and threads suffice for shared uploads only.

**Not modelled:** schema migrations (sequential, before anything else starts),
byte-level type detection and fingerprints (abstracted to `Videos`, `Sampled`,
`Declared`), the HTTP pipeline, listings and statistics pages, and the browser's
views: no state that steps of two actors share.
