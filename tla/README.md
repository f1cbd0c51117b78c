# simply-storage: a TLA+ verification project

simply-storage receives files over HTTP, deduplicates them by SHA-256, keeps the
bookkeeping in PostgreSQL (Citus) and replicates the content to several storage
backends with background workers. Several replicas of the process run against one
database, and nearly every operation is a sequence of independent SQL statements
and storage calls. This directory models the parts that change shared state: which
row, object or temp file each statement reads and writes, in which order, with every
request, worker and replica interleaved at statement boundaries, and with statements
that fail and processes that die in between. Source paths below are relative to
`src/src/` of the repository.

## 1. Inventory

| component | state | operations | interacts with |
|---|---|---|---|
| Replication queue and sync workers (`workers/sync_worker.rs`, `SyncTask`, `FileLocation` in `db/models.rs`) | `sync_tasks`, `file_locations`, a temp file per batch in each process | claim, batch, download, upload, record, complete, supersede, requeue, fail, reclaim | rows come from uploads, tiers and bulk sync; writes locations everybody reads |
| Files (`services/file_service.rs`, `api/files.rs`) | `files`, `file_references`, `file_locations`, objects | upload with deduplication, single and bulk delete with orphan cleanup | plans sync tasks; resolves containers through `backend_resolver.rs` |
| Resumable uploads (`api/uploads.rs`, `workers/upload_cleanup_worker.rs`) | `upload_sessions`, `*.part` temp files, an advisory lock | create, HEAD, PATCH, finalize, terminate, sweep | ends in the file service's store |
| Tiers (`services/tier_service.rs`, `workers/tier_worker.rs`) | `file_locations.status` and `last_accessed_at`, `storages.is_hot` | archive scan, completed archives, restore, touch on download | queues sync tasks, waits for their result |
| Backups (`services/backup_service.rs`, `workers/backup_worker.rs`, `api/backups.rs`) | `backup_configs`, `backup_history`, dumps, an advisory lock on a pooled connection | schedule, trigger, dump, retention, delete | storages |
| Shared links (`services/shared_link_service.rs`, `api/shared_links.rs`) | `shared_links`, download tokens | create, verify password, download and count, deactivate | files, containers |
| Authentication (`services/auth_service.rs`, `api/auth_routes.rs`, `api/auth.rs`) | `users`, `refresh_tokens`, claims in access tokens | login, refresh, logout, edit and delete users, seed an admin | every request |
| Bulk sync and export (`services/bulk_service.rs`) | export jobs and archives in the memory of one process | sync_all, start, status, fetch | queues sync tasks, reads backends |
| Storage registry and administration (`storage/registry.rs`, `api/storages.rs`) | a map of backends in each process, `storages`, `user_storages` | load, create, edit, disable, members | every storage call |
| Projects and assignments (`api/projects.rs`) | `projects`, `user_projects`, `project_storages` | create, edit, delete, members, assignments | containers of files, access checks |
| Storage backends (`storage/*.rs`) | the objects, containers and directories | upload, download, delete | called by everything |
| Search, lists and dashboards (`api/files.rs`, `api/dashboard.rs`, `db/models.rs`) | — | compile filters, page, summarise, bulk download, aggregate | `file_references`, `files`, events |
| Nodes, start and shutdown (`main.rs`) | `nodes` | load backends, seed an admin, heartbeat, spawn and stop workers | — |

What is hard in this code:

- *no statement spans a decision*: a SELECT decides, a later statement acts by id
  (claims, archives, orphan scans, stale backups);
- *session-level advisory locks on pooled connections* (`upload_cleanup_worker.rs:89`,
  `backup_worker.rs:118`), which a pool may hand back, lend again or close;
- *several resources, no transaction*: a file's row, its object, its location and its
  tasks are written one after the other, and a failure leaves a prefix;
- *shared names*: a temp path derived from a row id, a storage path derived from a
  hash, a container derived from a project;
- *time as a trigger*: 15 minutes for a stuck task, a configured lifetime for a session, an hour
  for a running backup, days for a hot copy, each racing the work it gives up on.

`hazards` in `PROJECT.json` lists these at their lines, with the properties that would
catch them going wrong. Two have none in a run, and say why: the locations left `restoring`
(`tier_service.rs:229`), where the code does go wrong, and the deletes of an account's tokens, links
and row (`auth_routes.rs:150`), about which a theorem says what a run would (`ReferencesSafe`).

What makes each component correct:

- *queue*: a completed row is a synced location, a synced location is an object, the
  object is whole, a row fails only when its retries are used up, ended rows stay
  ended, and every row ends;
- *files*: references, locations and tasks point to live files, a location has its
  content, a copy that serves a reference stays, a finished upload's reference goes
  only when its project deletes it, a new file reaches all storages of its project;
- *sessions*: the reported offset is covered by bytes, the bytes are the client's,
  the stored object is the client's file under its own hash, a completed session has
  its reference, a running one keeps its temp file, every one ends;
- *tiers*: the last copy that downloads use is never archived; an unused hot copy is;
- *backups*: one dump at a time, one scheduled row per cron slot, retention keeps
  the newest dumps, a dump is listed, a slot that comes is served;
- *links*: no more downloads than allowed, none without the link's own password, none
  that begins after a revocation, none from another project's container, and the storage's
  own only after a change or a failure the resolution swallowed;
- *accounts*: a refresh token is exchanged once, none outlives a change of the account's role
  or password, an administrator remains, nothing refers to a deleted account, a start never seeds twice;
- *registry and exports*: a process holds the backend of the row, or there is a known
  reason; a completed export has its archive;
- *backends*: every kind keeps the contract the callers rely on, every call returns;
- *queries*: a search finds, a bulk delete deletes and a summary counts what the filter
  describes, the pages cut from one order of the rows neither repeat nor skip, the numbers of a
  dashboard agree with each other;
- *permissions*: the checks and the lists, written in several places, agree.

## 2. Modules and the code

A component has up to three modules: the specification, `MC<name>` with the constants
of its instances for TLC, and `<name>Proofs` with its theorems. A step is one SQL
statement, one call of a storage backend, or one file operation; what the code does
in one transaction is one step, or a group of steps whose effects appear at the commit.
The clock appears as steps that make a row due, stale or expired. `faults` counts the
failing statements, backend errors and crashes of a behaviour, up to `MaxFaults`; in Serving it
counts the failing calls of backends and the failures that a resolution swallows, while a
statement whose error ends the request is left out there, since nothing then happens.
`map` in `PROJECT.json` gives the lines behind every definition.

**SyncQueue**: `sync_tasks` (`status`, `retries`, `due`, `stale`), `file_locations`,
the objects of each container (`none`, `partial`, `whole`), each process's temp files
and each worker's registers. `Reclaim`, `FailExhausted`, `SelectPending`, `TryLock`,
`MarkClaimed`, `ClaimDone` are the statements of `claim_pending`; `StartBatch` to
`BatchDone` are `process_batch` with its one download per batch; `UploadOk` to
`SupersedeFailed` are `finalize_task`; `Requeue` and `FailAllDone` are the error paths;
`ClaimError` and `Crash` are a failing statement and the death of a process. Rows are
columns fixed by the constant `Job`; what inserts them is `Enqueue`.

**FileStore**: `files`, `file_references`, `file_locations`, open tasks and the objects
as triples of hash, storage and container. `FindByHash`, `InsertFile`, `Store`,
`Locate`, `Link`, `Scan`, `Enqueue` are `upload_file` and the shared end of
`finalize_upload`; `UploadError` leaves at any of them; `DeleteReference` is
`delete_file_reference`; `BulkStart` to `BulkCommit` are the transaction of
`bulk_delete`, `BulkRemove` its physical cleanup. The sync worker is reduced to its
effect on a file: the copy, then the location (`SyncCopy`, `SyncRecord`, `SyncGiveUp`).
Containers follow `backend_resolver.rs`: a project's own, or the storage's default.

**UploadSession**: the row of a session, its temp file as the sequence of the client's
byte numbers it holds, the objects it became and the requests on it. `CreateTemp` and
`CreateRow` are `create`; `Load`, `OpenTemp`, `Append1`, `BodyFails`, `AdvanceOffset`
are `patch` up to its compare-and-swap; `HashTemp` to `RemoveTemp` the finalization;
`TerminateTemp` and `TerminateRow` the delete; `TryLock` to `Unlock` a sweep of a
replica. A hash is the sequence itself, so equal hashes are equal contents. A storage
either renames the temp file or copies it (`Primaries`).

**Tiering**: one file's location on every storage, its queued tasks, the scan of each
replica's tier worker (`Find`, `FindCold`, `InsertTask`, `SelectReady`, `Archive`),
restore requests (`RestoreFind`, `RestoreInsert`, `RestoreMark`), the sync worker's
two writes, downloads, and an admin who flips `is_hot` or `enabled`.

**Backup**: the rows of one config in insertion order, the cron slot each was inserted
in, the dumps on the storage, pooled connections with the count of advisory locks each
holds, and the processes: a worker per replica (`Scan`, `CheckDue`, `MarkStale`,
`CheckError`, `Lock`, `InsertScheduled`), triggers (`TriggerStale`, `TriggerCount`,
`TriggerInsert`), what they share (`Dump`, `MarkCompleted`, `MarkFailed`, `Unlock`,
`ListOld`) and the deletes (`AdminRequest`, `DeleteFile`, `DeleteRow`, `DeletesDone`,
`DeleteConfig`). `CloseConn` is the pool dropping an idle connection, `Restart` a
replica that dies and comes back.

**ObjectStore** is the abstract specification of a backend: what `storage/traits.rs` lets
its callers expect. On an atomic store a call takes effect at once or not at all; on the
others an upload is visible while it runs, and a call that met no other upload or delete of
its path has its effect when it returns. **Backends** is the detailed one: calls on one
storage of one of seven kinds, request by request. `PutOnce`, `CreateContainer`,
`MultipartSteps` are the cloud services with the container an upload creates when it misses
it; `EnsureParentDirs`, `OpenFile`, `WriteChunk`, `CloseFile`, `Rename`, `RetryConflict` the
backends that write in place; `LocalDelete` with `CleanupEmptyParents` the delete that takes
the directory along. `OS` maps it to ObjectStore.

**Access**: accounts, refresh tokens, the claims in access tokens, projects and memberships,
and the start of each process. `BootCount` and `BootSeed` are the seeding in `main.rs`;
`Login`/`LoginInsert`, `Refresh`/`RefreshFind`/`RefreshInsert`, `Logout` the sessions;
`UpdateUser` the transaction that also deletes the tokens, whether the role, the password or both
change, each of which is a new `version` of the account; `DeleteTokens`/`DeleteUser` the
statements of `delete_user`. A caller is an access token, whose claim may be outdated.

**Serving**: one file and everything between it and a client: storage rows, the registry of each
process, containers of projects, links, exports. `CreateLink` to `IncrementCount` are
`shared_link_service.rs`; `Locate`, `ReadRefs`, `Resolve`, `Fetch` a download, for a link or a
member, through `backend_resolver.rs`: `Resolve` leaves out, as a fault, any of the references whose
project, assignment or backend cannot be had, since the code drops these errors; `CreateStorage`,
`FindStorage`/`UpdateStorage`, `DisableStorage`, `Register` an edit of a storage and its
registration in the process that serves it; `Crash`, `Start`, `Listen` a process with
`load_backends_from_db`; `StartExport` to `TakeArchive` the exports with the lock on the jobs.
`work` says which kinds of operation come in a behaviour, so that TLC takes them in groups that
meet; the proofs do not depend on it. **SharedLink** is the abstract specification of a link: what
it promises the project that hands it out, whatever happens to storages, registries and processes. A
download is admitted while the link is open, its password given and its limit not reached; it is
answered and counted, or dropped; a closed link does not open again. `Contract` maps Serving to it:
`State(l)` is open, closed or deleted from the row and its expiry, `inside` the link a request is
fetching the file for, `given` the verified tokens, `served` the responses with the file.

**Permissions**: owners, members, users of storages, assignments, soft deletes; every access check
and list of the API as an operator of its own, and writes that are checked in one step and made in a
later one. **Search**: the compiler from filters and conditions to SQL with numbered parameters,
against what the filter means (`Means`); pages, previews of bulk deletes, summaries, entry names of
an archive. A clause is the function from lists of arguments to the rows it holds for; `FilterOf[n]`
are the filters of up to `n` levels and `CompileInner[n]` compiles them, each level from the one
below, which is the recursion of `compile_inner`. The filters, rows and names that are asked for are
constants (`Filters`, `Table`, `EntryNames`). `LooksLike` is ILIKE: the strings a name is taken for,
only itself when it has no wildcard. `Listings` are the orders in which the query of a page may
return its rows: newest first, and those of one instant in any order; `Moments` bounds the dates and
sizes that are asked for. **Dashboard**: the aggregates of `DashboardStats` over tables of up to
`MaxRows` rows. Search and Dashboard have no state but the question asked (`AskSpec`). The three
share a run with Serving, each as a workload of its own.

FileStore and Tiering stand on SyncQueue: both replace the worker by the writes
SyncQueue shows it to make. UploadSession ends where FileStore's upload begins. SyncQueue,
FileStore and UploadSession see a storage as ObjectStore shows it: whole at once, or part of
an object while an upload runs or after one failed.

## 3. Runs

`tlc -config <cfg> MC<module>`; each of them ends within the five minutes allowed.

| run | instance | shows |
|---|---|---|
| `sync_queue` | a worker in each of two processes, two rows of one batch to a renaming target, one fault | status, locations and objects never contradict each other, ended rows stay ended, replicas are whole; every row ends for good |
| `file_store` | three uploads of one content by two projects with their own containers, a bulk delete, single deletes, one fault | the uploader's copy is there, no copy in use is taken, locations resolve within one container; a file that stays referenced reaches all storages |
| `upload_sessions` | two PATCHes on a session of two bytes, a renaming and a copying storage, terminate, expiry, a sweep whose unlock may miss its connection, one fault | offsets, acknowledged bytes and stored objects agree; every session ends |
| `tiering` | a hot and a cold storage, two tier workers, a restore, downloads, one edit, one fault | a synced location remains; unused hot copies are archived |
| `backup_safety` | two replicas, a trigger, three connections, three rows, two slots, one fault | one dump at a time, one row per slot, retention keeps the newest |
| `backup_schedule` | two replicas, a delete of a backup and of the config, an edit, one fault | dumps are listed; a slot that comes is served |
| `backends` | three calls on two paths of one directory or container, one content large enough for multipart, two chunks, each of seven kinds of storage, one fault | every backend implements ObjectStore; torn objects have a cause; every call returns |
| `access` | two processes that start on an empty database, three accounts, two sign-ins, two requests in flight, one edit, a project | sessions end with a change of role or password, tokens are exchanged once, an admin remains; every process comes to serve |
| `serving` | two processes, two requests, two projects sharing a file, two protected links with a limit of one, a storage with a good and a broken config, an export, two edits, one fault; all filters of up to two levels and of three with two parts each over two keys, some of four levels; eight rows of a page in two orders; two callers, two projects and two storages with three changes | Serving implements SharedLink (`KeepsContract`); links, registries and exports as listed in section 1; searches, bulk deletes, summaries and archives answer what was asked (`AnswersExact`), pages are the result in pieces, also between orders when no two rows tie (`PagesPartition`), and the numbers of a dashboard agree (`DashboardAddsUp`); checks, lists and shown status agree (`ChecksAgree`) and writes under way were permitted; revocations hold and exports end |
| `sync_truncated` | two workers of one process, one row, no fault | **violated**: a truncated replica is listed as synced |
| `file_lost_reference` | two uploads, one bulk delete, no fault | **violated**: a bulk delete takes a reference nobody asked to delete |
| `upload_live_temp` | one session, one PATCH, one sweep, no fault | **violated**: the sweep deletes the temp file of a running upload |

The bounds are chosen so that the interesting cases happen. Two workers are enough
for a double claim, a reclaim from a slow worker and a shared temp file, since each of
these involves two holders of one row; two rows are enough for a batch that a rename
breaks and for a supersede. With one retry and one fault a row fails, is taken back, or ends
after a second attempt. Three uploads are a creator, a duplicate during its upload, and one
after a delete. Two bytes are the least with which a body can break off in the middle and
two PATCHes can both append. Two slots and three rows give a slot after a failed or stale
backup, and with `Retention = 1` every further dump is cleaned up. Two calls share a path and
the third one its directory: an overlap on a path and a directory that vanishes beside it
each take two. Two accounts are the least that can demote each other, the third is seeded by
the slower process or created. Two links of two projects are the least for a token or a
container of the wrong one, two requests for a limit checked twice before it is counted. Two
edits of a storage are the least that can be registered in the opposite order. Where links
are revoked the file is in the container of one link's project, so that one link finds it and the
other does not; the other workloads with a storage start from every placement. `MaxFaults`
bounds the faults of one behaviour: one fault at every possible place. The proofs
below do not depend on any of these numbers. Deadlock is checked for SyncQueue, whose
workers never stop polling; the other configurations switch it off because their finite
sets of requests and edits run out.

No run repeats what a theorem states and a small instance adds nothing to: the type invariants with
their foreign keys, `FailedIsExhausted`, `LocationBacked` of FileStore, `CompletedIsReferenced`,
`ReferencesLive` and `NoReseed` are proved (section 5). Every property of a run has a mutant in
`PROJECT.json`: a version of one definition with a plausible slip (a dropped guard, a swapped order,
a missing re-check) under which TLC finds the property violated in the same configuration.

## 4. Fairness

All fairness is weak, on whole processes, and only where the code loops or must end:

- *SyncQueue*: a worker keeps taking steps, because `run` loops for ever and a process
  that dies is started again; a `retry_after` passes, and 15 minutes pass.
- *FileStore*: a handler that has begun ends (with success or an error), the sync
  worker keeps polling. Deletes owe nothing.
- *UploadSession*: the sweep of each replica loops; the pool recycles its connections
  (`max_lifetime` of sqlx); the expiry time of a session comes. Clients owe nothing,
  and no unlock need ever run on the connection that has the lock.
- *Tiering*: tier workers loop, a restore that has begun ends, queued tasks are done
  or fail for good (`TasksSettle` of SyncQueue). Nobody has to download or restore.
- *Backup*: workers loop, a trigger that has begun and its background task end, an
  hour passes for a running row, the pool closes connections that idle. Triggers,
  deletes and edits owe nothing.

- *Backends*: a call that runs goes on, since its future is polled and each request ends in
  an answer or an error. Nobody has to call.
- *Access*: a process that is down or seeding goes on, because the orchestrator starts again
  one that ended. No request has to go on.
- *Serving*: the runtime polls every accepted request and every export task. Users, admins,
  restarts and the clock owe nothing.

Faults and crashes are never fair, and each behaviour has at most `MaxFaults` (in Serving
`MaxEdits`) of them.

## 5. Proofs

The theorems hold for every value of the constants: any number of workers, replicas,
requests, rows, storages and faults, under the named assumptions of each module, which
TLC evaluates in every run.

**SyncQueueProofs.** `TypeCorrect`. `LocationsSafe` (`LocationBacked`) and `CompletionSafe`
(`CompletedIsSynced`), which are not inductive: a location is written some steps after the
upload and a status after the location. The invariant `ReplicationInv` adds what a
worker knows in between (`UploadedBeforeRecord`, `SyncedBeforeComplete`); it survives
other workers because nothing in the queue removes an object or a location
(`ObjectsStay`). `FailedSafe`: `FailedIsExhausted`. `TerminalSafe`: `TerminalIsFinal`.
`ReplicasWhole` is about the behaviours in which no two workers use one temp path together
(`[]TempAlone`), whatever rows they claim twice: what the comment "One temp file per source
download" takes for granted (`sync_worker.rs:166`), and what holds as a matter of course with one
worker in each process, but not with several, as `sync_truncated` shows. Then a copy on a store whose
uploads are atomic is never torn when its file is read from such stores, though ftp, sftp and hetzner
may be among its other targets (`SoundReplicaWhole`); and if all stores are atomic, `ReplicaWhole`
holds. `TempInv` says that the file a worker streams into is its own until another one's failed
download removes it, and `BatchInv` that a batch is of one file and one source.

**FileStoreProofs.** `TypeCorrect`, with the foreign keys, from `TypeInv`, which adds what
an upload knows at each step. `LocationsSafe` (`LocationBacked`), `UploadSafe`
(`UploadedIsStored`) and `CopySafe` (`CopyStays`) assume `Isolated`: no project's container
is a storage's default one. `BackedInv` (locations, stores before locations, copies before
records) and `CreatorInv` (the row an upload created has its copy from `link` on) carry
them; the key lemma is that the physical cleanup reaches only default containers.
`ResolvableSafe` (`LocationResolvable`), under the same assumption, is not inductive: the copy
behind a location may have been stored by an upload whose `files` row and reference are gone.
`OriginInv` follows it back: every task planned, queued or copied, and every location, is for a
project that has begun an upload of the content, and a location's copy is in the container of such
a project (`TaskOrigin`, `LocationOrigin`); the `files` row an upload goes on with has its content
(`FileContent`).

**UploadSessionProofs.** `TypeCorrect`: in particular no race takes an offset past
`Upload-Length`. `OffsetSafe` (`OffsetCovered`) and `CompletedSafe`
(`CompletedIsReferenced`) from `UploadInv`: what a PATCH has appended on top of the offset
it read is in the file, and a finalizing PATCH has seen the last byte acknowledged.
`AcknowledgedSafe` (`AcknowledgedIntact`) and `StoredSafe` (`StoredIntact`) from `IntactInv`: in a
session where nobody but one PATCH has uncounted bytes, the temp file is the acknowledged prefix
followed by what that PATCH has appended (`PatchIntact`, `SessionIntact`), and a copy that left a
session with nothing uncounted is the whole file (`CopyIntact`). That the temp file is a prefix of
the client's file, and stays one when the next byte is appended, is a lemma on `Append` and needs
no induction (`PrefixAppend`).

**TieringProofs.** `TypeCorrect`: a queued task has a source with a row. `ServedSafe`:
`AlwaysServed` if no storage changes its tier (`FixedTiers`). `ServedInv`: only hot rows
are about to be archived, and only while a cold row is synced, which then stays so.

**BackupProofs.** `TypeCorrect`. `OneDumpSafe`: `OneDump` from `LockInv`: at most one
connection holds the lock, a process that uses a connection holds the lock on it and
shares it with nobody, and who dumps or inserts a scheduled row has one; a leaked lock stays
with an idle connection and keeps the others out. `OncePerSlotSafe`: `OncePerSlot` from `SlotInv`: slots
grow with row ids, and a worker that passed the check under the lock has every scheduled
row of the config in an earlier slot. The greatest row of a config, which the code gets
with `ORDER BY created_at DESC LIMIT 1`, exists by well-foundedness (`GreatestRow`).
`DumpsSafe` (`DumpsListed`) from `DumpInv`: the row of a process that dumps, or has dumped, is not
completed, is nobody else's and in nobody's list of rows to delete, so that a cleanup, which lists
completed rows only, leaves it alone; and a row that is about to go has lost its dump.
`RetentionSafe` (`RetentionKept`, an action property) from `KeepInv`: what a cleanup has listed, and
every completed row without a dump, has `retention_count` dumps above it; a dump that another
process deletes from above was itself below that many (`EnoughStays`, `BeyondEnough`, with the
cardinality theorems). It assumes `MaxEdits = 0`, as its run does: a process that read
`retention_count` before it was raised cuts deeper than one that read it afterwards expects.

**BackendsProofs.** The steps of the seven backends are nine moves of a call (`StepMoves`): it
waits, fails, takes effect at once, opens, writes, closes, reads, removes, leaves. The
invariant `Inv` says of two running calls on a path that neither is alone if one changes
it (`Apart`), that a writer which is alone has its own file open at the path with exactly the
chunks it has sent (`AloneWrites`), that a delete which is alone has nothing at the path when it
removes the directory (`AloneGone`), that an open file at a path is an object (`Linked`), and
that a multipart upload is completed with all its parts (`Complete`). From it `TypeCorrect`,
`TornSafe` (`TornExplained`) and `Refinement`: `Spec => Implements`, with each move shown to be
a step of ObjectStore or a stutter.

**AccessProofs.** `TypeCorrect`, from `TypeInv`, which adds what a request holds at each step.
`ReferencesSafe` (`ReferencesLive`) from `RefInv`: what a sign-in knows of its account is checked
again by the foreign key when the token is inserted. `SessionsSafe` (`SessionCurrent`) from
`SessionInv`: a request that is making a token either has read the account's role and password of
now or was marked by the change that ran into it, and so was the token it exchanges. `ExchangeSafe`
(`ExchangedOnce`) from `ExchangeInv`: a token that was consumed has no row again, and whoever holds
it is alone with it. `AdminSafe` (`AdminRemains`): an edit by a true admin leaves at least its
maker. `ReseedSafe` (`NoReseed`) follows, since `User::count` is not zero then.

**ServingProofs.** `TypeCorrect`. `LinkInv` says what a request on a link knows at each step
(`Knows`): the password was given, the references it read are the link's project's own, the backends
it resolved are in containers that project has had. `QuotaSafe` (`QuotaExact`), `PasswordSafe`
(`PasswordGiven`, of which `KeepsContract` is the stronger form) and `LinkProjectSafe`
(`LinkStaysInProject`) follow; the quota holds because the counting UPDATE checks it again, not
because of the check before the transfer. `RegistrySafe` (`RegistryCurrent`) from `RegistryInv`,
which follows a row from the UPDATE to its registration and a starting process from its SELECT to
the registry; `behind` is what the code cannot know of. `ArchiveSafe` (`ArchiveKept`) from
`ArchiveInv`: the lock on the jobs covers the gap between the status and the archive.
`FailuresExplained` (`FailureExplained`) from `SearchInv`: as long as nothing was changed and no
call or resolution failed, a location is still to be tried, is being tried with at least the
projects' backends, or does not have the file in a container of a project the download resolves with
(`Sought`); crashes and starts change registries only, on which this does not depend.
`RevocationSafe` (`RevokedForGood`) is the part of `RevocationHolds` that needs no fairness: a
revoked link stays revoked and no download of it begins; `NewInv` says that a link about to be
inserted is nobody else's. `ContractKept` (`KeepsContract`): every step of Serving is a step of
SharedLink or a stutter. `ContractInv` adds to the invariants above that only a link that exists
expires and that a request which is to be counted has a link. An action that leaves the links alone
is a `Drop` of the downloads it ends, of none for most and of all that its process was serving for a
crash (`QuietDrops`); the others are matched one by one, `IncrementCount` with `Serve` or `Drop`, as
the counting UPDATE found the row.

For Permissions, `PermissionsTypeCorrect`
and `WritesSafe` (`WritesEntitled`): `PermInv` follows a write from its check to its end, and every
change of members or projects marks what it takes the right from. `ChecksSafe` (`ChecksAgree`)
compares definitions of one state, but not of any state: that whoever passes the file check is
shown a project with the file needs `ProjectsExist`, that references and writes are for projects
that were created. The status of a file compares two counts; with finitely many storages
(`PermissionsAssumption`) equal counts are equal sets.

For Search and Dashboard, `AnswersSafe` (`AnswersExact`), `PagesSafe` (`PagesPartition`) and
`DashboardSafe` (`DashboardAddsUp`): whatever is asked is answered with what the filter describes, for
filters of any depth, any tables, any page size and any inputs left out. A name must have no wildcard
in it (`Literal`); if it matches itself, nothing that contains it is missed. Pages must be cut from one
order of the rows, or no two rows that match may have the same `created_at`. The proofs need induction over data, although the induction theorems of the library, which take an
operator, cannot be used: `NatSetInduction` is induction for a *set* of numbers, from
`NatLessThanWellFounded` and `WFMin`, and with it the lemmas `FilterOfDef`, `MeansDef`,
`CompileInnerDef`, `PartsDef`, `SelectDef`, `TotalDef` and `FlattenDef` show that functions exist
that satisfy the recursive definitions. The argument has four parts.
*The compiler*: `CompilesTo(n, depth)` says that a filter of `n` levels becomes, from any first
parameter on, a clause that holds for the rows the filter means whenever its own parameters are
bound from that number on, and that it is refused exactly when it is nested too deep.
`InnerCompiles` proves it by induction on `n`, with an inner induction along the parts of AND and
OR (`PartsCompiled`): a part starts its parameters where the ones before it ended. That the
parameters after a part's own do not matter is what makes it inductive.
*The conditions*: `WhereExact` adds the project, the inputs that are given and whatever is bound
after them (the limit and the offset); searches and bulk deletes follow.
*Totals*: a sum over a finite set does not depend on the order of its elements (`TotalWithout`)
and is the sum of the sums over its parts (`TotalParts`, `CountParts`), so the days of a summary
and the rows of a dashboard add up.
*Pages*: consecutive pages of a list, put together, are the list (`PagesJoin`); two lists of the
same rows, newest first and without ties, are one list.

Only model-checked: all liveness properties (`TasksSettle`, `EventuallyReplicated`,
`SessionsEnd`, `EventuallyArchived`, `SlotServed`, `CallsReturn`, `StartsServe`,
`RevocationHolds`, `ExportEnds`), since the prover has neither fairness nor `ENABLED`;
`AlwaysServed` with one change of a tier;
`RetentionKept` with an edit is false, see above. Every other invariant and action property of a
passing run is proved.

## 6. Where code and comments disagree

Three runs show a violation, each a finding in `PROJECT.json`:

- `sync_truncated`: `claim_pending` claims by id under the advisory lock without looking at
  the status again (`db/models.rs:1561`), although a comment says that `in_progress` keeps
  others from claiming (`:1492`); two workers of a process then share a temp path
  (`sync_worker.rs:167`), and one uploads what the other has just truncated.
- `file_lost_reference`: a reference inserted between the orphan scan and the commit of a
  bulk delete goes with the cascade (`file_service.rs:568`).
- `upload_live_temp`: the temp file of a session is not named after the session's row, so
  the sweep for orphans finds no session for it (`upload_cleanup_worker.rs:169`).

The models also reach the following states. They have no run of their own; the properties
above are stated so that they hold in spite of them, and name the condition where they need one.

- A batch whose first target is a local disk loses its temp file to a rename
  (`storage/local.rs:116`); its other rows fail once and are retried one by one.
- A success for one project completes failed rows of other projects for the same storage
  (`db/models.rs:1473`), whose containers hold nothing: `CompletedIsSynced` speaks of the
  location, which has no project.
- An upload that fails after `create_or_find` leaves a files row without content
  (`file_service.rs:88`), and later uploads of that content are taken for duplicates:
  `UploadedIsStored` is about the upload that inserted the row.
- A duplicate that comes before the first upload has listed a location takes its own primary
  storage for a source (`:258`), so its tasks cannot succeed.
- With two projects a location may resolve to containers that do not hold the content
  (`backend_resolver.rs:123`), so `LocationResolvable` is checked within one project.
- Orphan cleanup goes through the registry's own backend, not the project's container
  (`file_service.rs:578`): content in project containers stays behind, and a
  default-container project that uploads the same content again before the cleanup loses it.
  Hence `Isolated`.
- A PATCH that loses the compare-and-swap, or whose body breaks off, has already appended
  (`api/uploads.rs:265`): `AcknowledgedIntact` and `StoredIntact` are about sessions without
  uncounted bytes.
- A finalization that fails after the rename cannot be retried, although "Keep the temp file
  so the client can retry completion" (`api/uploads.rs:287`); a second finalization finds the
  files row of the first and completes the session without storing anything.
- With two changes of tiers between a SELECT and its UPDATE the tier worker archives the last
  synced copy (`tier_service.rs:151`); a restored copy is due for archiving again at once
  (`:217`); archived rows other than the restored one stay `restoring` (`:229`).
- An error of the check under the lock returns the connection with the lock to the pool
  (`backup_worker.rs:135`): other replicas skip the config until the pool closes it.
- A running row that is not the latest of its config stays `running` until a trigger clears
  it (`backup_worker.rs:230`), and a slow backup may be marked failed after it was completed
  (`:245`).
- A download by a link whose project has lost its reference, and copies of `sync_all`
  (`bulk_service.rs:120`, no project), are looked for in the storage's own container; a download
  for a project that has a container of its own does not look there, and an export looks only
  there, so it leaves out what projects stored (`bulk_service.rs:230`). `FailureExplained` and
  `LinkStaysInProject` name these cases.
- A storage, project or assignment that cannot be read, or a backend that cannot be made, is no
  error of the resolution (`backend_resolver.rs:122`): when no project's backend is left, the registry's
  reads the storage's own container, with nothing changed, although that "should only be used when
  there's no project context" (`:134`). `LinkStaysInProject` and `FailureExplained` count it as a fault.
- A temporary link of a local storage is signed for a project's container
  (`file_service.rs:393`) and served from the storage's own (`api/files.rs:904`).
- A change of a project's slug, override or assignment makes its older copies unreachable
  (`backend_resolver.rs:49`).
- An edit of a storage reaches only the process that serves it (`api/storages.rs:150`); an
  invalid config is saved and the old backend kept (`:154`).
- Admins who demote or delete each other at once leave none (`auth_routes.rs:319`), and a
  demoted admin's token is good until it expires (`auth.rs:72`): `AdminRemains` is about
  changes by admins. A start after the last account is gone seeds the default admin again.
- A sign-in that has read the account when its role or password is changed still gets a token
  (`auth_routes.rs:233`): `SessionCurrent` names it.
- `delete_user` asks to "Reassign ownership first" (`auth_routes.rs:142`), which no operation
  does; projects with `deleted_at` stop the last statement when the tokens are gone already.
- A process that loses the race to seed the admin ends (`main.rs:73`) and must be restarted.
- On a backend that writes in place a failed upload leaves a torn object where a whole one
  may have been (`local.rs:104`, also ftp, sftp and WebDAV); a local download or delete of a file
  that goes away behind `exists()` is an error, not a miss.
- A scheduled backup cleans up with the `retention_count` read before its dump
  (`backup_worker.rs:178`); the queries of a dashboard share no snapshot (`dashboard.rs:80`). The models
  take the config and the tables as they are at one moment.
- Pages are ordered by `created_at` alone (`db/models.rs:778`), so rows of one instant may change
  places between two pages and be repeated or skipped: `PagesPartition` compares the pages of
  different orders only when there are no such rows.
- `name_contains` is documented as a substring match (`api/files.rs:549`), but ILIKE reads `%` and `_`
  in it as wildcards (`db/models.rs:708`, `:730`): `Literal` in `AnswersExact` and `PagesPartition`.
- Names in a bulk download are told apart only from equal ones (`api/files.rs:746`), so
  that two files `a` and one `a (1)` collide: `EntriesDistinct` is stated for names without such a suffix.

## 7. Not modelled

- *Backups without a config*: they take no lock and have no retention; the pipe from
  `pg_dump` through gzip to the storage is one step that succeeds or fails.
- *samba*: behind a feature that is off by default, and the module does not compile with it.
- *exists, list, temporary URLs of backends, parts left at S3 by an aborted upload*: tests and
  signatures only, or nothing that anybody reads.
- *Cryptography*: hashing of passwords, signing of tokens and SHA-256 are taken as sound.
- *Configuration, validation of inputs, redaction of secrets, formats of responses*: functions
  of one value without state.
- *Metadata edits and access events*: single statements nothing else depends on. The lost
  update of two edits of one storage (`db/models.rs:301`) is allowed by Serving, not excluded.
- *Nodes and heartbeat*: a process writes its own row, and nothing decides by it.
- *Frontend and deployment*: no state the server relies on.

## 8. Plan

1. Done: SyncQueue, FileStore, UploadSession, Tiering, Backup, Backends with ObjectStore,
   Access, Serving, Search, Dashboard, Permissions.
2. Done: the theorems of section 5, the refinement of ObjectStore by the backends among them.
3. Done: `DumpsListed`, `RetentionKept`, `LocationResolvable`, `FailureExplained`, `ChecksAgree`,
   `AcknowledgedIntact` and `StoredIntact`.
4. Done: the refinement of SharedLink by Serving, `AnswersExact`, `PagesPartition` and
   `DashboardAddsUp`; no invariant of a run is left to TLC alone.
5. Open: the safety halves of the remaining liveness properties, as for `RevocationHolds`; the refinement
   of an abstract export and an abstract queue.
