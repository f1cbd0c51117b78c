------------------------------ MODULE SyncQueue ------------------------------
(***************************************************************************)
(* The replication queue of simply-storage: the sync_tasks table and the   *)
(* SyncWorker loops that claim its rows, download each file once from its  *)
(* source storage into a temp file, upload it to every target and record   *)
(* the result in file_locations (src/workers/sync_worker.rs and SyncTask   *)
(* in src/db/models.rs).                                                   *)
(*                                                                         *)
(* Every SQL statement and every backend call is a step of its own, so     *)
(* that workers of one process, and of several processes, interleave       *)
(* between any two of them.                                                *)
(***************************************************************************)
EXTENDS Naturals, FiniteSets

CONSTANTS
    Tasks,         \* the ids of sync_tasks rows, in created_at order
    Files,
    Storages,
    Projects,      \* the values of sync_tasks.project_id, "no project" included
    Containers,
    Workers,
    Hosts,         \* processes; workers of one process share its temp directory
    Job,           \* Job[t]: the immutable columns of row t
    Seed,          \* Seed[f]: where the upload of f put its first copy
    ContainerOf,   \* ContainerOf[p]: the container project p's objects live in
    HostOf,        \* HostOf[w]: the process that worker w runs in
    LocalDisks,    \* storages whose upload_from_file moves the temp file away
    AtomicStores,  \* storages where a failed upload leaves the old object alone
    BatchLimit,    \* LIMIT of claim_pending's SELECT (16 in the code)
    MaxRetries,    \* config.max_retries
    MaxFaults,     \* bound: I/O errors, database errors and crashes together
    NoWorker

ASSUME ConstantsAssumption ==
    /\ Tasks \subseteq Nat \ {0}
    /\ Job \in [Tasks -> [file : Files, source : Storages,
                          target : Storages, project : Projects]]
    /\ Seed \in [Files -> [storage : Storages, project : Projects]]
    /\ ContainerOf \in [Projects -> Containers]
    /\ HostOf \in [Workers -> Hosts]
    /\ LocalDisks \subseteq Storages
    /\ AtomicStores \subseteq Storages
    /\ BatchLimit \in Nat \ {0}
    /\ MaxRetries \in Nat
    /\ MaxFaults \in Nat
    /\ NoWorker \notin Workers

VARIABLES
    \* sync_tasks
    status,     \* status column; "none" is a row not inserted yet
    retries,    \* retries column
    due,        \* retry_after is NULL or in the past
    stale,      \* updated_at is more than 15 minutes old
    \* file_locations and the storages themselves
    location,   \* location[f][s]: is there a synced row for file f on s
    object,     \* object[f][s][c]: what container c of s holds at f's path
    \* each process's temp directory
    temp,       \* temp[h][t]: the file named after lead task t
    opener,     \* opener[h][t]: the worker that created or truncated it last
    \* each worker's local state
    pc,
    selected,   \* rows SELECTed by claim_pending and not yet tried
    claimed,    \* rows claimed and not yet in a batch
    batch,      \* rows of the current batch still to be finalized
    lead,       \* first row of the current batch, it names the temp file
    faults      \* number of faults so far

dbVars == <<status, retries, due, stale>>
storeVars == <<location, object>>
tempVars == <<temp, opener>>
workerVars == <<pc, selected, claimed, batch, lead>>
vars == <<dbVars, storeVars, tempVars, workerVars, faults>>

NoTask == 0
Status == {"none", "pending", "in_progress", "completed", "failed"}
Content == {"none", "partial", "whole"}
PC == {"idle", "fail_exhausted", "select", "try_lock", "mark_claimed",
       "group", "download", "downloading", "upload", "record", "complete",
       "supersede", "requeue", "fail_all"}
InBatch == {"download", "downloading", "upload", "record", "complete",
            "supersede", "requeue", "fail_all"}

TypeOK ==
    /\ status \in [Tasks -> Status]
    /\ retries \in [Tasks -> Nat]
    /\ due \in [Tasks -> BOOLEAN]
    /\ stale \in [Tasks -> BOOLEAN]
    /\ location \in [Files -> [Storages -> {"none", "synced"}]]
    /\ object \in [Files -> [Storages -> [Containers -> Content]]]
    /\ temp \in [Hosts -> [Tasks -> Content]]
    /\ opener \in [Hosts -> [Tasks -> Workers \cup {NoWorker}]]
    /\ pc \in [Workers -> PC]
    /\ selected \in [Workers -> SUBSET Tasks]
    /\ claimed \in [Workers -> SUBSET Tasks]
    /\ batch \in [Workers -> SUBSET Tasks]
    /\ lead \in [Workers -> Tasks \cup {NoTask}]
    /\ \A w \in Workers : pc[w] \in InBatch => lead[w] \in Tasks
    /\ faults \in Nat

\* No row has been queued; every file has the copy its upload made, in the
\* container of the project that uploaded it, and a synced row for it.
Init ==
    /\ status = [t \in Tasks |-> "none"]
    /\ retries = [t \in Tasks |-> 0]
    /\ due = [t \in Tasks |-> TRUE]
    /\ stale = [t \in Tasks |-> FALSE]
    /\ location = [f \in Files |-> [s \in Storages |->
                     IF s = Seed[f].storage THEN "synced" ELSE "none"]]
    /\ object = [f \in Files |-> [s \in Storages |-> [c \in Containers |->
                     IF s = Seed[f].storage /\ c = ContainerOf[Seed[f].project]
                     THEN "whole" ELSE "none"]]]
    /\ temp = [h \in Hosts |-> [t \in Tasks |-> "none"]]
    /\ opener = [h \in Hosts |-> [t \in Tasks |-> NoWorker]]
    /\ pc = [w \in Workers |-> "idle"]
    /\ selected = [w \in Workers |-> {}]
    /\ claimed = [w \in Workers |-> {}]
    /\ batch = [w \in Workers |-> {}]
    /\ lead = [w \in Workers |-> NoTask]
    /\ faults = 0

\* The backend a row is resolved to: the container of the row's project.
Container(t) == ContainerOf[Job[t].project]

Oldest(S, t) == t \in S /\ \A u \in S : t <= u

Fault ==
    /\ faults < MaxFaults
    /\ faults' = faults + 1

-----------------------------------------------------------------------------
(* The queue's clients: upload, sync_all, force sync and the tier worker   *)
(* insert a row with status 'pending' and no retry_after.                  *)

Enqueue(t) ==
    /\ status[t] = "none"
    /\ \A u \in Tasks : u < t => status[u] # "none"
    /\ status' = [status EXCEPT ![t] = "pending"]
    /\ UNCHANGED <<retries, due, stale, storeVars, tempVars, workerVars, faults>>

(* The clock: a retry_after passes; 15 minutes pass without an update.     *)

RetryDue(t) ==
    /\ ~due[t]
    /\ due' = [due EXCEPT ![t] = TRUE]
    /\ UNCHANGED <<status, retries, stale, storeVars, tempVars, workerVars, faults>>

BecomeStale(t) ==
    /\ status[t] = "in_progress"
    /\ ~stale[t]
    /\ stale' = [stale EXCEPT ![t] = TRUE]
    /\ UNCHANGED <<status, retries, due, storeVars, tempVars, workerVars, faults>>

-----------------------------------------------------------------------------
(* SyncTask::claim_pending                                                 *)

\* Mutants of Reclaimable: every row that is not completed is given back; no
\* row is ever given back (the queue before the recovery was added).
Reclaimable_NotCompleted(t) == status[t] \notin {"none", "pending", "completed"}
Reclaimable_Never(t) == FALSE

\* Rows the first UPDATE gives back: in progress and not updated for long.
Reclaimable(t) == status[t] = "in_progress" /\ stale[t]

Reclaim(w) ==
    /\ pc[w] = "idle"
    /\ status' = [t \in Tasks |-> IF Reclaimable(t) THEN "pending" ELSE status[t]]
    /\ retries' = [t \in Tasks |-> IF Reclaimable(t) THEN retries[t] + 1 ELSE retries[t]]
    /\ stale' = [t \in Tasks |-> IF Reclaimable(t) THEN FALSE ELSE stale[t]]
    /\ pc' = [pc EXCEPT ![w] = "fail_exhausted"]
    /\ UNCHANGED <<due, storeVars, tempVars, selected, claimed, batch, lead, faults>>

\* Rows the second UPDATE gives up on.
Exhausted(t) == status[t] = "pending" /\ retries[t] >= MaxRetries

FailExhausted(w) ==
    /\ pc[w] = "fail_exhausted"
    /\ status' = [t \in Tasks |-> IF Exhausted(t) THEN "failed" ELSE status[t]]
    /\ pc' = [pc EXCEPT ![w] = "select"]
    /\ UNCHANGED <<retries, due, stale, storeVars, tempVars,
                   selected, claimed, batch, lead, faults>>

Claimable(t) == status[t] = "pending" /\ retries[t] < MaxRetries /\ due[t]

\* ORDER BY created_at LIMIT: the oldest BatchLimit claimable rows.
SelectPending(w) ==
    /\ pc[w] = "select"
    /\ selected' = [selected EXCEPT ![w] =
         {t \in Tasks : Claimable(t) /\
            Cardinality({u \in Tasks : Claimable(u) /\ u < t}) < BatchLimit}]
    /\ pc' = [pc EXCEPT ![w] = "try_lock"]
    /\ UNCHANGED <<dbVars, storeVars, tempVars, claimed, batch, lead, faults>>

\* The transaction-scoped advisory lock of row t is held by another worker.
LockedByOther(w, t) ==
    \E v \in Workers \ {w} : pc[v] = "mark_claimed" /\ Oldest(selected[v], t)

TryLock(w) ==
    /\ pc[w] = "try_lock"
    /\ \E t \in Tasks :
         /\ Oldest(selected[w], t)
         /\ \/ /\ LockedByOther(w, t)
               /\ selected' = [selected EXCEPT ![w] = @ \ {t}]
               /\ UNCHANGED pc
            \/ /\ ~LockedByOther(w, t)
               /\ pc' = [pc EXCEPT ![w] = "mark_claimed"]
               /\ UNCHANGED selected
    /\ UNCHANGED <<dbVars, storeVars, tempVars, claimed, batch, lead, faults>>

\* UPDATE ... SET status = 'in_progress' WHERE id = $1, then COMMIT: the row's
\* status is not looked at again under the lock.
MarkClaimed(w) ==
    /\ pc[w] = "mark_claimed"
    /\ \E t \in Tasks :
         /\ Oldest(selected[w], t)
         /\ status' = [status EXCEPT ![t] = "in_progress"]
         /\ stale' = [stale EXCEPT ![t] = FALSE]
         /\ claimed' = [claimed EXCEPT ![w] = @ \cup {t}]
         /\ selected' = [selected EXCEPT ![w] = @ \ {t}]
    /\ pc' = [pc EXCEPT ![w] = "try_lock"]
    /\ UNCHANGED <<retries, due, storeVars, tempVars, batch, lead, faults>>

ClaimDone(w) ==
    /\ pc[w] = "try_lock"
    /\ selected[w] = {}
    /\ pc' = [pc EXCEPT ![w] = IF claimed[w] = {} THEN "idle" ELSE "group"]
    /\ UNCHANGED <<dbVars, storeVars, tempVars, selected, claimed, batch, lead, faults>>

\* A database error makes claim_pending return early: the rows it has already
\* marked stay in_progress and no worker has them.
ClaimError(w) ==
    /\ Fault
    /\ pc[w] \in {"fail_exhausted", "select", "try_lock", "mark_claimed"}
    /\ pc' = [pc EXCEPT ![w] = "idle"]
    /\ selected' = [selected EXCEPT ![w] = {}]
    /\ claimed' = [claimed EXCEPT ![w] = {}]
    /\ UNCHANGED <<dbVars, storeVars, tempVars, batch, lead>>

-----------------------------------------------------------------------------
(* SyncWorker::poll_and_process and process_batch                          *)

\* Claimed rows that share file, source and project go through one download.
SameBatch(t, u) ==
    /\ Job[t].file = Job[u].file
    /\ Job[t].source = Job[u].source
    /\ Job[t].project = Job[u].project

StartBatch(w) ==
    /\ pc[w] = "group"
    /\ \E t \in claimed[w] :
         LET group == {u \in claimed[w] : SameBatch(t, u)} IN
         /\ Oldest(group, t)
         /\ lead' = [lead EXCEPT ![w] = t]
         /\ batch' = [batch EXCEPT ![w] = group]
         /\ claimed' = [claimed EXCEPT ![w] = @ \ group]
    /\ pc' = [pc EXCEPT ![w] = "download"]
    /\ UNCHANGED <<dbVars, storeVars, tempVars, selected, faults>>

NextBatch(w) ==
    /\ pc' = [pc EXCEPT ![w] = IF claimed[w] = {} THEN "idle" ELSE "group"]
    /\ lead' = [lead EXCEPT ![w] = NoTask]

\* What the source backend, resolved for the lead row's project, holds.
SourceObject(w) ==
    object[Job[lead[w]].file][Job[lead[w]].source][Container(lead[w])]

SourceMissing(w) ==
    \/ location[Job[lead[w]].file][Job[lead[w]].source] = "none"
    \/ SourceObject(w) = "none"

RemoveTemp(w) ==
    /\ temp' = [temp EXCEPT ![HostOf[w]][lead[w]] = "none"]
    /\ opener' = [opener EXCEPT ![HostOf[w]][lead[w]] = NoWorker]

\* download_to_file creates, or truncates, the temp file ...
DownloadOpen(w) ==
    /\ pc[w] = "download"
    /\ ~SourceMissing(w)
    /\ temp' = [temp EXCEPT ![HostOf[w]][lead[w]] = "partial"]
    /\ opener' = [opener EXCEPT ![HostOf[w]][lead[w]] = w]
    /\ pc' = [pc EXCEPT ![w] = "downloading"]
    /\ UNCHANGED <<dbVars, storeVars, selected, claimed, batch, lead, faults>>

\* ... and streams the object into it. Whoever opened the path last overwrites
\* all of it; an earlier writer only adds the bytes after its own offset, and a
\* writer whose file was renamed or unlinked no longer reaches the path.
DownloadDone(w) ==
    /\ pc[w] = "downloading"
    /\ temp' = [temp EXCEPT ![HostOf[w]][lead[w]] =
                  IF opener[HostOf[w]][lead[w]] = w THEN SourceObject(w) ELSE @]
    /\ pc' = [pc EXCEPT ![w] = "upload"]
    /\ UNCHANGED <<dbVars, storeVars, opener, selected, claimed, batch, lead, faults>>

\* create_dir_all on the temp directory fails: every row is requeued, and what
\* the directory holds is left alone.
TempDirFail(w) ==
    /\ pc[w] = "download"
    /\ Fault
    /\ pc' = [pc EXCEPT ![w] = "fail_all"]
    /\ UNCHANGED <<dbVars, storeVars, tempVars, selected, claimed, batch, lead>>

\* Mutant of DownloadFail: the error is dropped and the uploads go on.
DownloadFail_GoesOn(w) ==
    /\ pc[w] \in {"download", "downloading"} /\ Fault
    /\ pc' = [pc EXCEPT ![w] = "upload"]
    /\ UNCHANGED <<dbVars, storeVars, tempVars, selected, claimed, batch, lead>>

DownloadFail(w) ==
    /\ \/ pc[w] = "download" /\ SourceMissing(w) /\ UNCHANGED faults
       \/ pc[w] \in {"download", "downloading"} /\ Fault
    /\ RemoveTemp(w)
    /\ pc' = [pc EXCEPT ![w] = "fail_all"]
    /\ UNCHANGED <<dbVars, storeVars, selected, claimed, batch, lead>>

BatchDone(w) ==
    /\ pc[w] = "upload"
    /\ batch[w] = {}
    /\ RemoveTemp(w)
    /\ NextBatch(w)
    /\ UNCHANGED <<dbVars, storeVars, selected, claimed, batch, faults>>

-----------------------------------------------------------------------------
(* SyncWorker::finalize_task, for the oldest row left in the batch         *)

UploadOk(w) ==
    /\ pc[w] = "upload"
    /\ temp[HostOf[w]][lead[w]] # "none"
    /\ \E t \in Tasks :
         /\ Oldest(batch[w], t)
         /\ object' = [object EXCEPT
              ![Job[t].file][Job[t].target][Container(t)] =
                temp[HostOf[w]][lead[w]]]
         /\ \/ Job[t].target \in LocalDisks /\ RemoveTemp(w)
            \/ Job[t].target \notin LocalDisks /\ UNCHANGED tempVars
    /\ pc' = [pc EXCEPT ![w] = "record"]
    /\ UNCHANGED <<dbVars, location, selected, claimed, batch, lead, faults>>

\* Mutant of UploadFail: the error is dropped and the location recorded.
UploadFail_GoesOn(w) ==
    /\ pc[w] = "upload"
    /\ batch[w] # {}
    /\ Fault
    /\ pc' = [pc EXCEPT ![w] = "record"]
    /\ UNCHANGED <<dbVars, storeVars, tempVars, selected, claimed, batch, lead>>

\* The temp file is gone, or the backend fails; a store that is not atomic may
\* be left with a truncated object at the path.
UploadFail(w) ==
    /\ pc[w] = "upload"
    /\ \E t \in Tasks :
         /\ Oldest(batch[w], t)
         /\ \/ /\ temp[HostOf[w]][lead[w]] = "none"
               /\ UNCHANGED <<object, faults>>
            \/ /\ Fault
               /\ UNCHANGED object
            \/ /\ Fault
               /\ temp[HostOf[w]][lead[w]] # "none"
               /\ Job[t].target \notin AtomicStores
               /\ object' = [object EXCEPT
                    ![Job[t].file][Job[t].target][Container(t)] = "partial"]
    /\ pc' = [pc EXCEPT ![w] = "requeue"]
    /\ UNCHANGED <<dbVars, location, tempVars, selected, claimed, batch, lead>>

\* Mutant of RecordLocation: a database error does not stop the completion.
RecordLocation_IgnoresError(w) ==
    /\ pc[w] = "record"
    /\ \/ /\ \E t \in Tasks :
               /\ Oldest(batch[w], t)
               /\ location' = [location EXCEPT ![Job[t].file][Job[t].target] = "synced"]
          /\ UNCHANGED faults
       \/ Fault /\ UNCHANGED location
    /\ pc' = [pc EXCEPT ![w] = "complete"]
    /\ UNCHANGED <<dbVars, object, tempVars, selected, claimed, batch, lead>>

\* FileLocation::create, or update_status_by_file_and_storage when the unique
\* (file_id, storage_id) row is there already.
RecordLocation(w) ==
    /\ pc[w] = "record"
    /\ \/ /\ \E t \in Tasks :
               /\ Oldest(batch[w], t)
               /\ location' = [location EXCEPT ![Job[t].file][Job[t].target] = "synced"]
          /\ pc' = [pc EXCEPT ![w] = "complete"]
          /\ UNCHANGED faults
       \/ /\ Fault
          /\ pc' = [pc EXCEPT ![w] = "requeue"]
          /\ UNCHANGED location
    /\ UNCHANGED <<dbVars, object, tempVars, selected, claimed, batch, lead>>

\* update_status(.., "completed"): an error is only logged.
MarkCompleted(w) ==
    /\ pc[w] = "complete"
    /\ \/ /\ \E t \in Tasks :
               /\ Oldest(batch[w], t)
               /\ status' = [status EXCEPT ![t] = "completed"]
               /\ stale' = [stale EXCEPT ![t] = FALSE]
          /\ UNCHANGED faults
       \/ /\ Fault
          /\ UNCHANGED <<status, stale>>
    /\ pc' = [pc EXCEPT ![w] = "supersede"]
    /\ UNCHANGED <<retries, due, storeVars, tempVars, selected, claimed, batch, lead>>

\* Failed rows for the same file and target, whatever their project.
Superseded(t, u) ==
    /\ u # t
    /\ status[u] = "failed"
    /\ Job[u].file = Job[t].file
    /\ Job[u].target = Job[t].target

SupersedeFailed(w) ==
    /\ pc[w] = "supersede"
    /\ \E t \in Tasks :
         /\ Oldest(batch[w], t)
         /\ batch' = [batch EXCEPT ![w] = @ \ {t}]
         /\ \/ /\ status' = [u \in Tasks |->
                     IF Superseded(t, u) THEN "completed" ELSE status[u]]
               /\ UNCHANGED faults
            \/ Fault /\ UNCHANGED status
    /\ pc' = [pc EXCEPT ![w] = "upload"]
    /\ UNCHANGED <<retries, due, stale, storeVars, tempVars, selected, claimed, lead>>

\* SyncTask::requeue_for_retry, for whatever status the row has now.
RequeueForRetry(t) ==
    /\ status' = [status EXCEPT ![t] = "pending"]
    /\ retries' = [retries EXCEPT ![t] = @ + 1]
    /\ due' = [due EXCEPT ![t] = FALSE]
    /\ stale' = [stale EXCEPT ![t] = FALSE]

\* A finalize_task that failed, and fail_all after a failed download, requeue
\* the row; an error of the UPDATE itself is only logged.
Requeue(w) ==
    /\ pc[w] \in {"requeue", "fail_all"}
    /\ \E t \in Tasks :
         /\ Oldest(batch[w], t)
         /\ batch' = [batch EXCEPT ![w] = @ \ {t}]
         /\ \/ RequeueForRetry(t) /\ UNCHANGED faults
            \/ Fault /\ UNCHANGED dbVars
    /\ pc' = [pc EXCEPT ![w] = IF @ = "requeue" THEN "upload" ELSE @]
    /\ UNCHANGED <<storeVars, tempVars, selected, claimed, lead>>

FailAllDone(w) ==
    /\ pc[w] = "fail_all"
    /\ batch[w] = {}
    /\ NextBatch(w)
    /\ UNCHANGED <<dbVars, storeVars, tempVars, selected, claimed, batch, faults>>

-----------------------------------------------------------------------------
\* A process dies and is started again: its workers forget what they held, its
\* temp directory and the database stay as they are.
Crash(h) ==
    /\ Fault
    /\ \E w \in Workers : HostOf[w] = h /\ pc[w] # "idle"
    /\ pc' = [w \in Workers |-> IF HostOf[w] = h THEN "idle" ELSE pc[w]]
    /\ selected' = [w \in Workers |-> IF HostOf[w] = h THEN {} ELSE selected[w]]
    /\ claimed' = [w \in Workers |-> IF HostOf[w] = h THEN {} ELSE claimed[w]]
    /\ batch' = [w \in Workers |-> IF HostOf[w] = h THEN {} ELSE batch[w]]
    /\ lead' = [w \in Workers |-> IF HostOf[w] = h THEN NoTask ELSE lead[w]]
    /\ opener' = [opener EXCEPT ![h] = [t \in Tasks |-> NoWorker]]
    /\ UNCHANGED <<dbVars, storeVars, temp>>

WorkerStep(w) ==
    \/ Reclaim(w) \/ FailExhausted(w) \/ SelectPending(w)
    \/ TryLock(w) \/ MarkClaimed(w) \/ ClaimDone(w) \/ ClaimError(w)
    \/ StartBatch(w) \/ TempDirFail(w)
    \/ DownloadOpen(w) \/ DownloadDone(w) \/ DownloadFail(w)
    \/ UploadOk(w) \/ UploadFail(w) \/ RecordLocation(w) \/ MarkCompleted(w)
    \/ SupersedeFailed(w) \/ Requeue(w) \/ BatchDone(w) \/ FailAllDone(w)

Next ==
    \/ \E t \in Tasks : Enqueue(t) \/ RetryDue(t) \/ BecomeStale(t)
    \/ \E w \in Workers : WorkerStep(w)
    \/ \E h \in Hosts : Crash(h)

Spec == Init /\ [][Next]_vars

\* A running process keeps polling and a crashed one is started again, so every
\* worker keeps taking steps; time passes. Clients and faults owe nothing.
FairSpec ==
    /\ Spec
    /\ \A w \in Workers : WF_vars(WorkerStep(w))
    /\ \A t \in Tasks : WF_vars(RetryDue(t)) /\ WF_vars(BecomeStale(t))

-----------------------------------------------------------------------------
(* Correctness properties                                                  *)

\* A synced file_locations row is never a lie: some container of that storage
\* holds something at the file's path (finalize_task uploads before it records).
LocationBacked ==
    \A f \in Files, s \in Storages :
        location[f][s] = "synced" => \E c \in Containers : object[f][s][c] # "none"

\* A task is 'completed' only when its file really is listed as synced on its
\* target, also after a lost race, a reclaim or a supersede.
CompletedIsSynced ==
    \A t \in Tasks :
        status[t] = "completed" => location[Job[t].file][Job[t].target] = "synced"

\* 'failed' means given up: the row used up all its retries.
FailedIsExhausted ==
    \A t \in Tasks : status[t] = "failed" => retries[t] >= MaxRetries

Held(t) == \E w \in Workers : t \in selected[w] \cup claimed[w] \cup batch[w]

\* Once a row is completed or failed and no worker has it in hand, it stays so;
\* the only change left is a failed row becoming completed by supersede.
TerminalIsFinal ==
    [][\A t \in Tasks :
         (status[t] \in {"completed", "failed"} /\ ~Held(t)) =>
            status'[t] \in {status[t], "completed"}]_vars

\* A replica that file_locations lists as synced is never a truncated one.
ReplicaWhole ==
    \A f \in Files, s \in Storages, c \in Containers :
        location[f][s] = "synced" => object[f][s][c] # "partial"

\* Every queued row ends for good as completed or failed: a crash, a lost
\* update or a slow worker never strands it.
TasksSettle ==
    \A t \in Tasks : status[t] # "none" ~> [](status[t] \in {"completed", "failed"})
=============================================================================
