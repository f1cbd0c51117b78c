------------------------------ MODULE Tiering ------------------------------
(***************************************************************************)
(* Hot and cold tiers, for one file of a project that has hot_to_cold_days *)
(* set: the TierWorker of every replica (src/workers/tier_worker.rs,       *)
(* src/services/tier_service.rs), restore requests, downloads that touch   *)
(* last_accessed_at, the sync worker that carries out the tasks, and an    *)
(* admin who edits storages. Every SQL statement is a step.                *)
(***************************************************************************)
EXTENDS Naturals

CONSTANTS
    Storages,
    Rank,       \* Rank[s]: the order of created_at
    HotFirst,   \* storages created with is_hot
    Workers,    \* tier workers, one per replica
    Restores,   \* restore requests
    Upload,     \* creator of the tasks of the file's upload
    Columns,    \* columns of storages the admin edits: subset of {"is_hot", "enabled"}
    MaxEdits,   \* bound: edits of storages
    MaxFaults,  \* bound: failing statements and tasks that fail for good
    NoStorage

ASSUME ConstantsAssumption ==
    /\ Rank \in [Storages -> Nat]
    /\ \A S \in SUBSET Storages : S # {} => \E s \in S : \A t \in S : Rank[s] <= Rank[t]
    /\ HotFirst \subseteq Storages /\ HotFirst # {}
    /\ Workers \cap Restores = {} /\ Upload \notin Workers \cup Restores
    /\ Columns \subseteq {"is_hot", "enabled"}
    /\ MaxEdits \in Nat /\ MaxFaults \in Nat
    /\ NoStorage \notin Storages

VARIABLES
    status,     \* file_locations.status of the file, "none" without a row
    stale,      \* last_accessed_at is NULL or older than hot_to_cold_days
    hot,        \* storages with is_hot
    enabled,    \* enabled storages, which are those in the registry
    tasks,      \* sync tasks pending or in progress
    written,    \* tasks whose location row is written, not yet marked completed
    wpc, source, target, ready,     \* a tier worker's scan
    rpc, cold,                      \* a restore request
    edits, faults

locVars == <<status, stale>>
storageVars == <<hot, enabled>>
taskVars == <<tasks, written>>
workerVars == <<wpc, source, target, ready>>
restoreVars == <<rpc, cold>>
vars == <<locVars, storageVars, taskVars, workerVars, restoreVars, edits, faults>>

Task == [by : Workers \cup Restores \cup {Upload}, source : Storages, target : Storages]

Status == {"none", "synced", "archived", "restoring"}
WPC == {"find", "cold", "insert", "select", "archive"}
RPC == {"find", "insert", "mark", "done", "failed"}

\* Types, and that a queued task has a source with a row.
TypeOK ==
    /\ status \in [Storages -> Status]
    /\ stale \in SUBSET Storages
    /\ hot \in SUBSET Storages
    /\ enabled \in SUBSET Storages
    /\ tasks \in SUBSET Task
    /\ written \in SUBSET Task
    /\ wpc \in [Workers -> WPC]
    /\ source \in [Workers -> Storages \cup {NoStorage}]
    /\ target \in [Workers -> Storages \cup {NoStorage}]
    /\ ready \in [Workers -> SUBSET Storages]
    /\ rpc \in [Restores -> RPC]
    /\ cold \in [Restores -> Storages \cup {NoStorage}]
    /\ edits \in Nat /\ faults \in Nat
    /\ \A t \in tasks : status[t.source] # "none"

\* The first of a set of storages in the order of created_at.
First(S) == CHOOSE s \in S : \A t \in S : Rank[s] <= Rank[t]

\* The upload stored the file on one hot storage, nobody has downloaded it yet,
\* and tasks are queued for the other storages of the project.
Init ==
    /\ \E p \in HotFirst, S \in SUBSET Storages :
         /\ status = [s \in Storages |-> IF s = p THEN "synced" ELSE "none"]
         /\ tasks = {[by |-> Upload, source |-> p, target |-> s] : s \in S \ {p}}
    /\ stale = Storages
    /\ hot = HotFirst /\ enabled = Storages
    /\ written = {}
    /\ wpc = [w \in Workers |-> "find"]
    /\ source = [w \in Workers |-> NoStorage]
    /\ target = [w \in Workers |-> NoStorage]
    /\ ready = [w \in Workers |-> {}]
    /\ rpc = [r \in Restores |-> "find"]
    /\ cold = [r \in Restores |-> NoStorage]
    /\ edits = 0 /\ faults = 0

Fault ==
    /\ faults < MaxFaults
    /\ faults' = faults + 1

Active == tasks \cup written
ColdSynced == {s \in enabled \ hot : status[s] = "synced"}

-----------------------------------------------------------------------------
(* The tier worker: create_archive_tasks, then process_completed_archives  *)

WorkerGoto(w, l) == wpc' = [wpc EXCEPT ![w] = l]

Archivable ==
    {s \in hot \cap enabled \cap stale :
        status[s] = "synced" /\ ColdSynced = {} /\ Active = {}}

\* find_archivable_files: one hot location of the file, or none; its error ends
\* the first phase.
Find(w) ==
    /\ wpc[w] = "find"
    /\ \/ /\ \E s \in Archivable : source' = [source EXCEPT ![w] = s]
          /\ WorkerGoto(w, "cold")
          /\ UNCHANGED faults
       \/ /\ Archivable = {}
          /\ WorkerGoto(w, "select")
          /\ UNCHANGED <<source, faults>>
       \/ /\ Fault
          /\ WorkerGoto(w, "select")
          /\ UNCHANGED source
    /\ UNCHANGED <<locVars, storageVars, taskVars, target, ready, restoreVars, edits>>

\* Mutant of FindCold: the tier of the storage is not looked at.
FindCold_AnyTier(w) ==
    /\ wpc[w] = "cold"
    /\ target' = [target EXCEPT ![w] = First(enabled)]
    /\ WorkerGoto(w, "insert")
    /\ UNCHANGED <<locVars, storageVars, taskVars, source, ready, restoreVars, edits, faults>>

\* find_cold_storage: the oldest enabled cold storage, if there is one.
FindCold(w) ==
    /\ wpc[w] = "cold"
    /\ \/ /\ enabled \ hot # {}
          /\ target' = [target EXCEPT ![w] = First(enabled \ hot)]
          /\ WorkerGoto(w, "insert")
          /\ UNCHANGED faults
       \/ /\ enabled \ hot = {}
          /\ WorkerGoto(w, "select")
          /\ UNCHANGED <<target, faults>>
       \/ /\ Fault
          /\ WorkerGoto(w, "select")
          /\ UNCHANGED target
    /\ UNCHANGED <<locVars, storageVars, taskVars, source, ready, restoreVars, edits>>

\* SyncTask::create; an error is only logged.
InsertTask(w) ==
    /\ wpc[w] = "insert"
    /\ \/ /\ tasks' = tasks \cup {[by |-> w, source |-> source[w], target |-> target[w]]}
          /\ UNCHANGED faults
       \/ Fault /\ UNCHANGED tasks
    /\ WorkerGoto(w, "select")
    /\ UNCHANGED <<locVars, storageVars, written, source, target, ready, restoreVars, edits>>

\* Mutant of SelectReady: a cold row counts whatever its status.
SelectReady_AnyCold(w) ==
    /\ wpc[w] = "select"
    /\ ready' = [ready EXCEPT ![w] = {s \in hot \cap stale : status[s] = "synced" /\ enabled \ hot # {}}]
    /\ WorkerGoto(w, "archive")
    /\ UNCHANGED <<locVars, storageVars, taskVars, source, target, restoreVars, edits, faults>>

\* process_completed_archives: the hot rows that have a synced cold copy by now.
SelectReady(w) ==
    /\ wpc[w] = "select"
    /\ \/ /\ ready' = [ready EXCEPT ![w] =
                         {s \in hot \cap stale : status[s] = "synced" /\ ColdSynced # {}}]
          /\ UNCHANGED faults
       \/ Fault /\ UNCHANGED ready
    /\ WorkerGoto(w, "archive")
    /\ UNCHANGED <<locVars, storageVars, taskVars, source, target, restoreVars, edits>>

\* update_status by id, one row after the other, whatever they are now.
Archive(w) ==
    /\ wpc[w] = "archive"
    /\ \E s \in ready[w] :
         /\ ready' = [ready EXCEPT ![w] = @ \ {s}]
         /\ \/ status' = [status EXCEPT ![s] = "archived"] /\ UNCHANGED faults
            \/ Fault /\ UNCHANGED status
    /\ UNCHANGED <<stale, storageVars, taskVars, wpc, source, target, restoreVars, edits>>

\* Every row is done: sleep, then the next scan.
ScanDone(w) ==
    /\ wpc[w] = "archive"
    /\ ready[w] = {}
    /\ WorkerGoto(w, "find")
    /\ UNCHANGED <<locVars, storageVars, taskVars, source, target, ready, restoreVars, edits, faults>>

-----------------------------------------------------------------------------
(* restore_file                                                            *)

RestoreGoto(r, l) == rpc' = [rpc EXCEPT ![r] = l]

\* A cold copy, synced or archived, on an enabled storage; 404 without one.
RestoreFind(r) ==
    /\ rpc[r] = "find"
    /\ \E s \in enabled \ hot :
         /\ status[s] \in {"synced", "archived"}
         /\ cold' = [cold EXCEPT ![r] = s]
    /\ RestoreGoto(r, "insert")
    /\ UNCHANGED <<locVars, storageVars, taskVars, workerVars, edits, faults>>

\* The oldest enabled hot storage is the target; 404 without one.
RestoreInsert(r) ==
    /\ rpc[r] = "insert"
    /\ \/ /\ hot \cap enabled # {}
          /\ tasks' = tasks \cup {[by |-> r, source |-> cold[r], target |-> First(hot \cap enabled)]}
          /\ RestoreGoto(r, "mark")
          /\ UNCHANGED faults
       \/ /\ hot \cap enabled = {}
          /\ RestoreGoto(r, "failed")
          /\ UNCHANGED <<tasks, faults>>
       \/ /\ Fault
          /\ RestoreGoto(r, "failed")
          /\ UNCHANGED tasks
    /\ UNCHANGED <<locVars, storageVars, written, workerVars, cold, edits>>

\* Every archived row of the file becomes 'restoring'; an error is dropped.
RestoreMark(r) ==
    /\ rpc[r] = "mark"
    /\ \/ /\ status' = [s \in Storages |-> IF status[s] = "archived" THEN "restoring" ELSE status[s]]
          /\ UNCHANGED faults
       \/ Fault /\ UNCHANGED status
    /\ RestoreGoto(r, "done")
    /\ UNCHANGED <<stale, storageVars, taskVars, workerVars, cold, edits>>

-----------------------------------------------------------------------------
(* The sync worker, downloads, time and the admin                          *)

\* The copy is made and the location row inserted or set to 'synced', which
\* leaves last_accessed_at alone.
SyncLocate(t) ==
    /\ status' = [status EXCEPT ![t.target] = "synced"]
    /\ tasks' = tasks \ {t}
    /\ written' = written \cup {t}
    /\ UNCHANGED <<stale, storageVars, workerVars, restoreVars, edits, faults>>

SyncCompleted(t) ==
    /\ written' = written \ {t}
    /\ UNCHANGED <<locVars, storageVars, tasks, workerVars, restoreVars, edits, faults>>

\* The task has used up its retries.
SyncFailed(t) ==
    /\ Fault
    /\ tasks' = tasks \ {t}
    /\ UNCHANGED <<locVars, storageVars, written, workerVars, restoreVars, edits>>

Sync ==
    \/ \E t \in tasks : SyncLocate(t) \/ SyncFailed(t)
    \/ \E t \in written : SyncCompleted(t)

\* A download from the first location of find_for_file, hot before cold, that
\* works; touch_accessed.
Download(s) ==
    /\ s \in enabled
    /\ status[s] = "synced"
    /\ stale' = stale \ {s}
    /\ UNCHANGED <<status, storageVars, taskVars, workerVars, restoreVars, edits, faults>>

\* hot_to_cold_days pass without a download.
Age(s) ==
    /\ s \notin stale
    /\ stale' = stale \cup {s}
    /\ UNCHANGED <<status, storageVars, taskVars, workerVars, restoreVars, edits, faults>>

Flip(S, s) == (S \ {s}) \cup ({s} \ S)

\* update_storage and disable_storage
EditStorage(s) ==
    /\ edits < MaxEdits
    /\ edits' = edits + 1
    /\ \/ "is_hot" \in Columns /\ hot' = Flip(hot, s) /\ UNCHANGED enabled
       \/ "enabled" \in Columns /\ enabled' = Flip(enabled, s) /\ UNCHANGED hot
    /\ UNCHANGED <<locVars, taskVars, workerVars, restoreVars, faults>>

-----------------------------------------------------------------------------
WorkerStep(w) ==
    \/ Find(w) \/ FindCold(w) \/ InsertTask(w) \/ SelectReady(w) \/ Archive(w) \/ ScanDone(w)

RestoreStep(r) == RestoreFind(r) \/ RestoreInsert(r) \/ RestoreMark(r)

Next ==
    \/ \E w \in Workers : WorkerStep(w)
    \/ \E r \in Restores : RestoreStep(r)
    \/ Sync
    \/ \E s \in Storages : Download(s) \/ Age(s) \/ EditStorage(s)

Spec == Init /\ [][Next]_vars

\* The workers loop for as long as the service runs and a request that has
\* begun runs to its end; nobody has to ask for a restore or a download.
FairSpec ==
    /\ Spec
    /\ \A w \in Workers : WF_vars(WorkerStep(w))
    /\ \A r \in Restores : WF_vars(RestoreInsert(r) \/ RestoreMark(r))
    /\ WF_vars(Sync)

-----------------------------------------------------------------------------
(* Correctness properties                                                  *)

\* Archiving never takes the last copy find_for_file would serve: however the
\* scans, restores and syncs of all replicas overlap, some row is 'synced'.
AlwaysServed == \E s \in Storages : status[s] = "synced"

\* A hot copy nobody downloads does not stay hot for ever, whatever edits, faults
\* and restores came before, as long as there is a cold storage to go to.
EventuallyArchived ==
    \A s \in HotFirst :
        []<>(\/ status[s] # "synced" \/ s \notin stale
             \/ s \notin hot \cap enabled \/ enabled \ hot = {})
=============================================================================
