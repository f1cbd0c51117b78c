------------------------------- MODULE Backup -------------------------------
(***************************************************************************)
(* Database backups of one backup_configs row: the BackupWorker of every   *)
(* replica (src/workers/backup_worker.rs), manual triggers and deletes     *)
(* (src/api/backups.rs, src/services/backup_service.rs), the rows of       *)
(* backup_history, the dumps on the storage, and the advisory lock of the  *)
(* configuration, which belongs to a pooled connection. Every statement,   *)
(* and every dump with its upload, is a step. Time is counted in cron      *)
(* slots of the schedule.                                                  *)
(***************************************************************************)
EXTENDS Naturals, FiniteSets

CONSTANTS
    Workers,        \* backup workers, one per replica
    Triggers,       \* requests POST /backups/trigger with this config
    Deletes,        \* requests DELETE /backups/{id}
    ConfigDeletes,  \* requests DELETE /backup-configs/{id}
    Home,           \* Home[p]: the replica that runs process p
    Conns,          \* pooled database connections
    PoolOf,         \* PoolOf[c]: the replica whose pool has connection c
    Retention,      \* retention_count when the config is created
    MaxRetention,   \* bound: values an admin sets retention_count to
    MaxRecords,     \* bound: rows of backup_history
    MaxSlots,       \* bound: cron slots that come
    MaxEdits,       \* bound: edits of the config
    MaxFaults,      \* bound: failing statements and crashes
    NoConn

Admins == Deletes \cup ConfigDeletes
Runners == Workers \cup Triggers
Procs == Runners \cup Admins
Records == 1..MaxRecords

ASSUME ConstantsAssumption ==
    /\ Home \in [Procs -> Workers] /\ \A w \in Workers : Home[w] = w
    /\ PoolOf \in [Conns -> Workers]
    /\ Workers \cap Triggers = {} /\ Runners \cap Admins = {}
    /\ Deletes \cap ConfigDeletes = {}
    /\ Retention \in Nat \ {0} /\ MaxRetention \in Nat
    /\ MaxRecords \in Nat /\ MaxSlots \in Nat /\ MaxEdits \in Nat /\ MaxFaults \in Nat
    /\ NoConn \notin Conns

VARIABLES
    status,     \* backup_history.status; "none" before the INSERT, "stale" is
                \* 'running' with a started_at over an hour ago
    slot,       \* the cron slot in which the row was inserted (started_at)
    scheduled,  \* rows a worker inserted
    last,       \* rows inserted so far, in the order of created_at
    objects,    \* rows whose dump is on the storage
    now,        \* cron slots so far
    held,       \* held[c]: how often connection c holds the advisory lock
    config,     \* the row of backup_configs
    retention,  \* its retention_count
    pc, rec, conn, todo,    \* a process: its row, its connection, rows to delete
    keep,       \* the retention_count the process goes by
    removed,    \* history: dumps deleted on behalf of an admin
    edits, faults

rowVars == <<status, slot, scheduled, last>>
configVars == <<config, retention, edits>>
procVars == <<rec, conn, todo, keep>>
vars == <<rowVars, objects, now, held, configVars, pc, procVars, removed, faults>>

Status == {"none", "running", "stale", "completed", "failed", "deleted"}
PC == {"idle", "request", "check", "stale", "count", "lock", "insert", "dump", "done",
       "fail", "unlock", "release", "list", "clean", "row", "config", "end"}

Init ==
    /\ status = [i \in Records |-> "none"]
    /\ slot = [i \in Records |-> 0]
    /\ scheduled = {} /\ last = 0
    /\ objects = {}
    /\ now = 0
    /\ held = [c \in Conns |-> 0]
    /\ config = "enabled" /\ retention = Retention /\ edits = 0
    /\ pc = [p \in Procs |-> IF p \in Workers THEN "idle" ELSE "request"]
    /\ rec = [p \in Procs |-> 0]
    /\ conn = [p \in Procs |-> NoConn]
    /\ todo = [p \in Procs |-> {}]
    /\ keep = [p \in Procs |-> Retention]
    /\ removed = {}
    /\ faults = 0

Goto(p, l) == pc' = [pc EXCEPT ![p] = l]

Fault ==
    /\ faults < MaxFaults
    /\ faults' = faults + 1

Rows == {i \in Records : status[i] \notin {"none", "deleted"}}

\* The statement on row i fails, or finds no row.
Missed(i) == (i \notin Rows /\ UNCHANGED faults) \/ Fault

\* Rows with this config_id; deleting the config sets it to NULL.
ConfigRows == IF config = "deleted" THEN {} ELSE Rows

Latest == CHOOSE i \in ConfigRows : \A j \in ConfigRows : j <= i
SetStatus(i, s) == status' = IF i \in Rows THEN [status EXCEPT ![i] = s] ELSE status
Idle(c) == \A p \in Procs : conn[p] # c

-----------------------------------------------------------------------------
(* The schedule: process_config and is_backup_due                          *)

\* check_and_run_backups reads the enabled configs.
Scan(w) ==
    /\ pc[w] = "idle"
    /\ config = "enabled"
    /\ keep' = [keep EXCEPT ![w] = retention]
    /\ Goto(w, "check")
    /\ UNCHANGED <<rowVars, objects, now, held, configVars, rec, conn, todo, removed, faults>>

\* What follows from is_backup_due, before and after the lock is taken.
Decide(w, due) ==
    Goto(w, CASE conn[w] = NoConn -> IF due THEN "lock" ELSE "idle"
              [] OTHER            -> IF due THEN "insert" ELSE "unlock")

\* Mutant of CheckDue: a new config waits for the second slot.
CheckDue_SkipFirst(w) ==
    /\ pc[w] = "check"
    /\ ConfigRows = {}
    /\ Decide(w, now > 1)
    /\ UNCHANGED <<rowVars, objects, now, held, configVars, procVars, removed, faults>>

\* The latest row decides: none or an ended one by its slot, a running one puts
\* the backup off unless it is stale.
CheckDue(w) ==
    /\ pc[w] = "check"
    /\ \/ /\ ConfigRows = {}
          /\ Decide(w, now > 0)
          /\ UNCHANGED rec
       \/ /\ ConfigRows # {} /\ status[Latest] \notin {"running", "stale"}
          /\ Decide(w, now > slot[Latest])
          /\ UNCHANGED rec
       \/ /\ ConfigRows # {} /\ status[Latest] = "running"
          /\ Decide(w, FALSE)
          /\ UNCHANGED rec
       \/ /\ ConfigRows # {} /\ status[Latest] = "stale"
          /\ rec' = [rec EXCEPT ![w] = Latest]
          /\ Goto(w, "stale")
    /\ UNCHANGED <<rowVars, objects, now, held, configVars, conn, todo, keep, removed, faults>>

\* mark_failed by id, whatever the row is by now; its error is dropped.
MarkStale(w) ==
    /\ pc[w] = "stale"
    /\ Decide(w, now > slot[rec[w]])
    /\ \/ SetStatus(rec[w], "failed") /\ UNCHANGED faults
       \/ Fault /\ UNCHANGED status
    /\ rec' = [rec EXCEPT ![w] = 0]
    /\ UNCHANGED <<slot, scheduled, last, objects, now, held, configVars, conn, todo, keep, removed>>

\* An error of is_backup_due returns at once: the connection goes back to the
\* pool with the lock, if it is the second check.
CheckError(w) ==
    /\ pc[w] = "check"
    /\ Fault
    /\ conn' = [conn EXCEPT ![w] = NoConn]
    /\ Goto(w, "idle")
    /\ UNCHANGED <<rowVars, objects, now, held, configVars, rec, todo, keep, removed>>

-----------------------------------------------------------------------------
(* The advisory lock of the config, for workers and triggers               *)

\* Where a process goes on without the lock.
Unlocked(p) == IF p \in Workers THEN "idle" ELSE "fail"

\* Mutant of Lock: the answer of pg_try_advisory_lock is not looked at.
Lock_Always(p) ==
    /\ pc[p] = "lock"
    /\ \E c \in Conns : PoolOf[c] = Home[p] /\ Idle(c) /\ conn' = [conn EXCEPT ![p] = c]
    /\ Goto(p, IF p \in Workers THEN "check" ELSE "dump")
    /\ UNCHANGED <<rowVars, objects, now, held, configVars, rec, todo, keep, removed, faults>>

\* Mutant of Lock: a worker does not check again under the lock.
Lock_NoRecheck(p) ==
    /\ pc[p] = "lock"
    /\ \E c \in Conns :
         /\ PoolOf[c] = Home[p] /\ Idle(c)
         /\ \A d \in Conns \ {c} : held[d] = 0
         /\ held' = [held EXCEPT ![c] = @ + 1]
         /\ conn' = [conn EXCEPT ![p] = c]
    /\ Goto(p, IF p \in Workers THEN "insert" ELSE "dump")
    /\ UNCHANGED <<rowVars, objects, now, configVars, rec, todo, keep, removed, faults>>

\* pg_try_advisory_lock on an idle connection of the replica's pool: it fails if
\* another connection has the lock and counts up if this one has it already.
Lock(p) ==
    /\ pc[p] = "lock"
    /\ \/ /\ \E c \in Conns :
               /\ PoolOf[c] = Home[p] /\ Idle(c)
               /\ \A d \in Conns \ {c} : held[d] = 0
               /\ held' = [held EXCEPT ![c] = @ + 1]
               /\ conn' = [conn EXCEPT ![p] = c]
          /\ Goto(p, IF p \in Workers THEN "check" ELSE "dump")
          /\ UNCHANGED faults
       \/ /\ \E c, d \in Conns : PoolOf[c] = Home[p] /\ Idle(c) /\ c # d /\ held[d] > 0
          /\ Goto(p, Unlocked(p))
          /\ UNCHANGED <<held, conn, faults>>
       \/ /\ Fault
          /\ Goto(p, Unlocked(p))
          /\ UNCHANGED <<held, conn>>
    /\ UNCHANGED <<rowVars, objects, now, configVars, rec, todo, keep, removed>>

\* pg_advisory_unlock on the same connection, if the process has one; the
\* connection is lost when the statement fails. After a good scheduled backup
\* the worker goes on with the retention.
Unlock(p) ==
    /\ pc[p] \in {"unlock", "release"}
    /\ \/ held' = [c \in Conns |-> IF c = conn[p] THEN held[c] - 1 ELSE held[c]] /\ UNCHANGED faults
       \/ Fault /\ held' = [c \in Conns |-> IF c = conn[p] THEN 0 ELSE held[c]]
    /\ conn' = [conn EXCEPT ![p] = NoConn]
    /\ Goto(p, CASE pc[p] = "release" -> "list"
                 [] p \in Workers /\ pc[p] = "unlock" -> "idle"
                 [] OTHER -> "end")
    /\ rec' = [rec EXCEPT ![p] = 0]
    /\ UNCHANGED <<rowVars, objects, now, configVars, todo, keep, removed>>

-----------------------------------------------------------------------------
(* create_backup, trigger_backup, execute_backup_and_update                *)

\* The new row; its foreign key needs the config.
NewRow(p) ==
    /\ config # "deleted"
    /\ last < MaxRecords
    /\ last' = last + 1
    /\ status' = [status EXCEPT ![last + 1] = "running"]
    /\ slot' = [slot EXCEPT ![last + 1] = now]
    /\ rec' = [rec EXCEPT ![p] = last + 1]

\* A worker's row; with an unavailable storage it is marked failed at once.
InsertScheduled(w) ==
    /\ pc[w] = "insert"
    /\ \/ NewRow(w) /\ scheduled' = scheduled \cup {last + 1} /\ Goto(w, "dump") /\ UNCHANGED faults
       \/ NewRow(w) /\ scheduled' = scheduled \cup {last + 1} /\ Goto(w, "fail") /\ Fault
       \/ Fault /\ Goto(w, "unlock") /\ UNCHANGED <<status, slot, last, rec, scheduled>>
       \/ /\ config = "deleted"
          /\ Goto(w, "unlock")
          /\ UNCHANGED <<status, slot, last, rec, scheduled, faults>>
    /\ UNCHANGED <<objects, now, held, configVars, conn, todo, keep, removed>>

\* mark_stale_running_as_failed; an error of a step before the row ends the request.
TriggerStale(t) ==
    /\ pc[t] = "request"
    /\ config # "deleted"
    /\ status' = [i \in Records |-> IF status[i] = "stale" THEN "failed" ELSE status[i]]
    /\ Goto(t, "count")
    /\ UNCHANGED <<slot, scheduled, last, objects, now, held, configVars, procVars, removed, faults>>

\* has_running_by_config
TriggerCount(t) ==
    /\ pc[t] = "count"
    /\ Goto(t, IF \E i \in ConfigRows : status[i] \in {"running", "stale"} THEN "end" ELSE "insert")
    /\ UNCHANGED <<rowVars, objects, now, held, configVars, procVars, removed, faults>>

\* The row is there before the background task takes the lock.
TriggerInsert(t) ==
    /\ pc[t] = "insert"
    /\ \/ NewRow(t) /\ Goto(t, "lock")
       \/ config = "deleted" /\ Goto(t, "end") /\ UNCHANGED <<status, slot, last, rec>>
    /\ UNCHANGED <<scheduled, objects, now, held, configVars, conn, todo, keep, removed, faults>>

\* execute_backup: pg_dump, gzip and upload; a failed one may leave a part.
Dump(p) ==
    /\ pc[p] = "dump"
    /\ \/ objects' = objects \cup {rec[p]} /\ Goto(p, "done") /\ UNCHANGED faults
       \/ objects' \in {objects, objects \cup {rec[p]}} /\ Goto(p, "fail") /\ Fault
    /\ UNCHANGED <<rowVars, now, held, configVars, procVars, removed>>

\* mark_completed by id; an error, or a row that is gone, counts as a failure.
MarkCompleted(p) ==
    /\ pc[p] = "done"
    /\ \/ /\ rec[p] \in Rows
          /\ SetStatus(rec[p], "completed")
          /\ Goto(p, IF p \in Workers THEN "release" ELSE "list")
          /\ UNCHANGED faults
       \/ /\ Missed(rec[p])
          /\ Goto(p, "unlock")
          /\ UNCHANGED status
    /\ UNCHANGED <<slot, scheduled, last, objects, now, held, configVars, procVars, removed>>

\* mark_failed by id; its error is dropped.
MarkFailed(p) ==
    /\ pc[p] = "fail"
    /\ \/ SetStatus(rec[p], "failed") /\ UNCHANGED faults
       \/ Fault /\ UNCHANGED status
    /\ Goto(p, "unlock")
    /\ UNCHANGED <<slot, scheduled, last, objects, now, held, configVars, procVars, removed>>

-----------------------------------------------------------------------------
(* Retention and deletes                                                   *)

\* Where a process goes when its deletes are done, and when one has failed.
Cleaned(p) == CASE p \in Workers -> "idle" [] p \in Triggers -> "unlock"
                [] p \in Deletes -> "end" [] p \in ConfigDeletes -> "config"
Aborted(p) == IF p \in ConfigDeletes THEN "end" ELSE Cleaned(p)

Completed == {i \in ConfigRows : status[i] = "completed"}

\* list_oldest_completed_by_config: those beyond the newest n.
Beyond(n) == {i \in Completed : Cardinality({j \in Completed : j > i}) >= n}

\* Mutant of ListOld: one too many.
ListOld_OffByOne(p) ==
    /\ pc[p] = "list"
    /\ todo' = [todo EXCEPT ![p] = {i \in Completed : Cardinality({j \in Completed : j >= i}) >= keep[p]}]
    /\ Goto(p, "clean")
    /\ UNCHANGED <<rowVars, objects, now, held, configVars, rec, conn, keep, removed, faults>>

\* cleanup_old_backups: a worker goes by the config it scanned, a trigger reads
\* it again.
ListOld(p) ==
    /\ pc[p] = "list"
    /\ \/ /\ p \in Workers \/ config # "deleted"
          /\ keep' = [keep EXCEPT ![p] = IF p \in Workers THEN @ ELSE retention]
          /\ todo' = [todo EXCEPT ![p] = Beyond(keep'[p])]
          /\ Goto(p, "clean")
          /\ UNCHANGED faults
       \/ /\ p \in Triggers /\ config = "deleted"
          /\ Goto(p, "unlock")
          /\ UNCHANGED <<keep, todo, faults>>
       \/ Fault /\ Goto(p, Cleaned(p)) /\ UNCHANGED <<keep, todo>>
    /\ UNCHANGED <<rowVars, objects, now, held, configVars, rec, conn, removed>>

\* Mutant of DeleteFile: the row goes even if its file could not be deleted.
DeleteFile_Ignore(p) ==
    /\ pc[p] = "clean"
    /\ \E i \in todo[p] :
         /\ todo' = [todo EXCEPT ![p] = @ \ {i}]
         /\ rec' = [rec EXCEPT ![p] = i]
         /\ \/ objects' = objects \ {i} /\ UNCHANGED faults
            \/ Fault /\ UNCHANGED objects
    /\ Goto(p, "row")
    /\ UNCHANGED <<rowVars, now, held, configVars, conn, keep, removed>>

\* The file first; a row whose file cannot be deleted is skipped.
DeleteFile(p) ==
    /\ pc[p] = "clean"
    /\ \E i \in todo[p] :
         /\ todo' = [todo EXCEPT ![p] = @ \ {i}]
         /\ \/ /\ objects' = objects \ {i}
               /\ rec' = [rec EXCEPT ![p] = i]
               /\ removed' = IF p \in Admins THEN removed \cup {i} ELSE removed
               /\ Goto(p, "row")
               /\ UNCHANGED faults
            \/ Fault /\ UNCHANGED <<objects, rec, removed, pc>>
    /\ UNCHANGED <<rowVars, now, held, configVars, conn, keep>>

\* Then the row; an error, or a row that is gone, ends the whole loop.
DeleteRow(p) ==
    /\ pc[p] = "row"
    /\ \/ /\ rec[p] \in Rows
          /\ SetStatus(rec[p], "deleted")
          /\ Goto(p, "clean")
          /\ UNCHANGED <<todo, faults>>
       \/ /\ Missed(rec[p])
          /\ todo' = [todo EXCEPT ![p] = {}]
          /\ Goto(p, Aborted(p))
          /\ UNCHANGED status
    /\ rec' = [rec EXCEPT ![p] = 0]
    /\ UNCHANGED <<slot, scheduled, last, objects, now, held, configVars, conn, keep, removed>>

DeletesDone(p) ==
    /\ pc[p] = "clean"
    /\ todo[p] = {}
    /\ Goto(p, Cleaned(p))
    /\ UNCHANGED <<rowVars, objects, now, held, configVars, procVars, removed, faults>>

\* delete_backup of any row, delete_backup_config with or without its backups.
AdminRequest(p) ==
    /\ pc[p] = "request"
    /\ \/ p \in Deletes /\ \E i \in Rows : todo' = [todo EXCEPT ![p] = {i}]
       \/ /\ p \in ConfigDeletes /\ config # "deleted"
          /\ \E S \in {{}, ConfigRows} : todo' = [todo EXCEPT ![p] = S]
    /\ Goto(p, "clean")
    /\ UNCHANGED <<rowVars, objects, now, held, configVars, rec, conn, keep, removed, faults>>

DeleteConfig(p) ==
    /\ pc[p] = "config"
    /\ config' = "deleted"
    /\ Goto(p, "end")
    /\ UNCHANGED <<rowVars, objects, now, held, retention, edits, procVars, removed, faults>>

\* update_backup_config, which takes no retention_count below 1.
UpdateConfig ==
    /\ config # "deleted"
    /\ edits < MaxEdits
    /\ edits' = edits + 1
    /\ retention' \in 1..MaxRetention
    /\ config' \in {"enabled", "disabled"}
    /\ UNCHANGED <<rowVars, objects, now, held, pc, procVars, removed, faults>>

-----------------------------------------------------------------------------
(* Time, the connection pool and restarts                                  *)

Tick ==
    /\ now < MaxSlots
    /\ now' = now + 1
    /\ UNCHANGED <<rowVars, objects, held, configVars, pc, procVars, removed, faults>>

\* An hour has passed since the row was inserted.
Expire(i) ==
    /\ status[i] = "running"
    /\ SetStatus(i, "stale")
    /\ UNCHANGED <<slot, scheduled, last, objects, now, held, configVars, pc, procVars, removed, faults>>

\* The pool closes an idle connection that is too old, and its lock goes.
CloseConn(c) ==
    /\ Idle(c) /\ held[c] > 0
    /\ held' = [held EXCEPT ![c] = 0]
    /\ UNCHANGED <<rowVars, objects, now, configVars, pc, procVars, removed, faults>>

\* A replica dies and starts again; its requests and background tasks are lost.
Restart(w) ==
    /\ Fault
    /\ pc' = [p \in Procs |-> CASE p = w -> "idle"
                                [] p # w /\ Home[p] = w /\ pc[p] # "request" -> "end"
                                [] OTHER -> pc[p]]
    /\ conn' = [p \in Procs |-> IF Home[p] = w THEN NoConn ELSE conn[p]]
    /\ todo' = [p \in Procs |-> IF Home[p] = w THEN {} ELSE todo[p]]
    /\ rec' = [p \in Procs |-> IF Home[p] = w THEN 0 ELSE rec[p]]
    /\ held' = [c \in Conns |-> IF PoolOf[c] = w THEN 0 ELSE held[c]]
    /\ UNCHANGED <<rowVars, objects, now, configVars, keep, removed>>

-----------------------------------------------------------------------------
WorkerStep(w) ==
    Scan(w) \/ CheckDue(w) \/ MarkStale(w) \/ CheckError(w) \/ InsertScheduled(w)

TriggerStep(t) == TriggerStale(t) \/ TriggerCount(t) \/ TriggerInsert(t)

RunStep(p) ==
    Lock(p) \/ Unlock(p) \/ Dump(p) \/ MarkCompleted(p) \/ MarkFailed(p) \/ ListOld(p)

DeleteStep(p) == DeleteFile(p) \/ DeleteRow(p) \/ DeletesDone(p)

Next ==
    \/ \E w \in Workers : WorkerStep(w) \/ Restart(w)
    \/ \E t \in Triggers : TriggerStep(t)
    \/ \E p \in Runners : RunStep(p)
    \/ \E p \in Procs : DeleteStep(p)
    \/ \E p \in Admins : AdminRequest(p)
    \/ \E p \in ConfigDeletes : DeleteConfig(p)
    \/ UpdateConfig \/ Tick
    \/ \E i \in Records : Expire(i)
    \/ \E c \in Conns : CloseConn(c)

Spec == Init /\ [][Next]_vars

\* Workers loop for as long as their replica runs, a request that has begun and
\* its background task run to their end, an hour passes, and the pool closes
\* idle connections.
FairSpec ==
    /\ Spec
    /\ \A w \in Workers : WF_vars(WorkerStep(w))
    /\ \A t \in Triggers : WF_vars(TriggerCount(t) \/ TriggerInsert(t))
    /\ \A p \in Runners : WF_vars(RunStep(p))
    /\ \A p \in Runners : WF_vars(DeleteStep(p))
    /\ \A i \in Records : WF_vars(Expire(i))
    /\ \A c \in Conns : WF_vars(CloseConn(c))

-----------------------------------------------------------------------------
(* Correctness properties                                                  *)

\* Types, and that rows are inserted one after the other.
TypeOK ==
    /\ status \in [Records -> Status]
    /\ slot \in [Records -> Nat]
    /\ scheduled \in SUBSET Records
    /\ last \in Records \cup {0}
    /\ objects \in SUBSET Records
    /\ now \in Nat
    /\ held \in [Conns -> Nat]
    /\ config \in {"enabled", "disabled", "deleted"}
    /\ retention \in Nat \ {0}
    /\ pc \in [Procs -> PC]
    /\ rec \in [Procs -> Records \cup {0}]
    /\ conn \in [Procs -> Conns \cup {NoConn}]
    /\ todo \in [Procs -> SUBSET Records]
    /\ keep \in [Procs -> Nat \ {0}]
    /\ removed \in SUBSET Records
    /\ edits \in Nat /\ faults \in Nat
    /\ \A i \in Records : status[i] = "none" <=> i > last

\* No two pg_dumps of the config run at the same time, on one replica or on two,
\* scheduled or triggered, however locks are leaked and connections closed.
OneDump == \A p, q \in Runners : pc[p] = "dump" /\ pc[q] = "dump" => p = q

\* A cron slot is used once: two rows the workers inserted have different slots.
OncePerSlot == \A i, j \in scheduled \cap Rows : slot[i] = slot[j] => i = j

\* A dump on the storage is listed, unless an admin deleted its row while it ran.
DumpsListed == objects \subseteq Rows \cup removed

\* Retention leaves the newest keep[p] dumps, apart from those an admin deleted,
\* also when several processes clean up at once.
RetentionKept ==
    [][\A p \in Runners :
         pc[p] = "clean" /\ pc'[p] = "row" =>
           Cardinality({j \in objects \cup removed : j > rec'[p]}) >= keep[p]]_vars

\* A cron slot that has come is served, or a later one, while the config is
\* enabled: no leaked lock, crash or stuck row blocks the schedule for ever.
SlotServed ==
    \A n \in 1..MaxSlots :
      now = n ~> (config # "enabled" \/ \E i \in Records : i <= last /\ slot[i] >= n)
=============================================================================
