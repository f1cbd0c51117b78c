-------------------------- MODULE SyncQueueProofs --------------------------
(***************************************************************************)
(* Theorems about SyncQueue, for every number of workers, processes, rows, *)
(* files and storages and every assignment of jobs to rows.                *)
(***************************************************************************)
EXTENDS SyncQueue, TLAPS

\* The columns of a row name a file, two storages and a container.
LEMMA JobType ==
    ASSUME NEW t \in Tasks
    PROVE  /\ Job[t].file \in Files
           /\ Job[t].source \in Storages
           /\ Job[t].target \in Storages
           /\ Container(t) \in Containers
  BY ConstantsAssumption DEF Container

\* finalize_task works on one row at a time: a batch has one oldest row.
LEMMA OldestUnique ==
    ASSUME NEW S, NEW t \in Tasks, NEW u \in Tasks, Oldest(S, t), Oldest(S, u)
    PROVE  t = u
<1>1. t \in Nat /\ u \in Nat /\ t <= u /\ u <= t
  BY ConstantsAssumption DEF Oldest
<1> QED BY <1>1

\* Writing one object keeps the objects' type.
LEMMA ObjectType ==
    ASSUME NEW obj \in [Files -> [Storages -> [Containers -> Content]]],
           NEW f \in Files, NEW s \in Storages, NEW c \in Containers,
           NEW x \in Content
    PROVE  [obj EXCEPT ![f][s][c] = x] \in [Files -> [Storages -> [Containers -> Content]]]
  OBVIOUS

\* Removing the temp file of the current batch keeps the temp directories' type.
LEMMA RemoveTempType ==
    ASSUME temp \in [Hosts -> [Tasks -> Content]],
           opener \in [Hosts -> [Tasks -> Workers \cup {NoWorker}]],
           NEW w \in Workers, RemoveTemp(w)
    PROVE  /\ temp' \in [Hosts -> [Tasks -> Content]]
           /\ opener' \in [Hosts -> [Tasks -> Workers \cup {NoWorker}]]
  BY DEF RemoveTemp, Content

\* Every column, object, temp file and worker register stays in its range,
\* whatever claim_pending, process_batch, a crash or the clock does.
THEOREM TypeCorrect == Spec => []TypeOK
<1>1. Init => TypeOK
  BY ConstantsAssumption DEF Init, TypeOK, Status, Content, PC, InBatch, NoTask
<1>2. TypeOK /\ [Next]_vars => TypeOK'
  <2> SUFFICES ASSUME TypeOK, [Next]_vars PROVE TypeOK'
    OBVIOUS
  <2>1. CASE UNCHANGED vars
    BY <2>1 DEF vars, dbVars, storeVars, tempVars, workerVars, TypeOK
  <2>2. ASSUME NEW t \in Tasks, Enqueue(t) \/ RetryDue(t) \/ BecomeStale(t)
        PROVE TypeOK'
    <3>1. CASE Enqueue(t)
      BY <3>1 DEF Enqueue, storeVars, tempVars, workerVars, TypeOK, Status
    <3>2. CASE RetryDue(t)
      BY <3>2 DEF RetryDue, storeVars, tempVars, workerVars, TypeOK
    <3>3. CASE BecomeStale(t)
      BY <3>3 DEF BecomeStale, storeVars, tempVars, workerVars, TypeOK
    <3> QED BY <2>2, <3>1, <3>2, <3>3
  <2>3. ASSUME NEW w \in Workers, WorkerStep(w) PROVE TypeOK'
    <3>a. /\ object \in [Files -> [Storages -> [Containers -> Content]]]
          /\ location \in [Files -> [Storages -> {"none", "synced"}]]
          /\ temp \in [Hosts -> [Tasks -> Content]]
          /\ opener \in [Hosts -> [Tasks -> Workers \cup {NoWorker}]]
          /\ selected \in [Workers -> SUBSET Tasks]
          /\ pc \in [Workers -> PC]
          /\ pc[w] \in InBatch => lead[w] \in Tasks
          /\ HostOf[w] \in Hosts
      BY ConstantsAssumption DEF TypeOK
    <3>1. CASE Reclaim(w)
      <4>1. stale' \in [Tasks -> BOOLEAN]
        BY <3>1, Zenon DEF Reclaim, TypeOK
      <4>2. status' \in [Tasks -> Status] /\ retries' \in [Tasks -> Nat]
        BY <3>1 DEF Reclaim, Status, TypeOK
      <4> QED BY <3>1, <4>1, <4>2 DEF Reclaim, TypeOK, PC, InBatch, dbVars, storeVars, tempVars
    <3>2. CASE FailExhausted(w) BY <3>2, ConstantsAssumption DEF FailExhausted, Status,
        TypeOK, PC, InBatch, dbVars, storeVars, tempVars
    <3>3. CASE SelectPending(w) BY <3>3, ConstantsAssumption DEF SelectPending,
        TypeOK, PC, InBatch, dbVars, storeVars, tempVars
    <3>4. CASE TryLock(w)
      <4>1. PICK t \in Tasks :
              \/ selected' = [selected EXCEPT ![w] = @ \ {t}] /\ UNCHANGED pc
              \/ pc' = [pc EXCEPT ![w] = "mark_claimed"] /\ UNCHANGED selected
        BY <3>4 DEF TryLock
      <4>2. selected' \in [Workers -> SUBSET Tasks]
        BY <4>1, <3>a
      <4>3. pc' \in [Workers -> PC]
        BY <4>1, <3>a DEF PC
      <4>4. \A v \in Workers : pc'[v] \in InBatch => pc[v] \in InBatch
        BY <4>1, <3>a DEF InBatch
      <4> QED BY <3>4, <4>2, <4>3, <4>4 DEF TryLock, TypeOK, dbVars, storeVars, tempVars
    <3>5. CASE MarkClaimed(w) BY <3>5, ConstantsAssumption DEF MarkClaimed, Status,
        TypeOK, PC, InBatch, dbVars, storeVars, tempVars
    <3>6. CASE ClaimDone(w) BY <3>6, ConstantsAssumption DEF ClaimDone,
        TypeOK, PC, InBatch, dbVars, storeVars, tempVars
    <3>7. CASE ClaimError(w) BY <3>7, ConstantsAssumption DEF ClaimError, Fault,
        TypeOK, PC, InBatch, dbVars, storeVars, tempVars
    <3>8. CASE StartBatch(w) BY <3>8, ConstantsAssumption DEF StartBatch,
        TypeOK, PC, InBatch, dbVars, storeVars, tempVars
    <3>9. CASE DownloadOpen(w) BY <3>9, ConstantsAssumption DEF DownloadOpen, Content,
        TypeOK, PC, InBatch, dbVars, storeVars, tempVars
    <3>10. CASE DownloadDone(w)
      <4>1. SourceObject(w) \in Content
        BY <3>10, <3>a, JobType DEF DownloadDone, SourceObject, InBatch
      <4>2. temp' \in [Hosts -> [Tasks -> Content]]
        BY <3>10, <3>a, <4>1 DEF DownloadDone
      <4> QED BY <3>10, <4>2 DEF DownloadDone,
              TypeOK, PC, InBatch, dbVars, storeVars, tempVars
    <3>11. CASE DownloadFail(w)
      <4>1. /\ temp' \in [Hosts -> [Tasks -> Content]]
            /\ opener' \in [Hosts -> [Tasks -> Workers \cup {NoWorker}]]
        BY <3>11, <3>a, RemoveTempType DEF DownloadFail
      <4>2. faults' \in Nat
        BY <3>11 DEF DownloadFail, Fault, TypeOK
      <4>3. lead[w] \in Tasks
        BY <3>11, <3>a DEF DownloadFail, InBatch
      <4> QED BY <3>11, <4>1, <4>2, <4>3 DEF DownloadFail,
              TypeOK, PC, InBatch, dbVars, storeVars
    <3>20. CASE TempDirFail(w) BY <3>20, ConstantsAssumption DEF TempDirFail, Fault,
        TypeOK, PC, InBatch, dbVars, storeVars, tempVars
    <3>12. CASE UploadOk(w)
      <4>1. PICK t \in Tasks :
              /\ object' = [object EXCEPT ![Job[t].file][Job[t].target][Container(t)] =
                              temp[HostOf[w]][lead[w]]]
              /\ RemoveTemp(w) \/ UNCHANGED tempVars
        BY <3>12 DEF UploadOk
      <4>2. object' \in [Files -> [Storages -> [Containers -> Content]]]
        <5>1. temp[HostOf[w]][lead[w]] \in Content
          BY <3>12, <3>a DEF UploadOk, InBatch
        <5> QED BY <4>1, <5>1, <3>a, JobType, ObjectType
      <4>3. /\ temp' \in [Hosts -> [Tasks -> Content]]
            /\ opener' \in [Hosts -> [Tasks -> Workers \cup {NoWorker}]]
        BY <4>1, <3>a, RemoveTempType DEF tempVars
      <4> QED BY <3>12, <4>2, <4>3 DEF UploadOk,
              TypeOK, PC, InBatch, dbVars, storeVars, tempVars
    <3>13. CASE UploadFail(w)
      <4>1. PICK t \in Tasks :
              \/ UNCHANGED object
              \/ object' = [object EXCEPT
                              ![Job[t].file][Job[t].target][Container(t)] = "partial"]
        BY <3>13 DEF UploadFail
      <4>2. object' \in [Files -> [Storages -> [Containers -> Content]]]
        <5>1. "partial" \in Content
          BY DEF Content
        <5>2. CASE UNCHANGED object BY <5>2, <3>a
        <5>3. CASE object' = [object EXCEPT
                     ![Job[t].file][Job[t].target][Container(t)] = "partial"]
          BY <5>1, <5>3, <3>a, JobType, ObjectType
        <5> QED BY <4>1, <5>2, <5>3
      <4>3. faults' \in Nat
        BY <3>13 DEF UploadFail, Fault, TypeOK
      <4> QED BY <3>13, <4>2, <4>3 DEF UploadFail,
              TypeOK, PC, InBatch, dbVars, storeVars, tempVars
    <3>14. CASE RecordLocation(w)
      <4>1. location' \in [Files -> [Storages -> {"none", "synced"}]]
        <5>1. CASE UNCHANGED location BY <5>1, <3>a
        <5>2. ASSUME NEW t \in Tasks,
                     location' = [location EXCEPT ![Job[t].file][Job[t].target] = "synced"]
              PROVE  location' \in [Files -> [Storages -> {"none", "synced"}]]
          BY <5>2, <3>a, JobType
        <5> QED BY <3>14, <5>1, <5>2 DEF RecordLocation
      <4>2. faults' \in Nat
        BY <3>14 DEF RecordLocation, Fault, TypeOK
      <4> QED BY <3>14, <4>1, <4>2 DEF RecordLocation,
              TypeOK, PC, InBatch, dbVars, storeVars, tempVars
    <3>15. CASE MarkCompleted(w)
      <4>1. status' \in [Tasks -> Status] /\ stale' \in [Tasks -> BOOLEAN]
        BY <3>15 DEF MarkCompleted, Status, TypeOK
      <4>2. faults' \in Nat
        BY <3>15 DEF MarkCompleted, Fault, TypeOK
      <4> QED BY <3>15, <4>1, <4>2 DEF MarkCompleted,
              TypeOK, PC, InBatch, dbVars, storeVars, tempVars
    <3>16. CASE SupersedeFailed(w) BY <3>16, ConstantsAssumption DEF SupersedeFailed, Fault, Status,
        TypeOK, PC, InBatch, dbVars, storeVars, tempVars
    <3>17. CASE Requeue(w)
      <4>1. /\ status' \in [Tasks -> Status] /\ stale' \in [Tasks -> BOOLEAN]
            /\ retries' \in [Tasks -> Nat] /\ due' \in [Tasks -> BOOLEAN]
        <5>1. CASE UNCHANGED dbVars BY <5>1 DEF TypeOK, dbVars
        <5>2. ASSUME NEW t \in Tasks, RequeueForRetry(t)
              PROVE  /\ status' \in [Tasks -> Status] /\ stale' \in [Tasks -> BOOLEAN]
                     /\ retries' \in [Tasks -> Nat] /\ due' \in [Tasks -> BOOLEAN]
          BY <5>2 DEF RequeueForRetry, TypeOK, Status
        <5> QED BY <3>17, <5>1, <5>2 DEF Requeue
      <4>2. faults' \in Nat /\ batch' \in [Workers -> SUBSET Tasks]
        BY <3>17 DEF Requeue, Fault, TypeOK
      <4> QED BY <3>17, <4>1, <4>2 DEF Requeue,
              TypeOK, PC, InBatch, dbVars, storeVars, tempVars
    <3>18. CASE BatchDone(w) BY <3>18, ConstantsAssumption DEF BatchDone, RemoveTemp, NextBatch, Content,
        TypeOK, PC, InBatch, dbVars, storeVars, tempVars
    <3>19. CASE FailAllDone(w) BY <3>19, ConstantsAssumption DEF FailAllDone, NextBatch,
        TypeOK, PC, InBatch, dbVars, storeVars, tempVars
    <3> QED BY <2>3, <3>1, <3>2, <3>3, <3>4, <3>5, <3>6, <3>7, <3>8, <3>9,
               <3>10, <3>11, <3>12, <3>13, <3>14, <3>15, <3>16, <3>17,
               <3>18, <3>19, <3>20 DEF WorkerStep
  <2>4. ASSUME NEW h \in Hosts, Crash(h) PROVE TypeOK'
    BY <2>4, ConstantsAssumption DEF Crash, Fault, dbVars, storeVars, TypeOK, PC, InBatch
  <2> QED BY <2>1, <2>2, <2>3, <2>4 DEF Next
<1> QED BY <1>1, <1>2, PTL DEF Spec
-----------------------------------------------------------------------------
(* Objects and synced rows only come; the strengthening of the two safety  *)
(* invariants says what a worker knows between its upload, its database    *)
(* writes and its 'completed'.                                             *)

\* Between the upload and the file_locations write, the object is on the target.
UploadedBeforeRecord ==
    \A w \in Workers, t \in Tasks :
        pc[w] = "record" /\ Oldest(batch[w], t) =>
            object[Job[t].file][Job[t].target][Container(t)] # "none"

\* Between the file_locations write and the end of finalize_task, the target is
\* listed as synced.
SyncedBeforeComplete ==
    \A w \in Workers, t \in Tasks :
        pc[w] \in {"complete", "supersede"} /\ Oldest(batch[w], t) =>
            location[Job[t].file][Job[t].target] = "synced"

ReplicationInv ==
    /\ TypeOK
    /\ LocationBacked
    /\ CompletedIsSynced
    /\ UploadedBeforeRecord
    /\ SyncedBeforeComplete

\* No step of the queue removes an object from a storage.
LEMMA ObjectsStay ==
    ASSUME TypeOK, [Next]_vars,
           NEW f \in Files, NEW s \in Storages, NEW c \in Containers,
           object[f][s][c] # "none"
    PROVE  object'[f][s][c] # "none"
<1>1. CASE UNCHANGED object BY <1>1
<1>2. ASSUME NEW w \in Workers, UploadOk(w) PROVE object'[f][s][c] # "none"
  <2>1. PICK t \in Tasks :
          /\ object' = [object EXCEPT ![Job[t].file][Job[t].target][Container(t)] =
                          temp[HostOf[w]][lead[w]]]
    BY <1>2 DEF UploadOk
  <2>2. temp[HostOf[w]][lead[w]] # "none"
    BY <1>2 DEF UploadOk
  <2> QED BY <2>1, <2>2, JobType DEF TypeOK
<1>3. ASSUME NEW w \in Workers, UploadFail(w) PROVE object'[f][s][c] # "none"
  <2>1. PICK t \in Tasks :
          \/ UNCHANGED object
          \/ object' = [object EXCEPT
                          ![Job[t].file][Job[t].target][Container(t)] = "partial"]
    BY <1>3 DEF UploadFail
  <2>2. CASE object' = [object EXCEPT
               ![Job[t].file][Job[t].target][Container(t)] = "partial"]
    BY <2>2, JobType DEF TypeOK
  <2> QED BY <1>1, <2>1, <2>2
<1> QED
  BY <1>1, <1>2, <1>3 DEF Next, WorkerStep, vars, storeVars, Enqueue, RetryDue,
     BecomeStale, Reclaim, FailExhausted, SelectPending, TryLock, MarkClaimed,
     ClaimDone, ClaimError, StartBatch, DownloadOpen, DownloadDone, TempDirFail, DownloadFail,
     RecordLocation, MarkCompleted, SupersedeFailed, Requeue, BatchDone,
     FailAllDone, Crash

\* Only RecordLocation writes file_locations.
LEMMA OnlyRecordLocates ==
    ASSUME [Next]_vars
    PROVE  UNCHANGED location \/ \E w \in Workers : RecordLocation(w)
<1>1. ASSUME NEW w \in Workers,
             \/ Reclaim(w) \/ FailExhausted(w) \/ SelectPending(w) \/ TryLock(w)
             \/ MarkClaimed(w) \/ ClaimDone(w) \/ ClaimError(w)
      PROVE  UNCHANGED location
  BY <1>1 DEF Reclaim, FailExhausted, SelectPending, TryLock, MarkClaimed, ClaimDone,
     ClaimError, storeVars
<1>2. ASSUME NEW w \in Workers,
             \/ StartBatch(w) \/ TempDirFail(w) \/ DownloadOpen(w) \/ DownloadDone(w)
             \/ DownloadFail(w) \/ UploadOk(w) \/ UploadFail(w)
      PROVE  UNCHANGED location
  BY <1>2 DEF StartBatch, TempDirFail, DownloadOpen, DownloadDone, DownloadFail, UploadOk,
     UploadFail, storeVars
<1>3. ASSUME NEW w \in Workers,
             \/ MarkCompleted(w) \/ SupersedeFailed(w) \/ Requeue(w) \/ BatchDone(w)
             \/ FailAllDone(w)
      PROVE  UNCHANGED location
  BY <1>3 DEF MarkCompleted, SupersedeFailed, Requeue, BatchDone, FailAllDone, storeVars
<1>4. ASSUME NEW w \in Workers, WorkerStep(w) PROVE UNCHANGED location \/ RecordLocation(w)
  BY <1>1, <1>2, <1>3, <1>4 DEF WorkerStep
<1> QED BY <1>4 DEF Next, vars, storeVars, Enqueue, RetryDue, BecomeStale, Crash

\* No step of the queue takes a synced row back.
LEMMA LocationsStay ==
    ASSUME TypeOK, [Next]_vars, NEW f \in Files, NEW s \in Storages,
           location[f][s] = "synced"
    PROVE  location'[f][s] = "synced"
<1>1. CASE UNCHANGED location BY <1>1
<1>2. ASSUME NEW w \in Workers, RecordLocation(w) PROVE location'[f][s] = "synced"
  <2>1. ASSUME NEW t \in Tasks,
               location' = [location EXCEPT ![Job[t].file][Job[t].target] = "synced"]
        PROVE  location'[f][s] = "synced"
    BY <2>1, JobType DEF TypeOK
  <2> QED BY <1>1, <1>2, <2>1 DEF RecordLocation
<1> QED BY <1>1, <1>2, OnlyRecordLocates

\* A step of one worker leaves the registers of the others alone.
LEMMA OtherRegisters ==
    ASSUME TypeOK, NEW v \in Workers, WorkerStep(v), NEW w \in Workers, w # v
    PROVE  pc'[w] = pc[w] /\ lead'[w] = lead[w] /\ batch'[w] = batch[w]
<1>1. pc \in [Workers -> PC] /\ lead \in [Workers -> Tasks \cup {NoTask}]
        /\ batch \in [Workers -> SUBSET Tasks]
  BY DEF TypeOK
<1>2. CASE \/ Reclaim(v) \/ FailExhausted(v) \/ SelectPending(v) \/ TryLock(v)
           \/ MarkClaimed(v) \/ ClaimDone(v) \/ ClaimError(v)
  BY <1>1, <1>2 DEF Reclaim, FailExhausted, SelectPending, TryLock, MarkClaimed,
     ClaimDone, ClaimError
<1>3. CASE StartBatch(v) \/ TempDirFail(v) \/ DownloadOpen(v) \/ DownloadDone(v) \/ DownloadFail(v)
  BY <1>1, <1>3 DEF StartBatch, TempDirFail, DownloadOpen, DownloadDone, DownloadFail
<1>4. CASE UploadOk(v) \/ UploadFail(v) \/ RecordLocation(v) \/ MarkCompleted(v)
  BY <1>1, <1>4 DEF UploadOk, UploadFail, RecordLocation, MarkCompleted
<1>5. CASE SupersedeFailed(v) \/ Requeue(v)
  BY <1>1, <1>5 DEF SupersedeFailed, Requeue
<1>6. CASE BatchDone(v) \/ FailAllDone(v)
  BY <1>1, <1>6 DEF BatchDone, FailAllDone, NextBatch
<1> QED BY <1>2, <1>3, <1>4, <1>5, <1>6 DEF WorkerStep

\* Every step keeps ReplicationInv.
LEMMA ReplicationStep == ReplicationInv /\ TypeOK' /\ [Next]_vars => ReplicationInv'
<1> SUFFICES ASSUME ReplicationInv, TypeOK', [Next]_vars PROVE ReplicationInv'
  OBVIOUS
<1>a. TypeOK /\ LocationBacked /\ CompletedIsSynced /\ UploadedBeforeRecord
        /\ SyncedBeforeComplete
  BY DEF ReplicationInv
<1>1. LocationBacked'
  <2> SUFFICES ASSUME NEW f \in Files, NEW s \in Storages, location'[f][s] = "synced"
               PROVE  \E c \in Containers : object'[f][s][c] # "none"
    BY DEF LocationBacked
  <2>1. CASE location[f][s] = "synced"
    <3>1. PICK c \in Containers : object[f][s][c] # "none"
      BY <1>a, <2>1 DEF LocationBacked
    <3> QED BY <1>a, <3>1, ObjectsStay
  <2>2. CASE location[f][s] # "synced"
    <3>1. PICK w \in Workers : RecordLocation(w)
      BY <2>2, OnlyRecordLocates
    <3>2. PICK t \in Tasks :
            /\ Oldest(batch[w], t)
            /\ location' = [location EXCEPT ![Job[t].file][Job[t].target] = "synced"]
      BY <2>2, <3>1 DEF RecordLocation
    <3>3. f = Job[t].file /\ s = Job[t].target
      BY <1>a, <2>2, <3>2, JobType DEF TypeOK
    <3>4. object[f][s][Container(t)] # "none"
      BY <1>a, <3>1, <3>2, <3>3 DEF UploadedBeforeRecord, RecordLocation
    <3> QED BY <1>a, <3>4, JobType, ObjectsStay
  <2> QED BY <2>1, <2>2
<1>2. CompletedIsSynced'
  <2> SUFFICES ASSUME NEW t \in Tasks, status'[t] = "completed"
               PROVE  location'[Job[t].file][Job[t].target] = "synced"
    BY DEF CompletedIsSynced
  <2>1. SUFFICES location[Job[t].file][Job[t].target] = "synced"
    BY <1>a, JobType, LocationsStay
  <2>2. CASE status[t] = "completed"
    BY <1>a, <2>2 DEF CompletedIsSynced
  <2>3. CASE status[t] # "completed"
    <3>1. PICK w \in Workers : MarkCompleted(w) \/ SupersedeFailed(w)
      <4>1. ASSUME NEW u \in Tasks, Enqueue(u) \/ RetryDue(u) \/ BecomeStale(u)
            PROVE  status'[t] # "completed"
        BY <1>a, <2>3, <4>1 DEF Enqueue, RetryDue, BecomeStale, TypeOK
      <4>2. ASSUME NEW w \in Workers, WorkerStep(w),
                   ~MarkCompleted(w), ~SupersedeFailed(w)
            PROVE  status'[t] # "completed"
        <5>1. CASE Reclaim(w) BY <1>a, <2>3, <5>1 DEF Reclaim, TypeOK
        <5>2. CASE FailExhausted(w) BY <1>a, <2>3, <5>2 DEF FailExhausted, TypeOK
        <5>3. CASE MarkClaimed(w) BY <1>a, <2>3, <5>3 DEF MarkClaimed, TypeOK
        <5>4. CASE Requeue(w)
          BY <1>a, <2>3, <5>4 DEF Requeue, RequeueForRetry, TypeOK, dbVars
        <5>5. CASE UNCHANGED status BY <2>3, <5>5
        <5> QED BY <4>2, <5>1, <5>2, <5>3, <5>4, <5>5 DEF WorkerStep, dbVars,
          SelectPending, TryLock, ClaimDone, ClaimError, StartBatch, DownloadOpen,
          DownloadDone, TempDirFail, DownloadFail, UploadOk, UploadFail, RecordLocation,
          BatchDone, FailAllDone
      <4> QED BY <2>3, <4>1, <4>2 DEF Next, Crash, vars, dbVars
    <3>2. CASE MarkCompleted(w)
      <4>1. pc[w] = "complete" /\ Oldest(batch[w], t)
        BY <1>a, <2>3, <3>2 DEF MarkCompleted, TypeOK
      <4> QED BY <1>a, <4>1 DEF SyncedBeforeComplete
    <3>3. CASE SupersedeFailed(w)
      <4>1. PICK u \in Tasks : Oldest(batch[w], u) /\ Superseded(u, t)
        BY <1>a, <2>3, <3>3 DEF SupersedeFailed, TypeOK
      <4>2. location[Job[u].file][Job[u].target] = "synced"
        BY <1>a, <3>3, <4>1 DEF SyncedBeforeComplete, SupersedeFailed
      <4> QED BY <4>1, <4>2 DEF Superseded
    <3> QED BY <3>1, <3>2, <3>3
  <2> QED BY <2>2, <2>3
<1>3. UploadedBeforeRecord'
  <2> SUFFICES ASSUME NEW w \in Workers, NEW t \in Tasks,
                      pc'[w] = "record", Oldest(batch'[w], t)
               PROVE  object'[Job[t].file][Job[t].target][Container(t)] # "none"
    BY DEF UploadedBeforeRecord, Oldest
  <2>1. CASE UploadOk(w)
    <3>1. PICK u \in Tasks :
            /\ Oldest(batch[w], u)
            /\ object' = [object EXCEPT ![Job[u].file][Job[u].target][Container(u)] =
                            temp[HostOf[w]][lead[w]]]
      BY <2>1 DEF UploadOk
    <3>2. u = t
      <4>1. batch'[w] = batch[w]
        BY <2>1 DEF UploadOk
      <4> QED BY <3>1, <4>1, OldestUnique
    <3>3. temp[HostOf[w]][lead[w]] # "none"
      BY <2>1 DEF UploadOk
    <3> QED BY <1>a, <3>1, <3>2, <3>3, JobType DEF TypeOK
  <2>2. CASE ~UploadOk(w)
    <3>1. pc[w] = "record" /\ batch'[w] = batch[w]
      <4>1. CASE UNCHANGED <<pc, batch>> BY <4>1
      <4>2. ASSUME NEW v \in Workers, WorkerStep(v), v # w
            PROVE  pc'[w] = pc[w] /\ batch'[w] = batch[w]
        BY <1>a, <4>2, OtherRegisters
      <4>3. WorkerStep(w) => pc'[w] # "record"
        BY <1>a, <2>2 DEF TypeOK, WorkerStep, Reclaim, FailExhausted, SelectPending,
           TryLock, MarkClaimed, ClaimDone, ClaimError, StartBatch, DownloadOpen,
           DownloadDone, TempDirFail, DownloadFail, UploadFail, RecordLocation,
           MarkCompleted, SupersedeFailed, Requeue, BatchDone, FailAllDone, NextBatch
      <4>4. ASSUME NEW h \in Hosts, Crash(h)
            PROVE  pc'[w] = pc[w] /\ batch'[w] = batch[w]
        BY <1>a, <4>4 DEF Crash, TypeOK
      <4> QED BY <4>1, <4>2, <4>3, <4>4 DEF Next, vars, workerVars, Enqueue,
                 RetryDue, BecomeStale
    <3>2. object[Job[t].file][Job[t].target][Container(t)] # "none"
      BY <1>a, <3>1 DEF UploadedBeforeRecord
    <3> QED BY <1>a, <3>2, JobType, ObjectsStay
  <2> QED BY <2>1, <2>2
<1>4. SyncedBeforeComplete'
  <2> SUFFICES ASSUME NEW w \in Workers, NEW t \in Tasks,
                      pc'[w] \in {"complete", "supersede"}, Oldest(batch'[w], t)
               PROVE  location'[Job[t].file][Job[t].target] = "synced"
    BY DEF SyncedBeforeComplete, Oldest
  <2>1. CASE RecordLocation(w)
    <3>1. PICK u \in Tasks :
            /\ Oldest(batch[w], u)
            /\ location' = [location EXCEPT ![Job[u].file][Job[u].target] = "synced"]
      BY <1>a, <2>1 DEF RecordLocation, TypeOK
    <3>2. u = t
      <4>1. batch'[w] = batch[w]
        BY <2>1 DEF RecordLocation
      <4> QED BY <3>1, <4>1, OldestUnique
    <3> QED BY <1>a, <3>1, <3>2, JobType DEF TypeOK
  <2>2. CASE ~RecordLocation(w)
    <3>1. pc[w] \in {"complete", "supersede"} /\ batch'[w] = batch[w]
      <4>1. CASE UNCHANGED <<pc, batch>> BY <4>1
      <4>2. ASSUME NEW v \in Workers, WorkerStep(v), v # w
            PROVE  pc'[w] = pc[w] /\ batch'[w] = batch[w]
        BY <1>a, <4>2, OtherRegisters
      <4>3. CASE MarkCompleted(w) BY <4>3 DEF MarkCompleted
      <4>4. CASE WorkerStep(w) /\ ~MarkCompleted(w)
        <5>1. pc \in [Workers -> PC]
          BY <1>a DEF TypeOK
        <5>2. ~(\/ Reclaim(w) \/ FailExhausted(w) \/ SelectPending(w) \/ TryLock(w)
                \/ MarkClaimed(w) \/ ClaimDone(w) \/ ClaimError(w))
          BY <5>1 DEF Reclaim, FailExhausted, SelectPending, TryLock, MarkClaimed,
             ClaimDone, ClaimError
        <5>3. ~(\/ StartBatch(w) \/ TempDirFail(w) \/ DownloadOpen(w) \/ DownloadDone(w)
                \/ DownloadFail(w) \/ UploadOk(w) \/ UploadFail(w))
          BY <5>1 DEF StartBatch, TempDirFail, DownloadOpen, DownloadDone, DownloadFail,
             UploadOk, UploadFail
        <5>4. ~(SupersedeFailed(w) \/ Requeue(w) \/ BatchDone(w) \/ FailAllDone(w))
          BY <5>1 DEF SupersedeFailed, Requeue, BatchDone, FailAllDone, NextBatch
        <5> QED BY <2>2, <4>4, <5>2, <5>3, <5>4 DEF WorkerStep
      <4>5. ASSUME NEW h \in Hosts, Crash(h)
            PROVE  pc'[w] = pc[w] /\ batch'[w] = batch[w]
        BY <1>a, <4>5 DEF Crash, TypeOK
      <4> QED BY <4>1, <4>2, <4>3, <4>4, <4>5 DEF Next, vars, workerVars, Enqueue,
                 RetryDue, BecomeStale
    <3>2. location[Job[t].file][Job[t].target] = "synced"
      BY <1>a, <3>1 DEF SyncedBeforeComplete
    <3> QED BY <1>a, <3>2, JobType, LocationsStay
  <2> QED BY <2>1, <2>2
<1> QED BY <1>1, <1>2, <1>3, <1>4 DEF ReplicationInv

\* The strengthened invariant holds in every reachable state.
LEMMA ReplicationInvariant == Spec => []ReplicationInv
<1>1. Init => ReplicationInv
  <2> SUFFICES ASSUME Init PROVE ReplicationInv
    OBVIOUS
  <2>1. TypeOK
    BY ConstantsAssumption DEF Init, TypeOK, Status, Content, PC, InBatch, NoTask
  <2>2. LocationBacked
    BY ConstantsAssumption DEF Init, LocationBacked
  <2>3. CompletedIsSynced /\ UploadedBeforeRecord /\ SyncedBeforeComplete
    BY DEF Init, CompletedIsSynced, UploadedBeforeRecord, SyncedBeforeComplete
  <2> QED BY <2>1, <2>2, <2>3 DEF ReplicationInv
<1> QED BY <1>1, TypeCorrect, ReplicationStep, PTL DEF Spec

\* A synced file_locations row is backed by an object in its storage, however
\* many workers claim, reclaim, crash or supersede.
THEOREM LocationsSafe == Spec => []LocationBacked
<1>1. ReplicationInv => LocationBacked
  BY DEF ReplicationInv
<1> QED BY <1>1, ReplicationInvariant, PTL

\* A completed task has a synced file_locations row for its target, whoever
\* completed it: its worker, a second one, or supersede_failed_for.
THEOREM CompletionSafe == Spec => []CompletedIsSynced
<1>1. ReplicationInv => CompletedIsSynced
  BY DEF ReplicationInv
<1> QED BY <1>1, ReplicationInvariant, PTL

-----------------------------------------------------------------------------
\* A task is only given up on after max_retries attempts: no race of requeues,
\* reclaims and late claims marks a row 'failed' early.
THEOREM FailedSafe == Spec => []FailedIsExhausted
<1>1. Init => FailedIsExhausted
  BY DEF Init, FailedIsExhausted
<1>2. TypeOK /\ FailedIsExhausted /\ [Next]_vars => FailedIsExhausted'
  <2> SUFFICES ASSUME TypeOK, FailedIsExhausted, [Next]_vars,
                      NEW t \in Tasks, status'[t] = "failed"
               PROVE  retries'[t] >= MaxRetries
    BY DEF FailedIsExhausted
  <2>a. retries[t] \in Nat /\ MaxRetries \in Nat
    BY ConstantsAssumption DEF TypeOK
  <2>1. retries'[t] = retries[t] \/ retries'[t] = retries[t] + 1
    <3>1. ASSUME NEW w \in Workers, Requeue(w)
          PROVE  retries'[t] = retries[t] \/ retries'[t] = retries[t] + 1
      BY <3>1 DEF Requeue, RequeueForRetry, TypeOK, dbVars
    <3>2. ASSUME NEW w \in Workers, Reclaim(w)
          PROVE  retries'[t] = retries[t] \/ retries'[t] = retries[t] + 1
      BY <3>2 DEF Reclaim, TypeOK
    <3>3. ASSUME NEW w \in Workers,
                 \/ FailExhausted(w) \/ SelectPending(w) \/ TryLock(w) \/ MarkClaimed(w)
                 \/ ClaimDone(w) \/ ClaimError(w) \/ StartBatch(w) \/ TempDirFail(w)
          PROVE  UNCHANGED retries
      BY <3>3 DEF FailExhausted, SelectPending, TryLock, MarkClaimed, ClaimDone,
         ClaimError, StartBatch, TempDirFail, dbVars
    <3>4. ASSUME NEW w \in Workers,
                 \/ DownloadOpen(w) \/ DownloadDone(w) \/ DownloadFail(w) \/ UploadOk(w)
                 \/ UploadFail(w) \/ RecordLocation(w) \/ MarkCompleted(w)
                 \/ SupersedeFailed(w) \/ BatchDone(w) \/ FailAllDone(w)
          PROVE  UNCHANGED retries
      BY <3>4 DEF DownloadOpen, DownloadDone, DownloadFail, UploadOk, UploadFail,
         RecordLocation, MarkCompleted, SupersedeFailed, BatchDone, FailAllDone, dbVars
    <3>5. ASSUME NEW w \in Workers, WorkerStep(w)
          PROVE  retries'[t] = retries[t] \/ retries'[t] = retries[t] + 1
      BY <3>1, <3>2, <3>3, <3>4, <3>5 DEF WorkerStep
    <3> QED BY <3>5 DEF Next, vars, dbVars, Enqueue, RetryDue, BecomeStale, Crash
  <2>2. CASE status[t] = "failed"
    BY <2>a, <2>1, <2>2 DEF FailedIsExhausted
  <2>3. CASE status[t] # "failed"
    <3>1. PICK w \in Workers : FailExhausted(w)
      <4>1. ASSUME NEW u \in Tasks, Enqueue(u) \/ RetryDue(u) \/ BecomeStale(u)
            PROVE  status'[t] # "failed"
        BY <2>3, <4>1 DEF Enqueue, RetryDue, BecomeStale, TypeOK
      <4>2. ASSUME NEW w \in Workers, WorkerStep(w), ~FailExhausted(w)
            PROVE  status'[t] # "failed"
        <5>1. CASE Reclaim(w) BY <2>3, <5>1 DEF Reclaim, TypeOK
        <5>2. CASE MarkClaimed(w) BY <2>3, <5>2 DEF MarkClaimed, TypeOK
        <5>3. CASE MarkCompleted(w) BY <2>3, <5>3 DEF MarkCompleted, TypeOK
        <5>4. CASE SupersedeFailed(w) BY <2>3, <5>4 DEF SupersedeFailed, TypeOK
        <5>5. CASE Requeue(w)
          BY <2>3, <5>5 DEF Requeue, RequeueForRetry, TypeOK, dbVars
        <5>6. CASE UNCHANGED status BY <2>3, <5>6
        <5> QED BY <4>2, <5>1, <5>2, <5>3, <5>4, <5>5, <5>6 DEF WorkerStep, dbVars,
          SelectPending, TryLock, ClaimDone, ClaimError, StartBatch, DownloadOpen,
          DownloadDone, TempDirFail, DownloadFail, UploadOk, UploadFail, RecordLocation,
          BatchDone, FailAllDone
      <4> QED BY <2>3, <4>1, <4>2 DEF Next, Crash, vars, dbVars
    <3>2. Exhausted(t)
      BY <2>3, <3>1 DEF FailExhausted, TypeOK
    <3> QED BY <2>a, <2>1, <3>2 DEF Exhausted
  <2> QED BY <2>2, <2>3
<1> QED BY <1>1, <1>2, TypeCorrect, PTL DEF Spec

\* A completed or failed row that no worker has in hand is final: only a failed
\* row may still become completed, by supersede.
THEOREM TerminalSafe == Spec => TerminalIsFinal
<1>1. TypeOK /\ [Next]_vars =>
        [\A t \in Tasks :
           (status[t] \in {"completed", "failed"} /\ ~Held(t)) =>
              status'[t] \in {status[t], "completed"}]_vars
  <2> SUFFICES ASSUME TypeOK, Next, NEW t \in Tasks,
                      status[t] \in {"completed", "failed"}, ~Held(t)
               PROVE  status'[t] \in {status[t], "completed"}
    OBVIOUS
  <2>a. \A w \in Workers : ~Oldest(selected[w], t) /\ ~Oldest(batch[w], t)
    BY DEF Held, Oldest
  <2>1. ASSUME NEW u \in Tasks, Enqueue(u) \/ RetryDue(u) \/ BecomeStale(u)
        PROVE  status'[t] = status[t]
    BY <2>1 DEF Enqueue, RetryDue, BecomeStale, TypeOK
  <2>2. ASSUME NEW w \in Workers, WorkerStep(w)
        PROVE  status'[t] \in {status[t], "completed"}
    <3>1. CASE Reclaim(w) BY <3>1 DEF Reclaim, Reclaimable, TypeOK
    <3>2. CASE FailExhausted(w) BY <3>2 DEF FailExhausted, Exhausted, TypeOK
    <3>3. CASE MarkClaimed(w) BY <2>a, <3>3 DEF MarkClaimed, TypeOK
    <3>4. CASE MarkCompleted(w) BY <2>a, <3>4 DEF MarkCompleted, TypeOK
    <3>5. CASE SupersedeFailed(w) BY <3>5 DEF SupersedeFailed, TypeOK
    <3>6. CASE Requeue(w)
      BY <2>a, <3>6 DEF Requeue, RequeueForRetry, TypeOK, dbVars
    <3>7. CASE UNCHANGED status BY <3>7
    <3> QED BY <2>2, <3>1, <3>2, <3>3, <3>4, <3>5, <3>6, <3>7 DEF WorkerStep, dbVars,
      SelectPending, TryLock, ClaimDone, ClaimError, StartBatch, DownloadOpen,
      DownloadDone, TempDirFail, DownloadFail, UploadOk, UploadFail, RecordLocation,
      BatchDone, FailAllDone
  <2> QED BY <2>1, <2>2 DEF Next, Crash, dbVars
<1> QED BY <1>1, TypeCorrect, PTL DEF Spec, TerminalIsFinal

-----------------------------------------------------------------------------
(* Whole replicas. Two workers may claim the same row, and workers of one  *)
(* process name their temp files alike. What keeps the replicas whole is   *)
(* that no two of them are ever at the same path at once: nothing in the   *)
(* code enforces it, TempAlone states it, and sync_truncated shows what    *)
(* happens without it. Whether an upload is atomic is asked of each store  *)
(* by itself, so that ftp, sftp and hetzner may be among the targets.      *)

Downloaded == {"upload", "record", "complete", "supersede", "requeue"}
UsesTemp == Downloaded \cup {"downloading"}

\* "One temp file per source download (named by lead task id)".
TempAlone ==
    \A v, w \in Workers :
        (/\ HostOf[v] = HostOf[w] /\ lead[v] = lead[w]
         /\ pc[v] \in UsesTemp /\ pc[w] \in UsesTemp) => v = w

\* All rows of the file read it from a store that never holds a torn object.
Sound(f) == \A t \in Tasks : Job[t].file = f => Job[t].source \in AtomicStores

SoundReplicaWhole ==
    \A f \in Files, s \in AtomicStores, c \in Containers :
        Sound(f) => object[f][s][c] # "partial"

TempAt(w) == temp[HostOf[w]][lead[w]]
OpenerAt(w) == opener[HostOf[w]][lead[w]]

\* A batch holds rows of its lead's file, read from its lead's source.
BatchInv ==
    \A w \in Workers, t \in Tasks :
        pc[w] \in InBatch /\ t \in batch[w] => SameBatch(lead[w], t)

\* A worker that streams is the last to have opened its temp file, unless a
\* failed download of another one took the path away; once it has streamed, the
\* path holds a whole copy or nothing.
TempInv ==
    \A w \in Workers :
        /\ pc[w] = "downloading" => OpenerAt(w) = w \/ TempAt(w) = "none"
        /\ pc[w] \in Downloaded /\ Sound(Job[lead[w]].file) => TempAt(w) # "partial"

\* One step of finalize_task or process_batch never mixes two groups of rows.
LEMMA BatchStep == TypeOK /\ BatchInv /\ [Next]_vars => BatchInv'
<1> SUFFICES ASSUME TypeOK, BatchInv, [Next]_vars,
                    NEW w \in Workers, NEW t \in Tasks,
                    pc'[w] \in InBatch, t \in batch'[w]
             PROVE  SameBatch(lead'[w], t)
  BY DEF BatchInv, SameBatch
<1>1. CASE UNCHANGED workerVars
  BY <1>1 DEF workerVars, BatchInv
<1>2. ASSUME NEW h \in Hosts, Crash(h) PROVE SameBatch(lead'[w], t)
  <2>1. pc'[w] = pc[w] /\ lead'[w] = lead[w] /\ batch'[w] = batch[w]
    BY <1>2 DEF Crash, TypeOK, InBatch
  <2> QED BY <2>1 DEF BatchInv
<1>3. ASSUME NEW v \in Workers, WorkerStep(v), v # w PROVE SameBatch(lead'[w], t)
  BY <1>3, OtherRegisters DEF BatchInv
<1>4. ASSUME WorkerStep(w) PROVE SameBatch(lead'[w], t)
  <2>1. CASE StartBatch(w)
    BY <2>1 DEF StartBatch, TypeOK
  <2>2. CASE \/ Reclaim(w) \/ FailExhausted(w) \/ SelectPending(w) \/ TryLock(w)
             \/ MarkClaimed(w) \/ ClaimDone(w) \/ ClaimError(w)
    <3>1. pc'[w] \notin InBatch
      BY <2>2 DEF TypeOK, InBatch, Reclaim, FailExhausted, SelectPending, TryLock,
         MarkClaimed, ClaimDone, ClaimError
    <3> QED BY <3>1
  <2>3. CASE BatchDone(w) \/ FailAllDone(w)
    <3>1. pc'[w] \notin InBatch
      BY <2>3 DEF TypeOK, InBatch, BatchDone, FailAllDone, NextBatch
    <3> QED BY <3>1
  <2>4. CASE \/ TempDirFail(w) \/ DownloadOpen(w) \/ DownloadDone(w) \/ DownloadFail(w)
             \/ UploadOk(w) \/ UploadFail(w) \/ RecordLocation(w) \/ MarkCompleted(w)
    <3>1. pc[w] \in InBatch /\ lead' = lead /\ batch' = batch
      BY <2>4 DEF InBatch, TempDirFail, DownloadOpen, DownloadDone, DownloadFail,
         UploadOk, UploadFail, RecordLocation, MarkCompleted
    <3> QED BY <3>1 DEF BatchInv
  <2>5. CASE SupersedeFailed(w) \/ Requeue(w)
    <3>1. pc[w] \in InBatch /\ lead' = lead /\ t \in batch[w]
      BY <2>5 DEF TypeOK, InBatch, SupersedeFailed, Requeue
    <3> QED BY <3>1 DEF BatchInv
  <2> QED BY <1>4, <2>1, <2>2, <2>3, <2>4, <2>5 DEF WorkerStep
<1> QED BY <1>1, <1>2, <1>3, <1>4
        DEF Next, vars, Enqueue, RetryDue, BecomeStale

\* A step of another worker leaves a temp file that is in use alone, or takes it
\* away, as long as the two never use one path together.
LEMMA TempStays ==
    ASSUME TypeOK, TempAlone, TempAlone', NEW v \in Workers, WorkerStep(v),
           NEW w \in Workers, w # v, pc[w] \in UsesTemp
    PROVE  /\ pc'[w] = pc[w] /\ lead'[w] = lead[w]
           /\ \/ TempAt(w)' = TempAt(w) /\ OpenerAt(w)' = OpenerAt(w)
              \/ TempAt(w)' = "none"
<1>1. pc'[w] = pc[w] /\ lead'[w] = lead[w]
  BY OtherRegisters
<1>2. HostOf[w] \in Hosts /\ HostOf[v] \in Hosts /\ lead[w] \in Tasks
  BY ConstantsAssumption DEF TypeOK, UsesTemp, Downloaded, InBatch
<1>3. CASE UNCHANGED tempVars
  BY <1>1, <1>3 DEF tempVars, TempAt, OpenerAt
<1>4. CASE RemoveTemp(v)
  BY <1>1, <1>2, <1>4 DEF RemoveTemp, TypeOK, TempAt, OpenerAt
<1>5. CASE DownloadOpen(v) \/ DownloadDone(v)
  <2>1. pc'[v] \in UsesTemp /\ lead'[v] = lead[v]
    BY <1>5 DEF DownloadOpen, DownloadDone, TypeOK, UsesTemp, Downloaded
  <2>2. HostOf[v] # HostOf[w] \/ lead[v] # lead[w]
    BY <1>1, <2>1 DEF TempAlone
  <2>3. lead[v] \in Tasks
    BY <1>5 DEF DownloadOpen, DownloadDone, TypeOK, InBatch
  <2>4. CASE DownloadOpen(v)
    BY <1>1, <1>2, <2>2, <2>3, <2>4 DEF DownloadOpen, TypeOK, TempAt, OpenerAt
  <2>5. CASE DownloadDone(v)
    BY <1>1, <1>2, <2>2, <2>3, <2>5 DEF DownloadDone, TypeOK, TempAt, OpenerAt
  <2> QED BY <1>5, <2>4, <2>5
<1> QED
  BY <1>1, <1>3, <1>4, <1>5 DEF WorkerStep, Reclaim, FailExhausted, SelectPending,
     TryLock, MarkClaimed, ClaimDone, ClaimError, StartBatch, TempDirFail, DownloadFail,
     UploadOk, UploadFail, RecordLocation, MarkCompleted, SupersedeFailed, Requeue,
     BatchDone, FailAllDone

\* The worker that takes the step: what it streamed is whole, since its source
\* is, and what it opened is its own.
LEMMA OwnTemp ==
    ASSUME TypeOK, TempInv, SoundReplicaWhole, NEW w \in Workers, WorkerStep(w)
    PROVE  /\ pc'[w] = "downloading" => OpenerAt(w)' = w \/ TempAt(w)' = "none"
           /\ pc'[w] \in Downloaded /\ Sound(Job[lead'[w]].file) => TempAt(w)' # "partial"
<1>a. HostOf[w] \in Hosts
  BY ConstantsAssumption
<1>1. CASE DownloadOpen(w)
  <2>1. pc'[w] = "downloading" /\ lead' = lead /\ lead[w] \in Tasks
    BY <1>1 DEF DownloadOpen, TypeOK, InBatch
  <2>2. OpenerAt(w)' = w
    BY <1>a, <1>1, <2>1 DEF DownloadOpen, TypeOK, OpenerAt
  <2> QED BY <2>1, <2>2 DEF Downloaded
<1>2. CASE DownloadDone(w)
  <2>1. pc[w] = "downloading" /\ pc'[w] = "upload" /\ lead' = lead /\ lead[w] \in Tasks
    BY <1>2 DEF DownloadDone, TypeOK, InBatch
  <2>2. Sound(Job[lead[w]].file) => SourceObject(w) # "partial"
    BY <2>1, JobType DEF SourceObject, SoundReplicaWhole, Sound
  <2>3. OpenerAt(w) = w \/ TempAt(w) = "none"
    BY <2>1 DEF TempInv
  <2>4. TempAt(w)' = IF OpenerAt(w) = w THEN SourceObject(w) ELSE TempAt(w)
    BY <1>a, <1>2, <2>1 DEF DownloadDone, TypeOK, TempAt, OpenerAt
  <2> QED BY <2>1, <2>2, <2>3, <2>4
<1>3. CASE UploadOk(w)
  <2>1. pc[w] = "upload" /\ pc'[w] = "record" /\ lead' = lead /\ lead[w] \in Tasks
    BY <1>3 DEF UploadOk, TypeOK, InBatch
  <2>2. CASE RemoveTemp(w)
    BY <1>a, <2>1, <2>2 DEF RemoveTemp, TypeOK, TempAt
  <2>3. CASE UNCHANGED tempVars
    BY <2>1, <2>3 DEF tempVars, TempAt, TempInv, Downloaded
  <2> QED BY <1>3, <2>2, <2>3 DEF UploadOk
<1>4. CASE \/ UploadFail(w) \/ RecordLocation(w) \/ MarkCompleted(w)
           \/ SupersedeFailed(w) \/ Requeue(w)
  <2>1. UNCHANGED <<tempVars, lead>>
    BY <1>4 DEF UploadFail, RecordLocation, MarkCompleted, SupersedeFailed, Requeue
  <2>2. pc'[w] # "downloading" /\ (pc[w] \in Downloaded \/ pc'[w] = "fail_all")
    BY <1>4 DEF UploadFail, RecordLocation, MarkCompleted, SupersedeFailed,
       Requeue, Downloaded, TypeOK
  <2> QED BY <2>1, <2>2 DEF tempVars, TempAt, TempInv, Downloaded
<1>5. CASE \/ Reclaim(w) \/ FailExhausted(w) \/ SelectPending(w) \/ TryLock(w)
           \/ MarkClaimed(w) \/ ClaimDone(w) \/ ClaimError(w)
  <2>1. pc'[w] \notin UsesTemp
    BY <1>5 DEF TypeOK, UsesTemp, Downloaded, Reclaim, FailExhausted, SelectPending,
       TryLock, MarkClaimed, ClaimDone, ClaimError
  <2> QED BY <2>1 DEF UsesTemp
<1>6. CASE \/ StartBatch(w) \/ TempDirFail(w) \/ DownloadFail(w)
           \/ BatchDone(w) \/ FailAllDone(w)
  <2>1. pc'[w] \notin UsesTemp
    BY <1>6 DEF TypeOK, UsesTemp, Downloaded, StartBatch, TempDirFail, DownloadFail,
       BatchDone, FailAllDone, NextBatch
  <2> QED BY <2>1 DEF UsesTemp
<1> QED BY <1>1, <1>2, <1>3, <1>4, <1>5, <1>6 DEF WorkerStep

\* Every step keeps the temp files in use whole.
LEMMA TempStep ==
    TypeOK /\ TempAlone /\ TempAlone' /\ TempInv /\ SoundReplicaWhole /\ [Next]_vars
      => TempInv'
<1> SUFFICES ASSUME TypeOK, TempAlone, TempAlone', TempInv, SoundReplicaWhole,
                    [Next]_vars, NEW w \in Workers
             PROVE  /\ pc'[w] = "downloading" => OpenerAt(w)' = w \/ TempAt(w)' = "none"
                    /\ pc'[w] \in Downloaded /\ Sound(Job[lead'[w]].file)
                         => TempAt(w)' # "partial"
  BY DEF TempInv, Sound
<1>1. CASE UNCHANGED <<workerVars, tempVars>>
  BY <1>1 DEF workerVars, tempVars, TempInv, TempAt, OpenerAt
<1>2. ASSUME NEW h \in Hosts, Crash(h), pc'[w] \in UsesTemp
      PROVE  /\ pc'[w] = pc[w] /\ lead'[w] = lead[w]
             /\ TempAt(w)' = TempAt(w) /\ OpenerAt(w)' = OpenerAt(w)
  <2>1. pc'[w] = pc[w] /\ lead'[w] = lead[w] /\ HostOf[w] # h
    BY <1>2 DEF Crash, TypeOK, UsesTemp, Downloaded
  <2>2. opener'[HostOf[w]] = opener[HostOf[w]] /\ temp' = temp
    BY <1>2, <2>1, ConstantsAssumption DEF Crash, TypeOK
  <2> QED BY <2>1, <2>2 DEF TempAt, OpenerAt
<1>3. ASSUME NEW v \in Workers, WorkerStep(v), v # w, pc'[w] \in UsesTemp
      PROVE  /\ pc'[w] = pc[w] /\ lead'[w] = lead[w]
             /\ \/ TempAt(w)' = TempAt(w) /\ OpenerAt(w)' = OpenerAt(w)
                \/ TempAt(w)' = "none"
  <2>1. pc[w] \in UsesTemp
    BY <1>3, OtherRegisters
  <2> QED BY <1>3, <2>1, TempStays
<1>4. CASE pc'[w] \notin UsesTemp
  BY <1>4 DEF UsesTemp
<1>5. CASE pc'[w] \in UsesTemp
  <2>1. ASSUME NEW h \in Hosts, Crash(h)
        PROVE  /\ pc'[w] = "downloading" => OpenerAt(w)' = w \/ TempAt(w)' = "none"
               /\ pc'[w] \in Downloaded /\ Sound(Job[lead'[w]].file)
                    => TempAt(w)' # "partial"
    BY <1>2, <1>5, <2>1 DEF TempInv
  <2>2. ASSUME NEW v \in Workers, WorkerStep(v), v # w
        PROVE  /\ pc'[w] = "downloading" => OpenerAt(w)' = w \/ TempAt(w)' = "none"
               /\ pc'[w] \in Downloaded /\ Sound(Job[lead'[w]].file)
                    => TempAt(w)' # "partial"
    BY <1>3, <1>5, <2>2 DEF TempInv
  <2>3. CASE WorkerStep(w)
    BY <2>3, OwnTemp
  <2> QED BY <1>1, <2>1, <2>2, <2>3 DEF Next, vars, Enqueue, RetryDue, BecomeStale
<1> QED BY <1>4, <1>5

\* A worker's step writes at most one object, its batch's file, and what it
\* writes to an atomic store is what its temp file holds.
LEMMA ReplicaStep ==
    TypeOK /\ BatchInv /\ TempInv /\ SoundReplicaWhole /\ [Next]_vars
      => SoundReplicaWhole'
<1> SUFFICES ASSUME TypeOK, BatchInv, TempInv, SoundReplicaWhole, [Next]_vars,
                    NEW f \in Files, NEW s \in AtomicStores, NEW c \in Containers,
                    Sound(f)
             PROVE  object'[f][s][c] # "partial"
  BY DEF SoundReplicaWhole, Sound
<1>a. object[f][s][c] # "partial"
  BY DEF SoundReplicaWhole
<1>1. CASE UNCHANGED object
  BY <1>a, <1>1
<1>2. ASSUME NEW v \in Workers, UploadOk(v) PROVE object'[f][s][c] # "partial"
  <2>1. PICK t \in Tasks :
          /\ t \in batch[v]
          /\ object' = [object EXCEPT ![Job[t].file][Job[t].target][Container(t)] = TempAt(v)]
    BY <1>2 DEF UploadOk, Oldest, TempAt
  <2>2. pc[v] = "upload" /\ Job[lead[v]].file = Job[t].file
    BY <1>2, <2>1 DEF UploadOk, BatchInv, InBatch, SameBatch
  <2>3. f = Job[t].file => TempAt(v) # "partial"
    BY <2>2 DEF TempInv, Downloaded
  <2>4. s \in Storages
    BY ConstantsAssumption
  <2>5. object \in [Files -> [Storages -> [Containers -> Content]]]
    BY DEF TypeOK
  <2>6. \/ object'[f][s][c] = object[f][s][c]
        \/ f = Job[t].file /\ object'[f][s][c] = TempAt(v)
    BY <2>1, <2>4, <2>5, JobType
  <2> QED BY <1>a, <2>3, <2>6
<1>3. ASSUME NEW v \in Workers, UploadFail(v) PROVE object'[f][s][c] # "partial"
  <2>1. PICK t \in Tasks :
          \/ object' = object
          \/ /\ Job[t].target \notin AtomicStores
             /\ object' = [object EXCEPT
                  ![Job[t].file][Job[t].target][Container(t)] = "partial"]
    BY <1>3 DEF UploadFail
  <2>2. s \in Storages
    BY ConstantsAssumption
  <2>3. object \in [Files -> [Storages -> [Containers -> Content]]]
    BY DEF TypeOK
  <2>4. CASE object' = object
    BY <1>a, <2>4
  <2>5. CASE /\ Job[t].target # s
             /\ object' = [object EXCEPT
                  ![Job[t].file][Job[t].target][Container(t)] = "partial"]
    <3>1. Job[t].file \in Files /\ Job[t].target \in Storages
      BY JobType
    <3>2. object'[f][s] = object[f][s]
      BY <2>2, <2>3, <2>5, <3>1
    <3> QED BY <1>a, <3>2
  <2> QED BY <2>1, <2>4, <2>5
<1>4. ASSUME NEW v \in Workers, WorkerStep(v) PROVE object'[f][s][c] # "partial"
  BY <1>1, <1>2, <1>3, <1>4 DEF WorkerStep, storeVars, Reclaim, FailExhausted,
     SelectPending, TryLock, MarkClaimed, ClaimDone, ClaimError, StartBatch,
     DownloadOpen, DownloadDone, TempDirFail, DownloadFail, RecordLocation,
     MarkCompleted, SupersedeFailed, Requeue, BatchDone, FailAllDone
<1> QED BY <1>1, <1>4 DEF Next, vars, storeVars, Crash, Enqueue, RetryDue, BecomeStale

\* Late and double claims do not harm the data as long as two workers never use
\* one temp path together (process_batch names it by the lead row's id): a file
\* read from atomic stores is never torn on an atomic store, whatever kind of
\* store its other targets are; where all stores are atomic, no synced replica is.
THEOREM ReplicasWhole ==
    Spec /\ []TempAlone =>
      [](SoundReplicaWhole /\ (AtomicStores = Storages => ReplicaWhole))
<1>1. Init => BatchInv /\ TempInv /\ SoundReplicaWhole
  <2> SUFFICES ASSUME Init PROVE BatchInv /\ TempInv /\ SoundReplicaWhole
    OBVIOUS
  <2>1. BatchInv
    BY DEF Init, BatchInv
  <2>2. TempInv
    BY DEF Init, TempInv, Downloaded
  <2>3. SoundReplicaWhole
    BY ConstantsAssumption DEF Init, SoundReplicaWhole
  <2> QED BY <2>1, <2>2, <2>3
<1>2. SoundReplicaWhole => (AtomicStores = Storages => ReplicaWhole)
  BY JobType DEF SoundReplicaWhole, ReplicaWhole, Sound
<1> QED BY <1>1, <1>2, BatchStep, TempStep, ReplicaStep, TypeCorrect, PTL DEF Spec
=============================================================================
