--------------------------- MODULE TieringProofs ---------------------------
(***************************************************************************)
(* Theorems about Tiering, for every number of storages, replicas and      *)
(* restore requests.                                                       *)
(***************************************************************************)
EXTENDS Tiering, TLAPS

\* The oldest storage of a set is one of its members.
LEMMA FirstType ==
    ASSUME NEW S \in SUBSET Storages, S # {}
    PROVE  First(S) \in S
  BY ConstantsAssumption DEF First

\* The inductive form of TypeOK: the storages a scan or a restore has picked as a
\* source have a row of the file, and no row ever goes away.
TypeInv ==
    /\ TypeOK
    /\ \A w \in Workers :
         /\ wpc[w] \in {"cold", "insert"} => source[w] \in Storages /\ status[source[w]] # "none"
         /\ wpc[w] = "insert" => target[w] \in Storages
    /\ \A r \in Restores :
         rpc[r] = "insert" => cold[r] \in Storages /\ status[cold[r]] # "none"
    /\ \A t \in written : status[t.target] # "none"

\* A step that leaves workers, restores and tasks alone and removes no row.
LEMMA TypeFrame ==
    ASSUME TypeInv, TypeOK', UNCHANGED <<wpc, source, target, rpc, cold, written>>,
           \A s \in Storages : status[s] # "none" => status'[s] # "none"
    PROVE  TypeInv'
  BY DEF TypeInv, TypeOK, Task

\* Every step of a tier worker preserves TypeInv.
LEMMA WorkerType ==
    ASSUME TypeInv, NEW w \in Workers, WorkerStep(w)
    PROVE  TypeInv'
<1>1. CASE Find(w)
  <2>1. UNCHANGED <<locVars, storageVars, taskVars, target, ready, restoreVars, edits>>
    BY <1>1 DEF Find
  <2>2. faults' \in Nat
    BY <1>1 DEF Find, Fault, TypeInv, TypeOK
  <2>3. CASE (\E s \in Archivable : source' = [source EXCEPT ![w] = s]) /\ WorkerGoto(w, "cold")
    <3>1. PICK s \in Archivable : source' = [source EXCEPT ![w] = s]
      BY <2>3
    <3>2. s \in Storages /\ status[s] # "none"
      BY <3>1 DEF Archivable, TypeInv, TypeOK
    <3>3. /\ source' \in [Workers -> Storages \cup {NoStorage}] /\ source'[w] = s
          /\ \A v \in Workers : v # w => source'[v] = source[v]
      BY <3>1, <3>2 DEF TypeInv, TypeOK
    <3>4. /\ wpc' \in [Workers -> WPC] /\ wpc'[w] = "cold"
          /\ \A v \in Workers : v # w => wpc'[v] = wpc[v]
      BY <2>3 DEF WorkerGoto, TypeInv, TypeOK, WPC
    <3> QED
      BY <2>1, <2>2, <3>2, <3>3, <3>4
         DEF locVars, storageVars, taskVars, restoreVars, TypeInv, TypeOK
  <2>4. CASE WorkerGoto(w, "select") /\ UNCHANGED source
    BY <2>1, <2>2, <2>4
       DEF WorkerGoto, WPC, locVars, storageVars, taskVars, restoreVars, TypeInv, TypeOK
  <2> QED BY <1>1, <2>3, <2>4 DEF Find
<1>2. CASE FindCold(w)
  <2>1. /\ wpc[w] = "cold"
        /\ UNCHANGED <<locVars, storageVars, taskVars, source, ready, restoreVars, edits>>
    BY <1>2 DEF FindCold
  <2>2. faults' \in Nat
    BY <1>2 DEF FindCold, Fault, TypeInv, TypeOK
  <2>3. CASE /\ enabled \ hot # {} /\ target' = [target EXCEPT ![w] = First(enabled \ hot)]
             /\ WorkerGoto(w, "insert")
    <3>1. First(enabled \ hot) \in Storages
      BY <2>3, FirstType DEF TypeInv, TypeOK
    <3>2. /\ target' \in [Workers -> Storages \cup {NoStorage}] /\ target'[w] \in Storages
          /\ \A v \in Workers : v # w => target'[v] = target[v]
      BY <2>3, <3>1 DEF TypeInv, TypeOK
    <3>3. /\ wpc' \in [Workers -> WPC] /\ wpc'[w] = "insert"
          /\ \A v \in Workers : v # w => wpc'[v] = wpc[v]
      BY <2>3 DEF WorkerGoto, TypeInv, TypeOK, WPC
    <3> QED
      BY <2>1, <2>2, <3>2, <3>3
         DEF locVars, storageVars, taskVars, restoreVars, TypeInv, TypeOK
  <2>4. CASE WorkerGoto(w, "select") /\ UNCHANGED target
    BY <2>1, <2>2, <2>4
       DEF WorkerGoto, WPC, locVars, storageVars, taskVars, restoreVars, TypeInv, TypeOK
  <2> QED BY <1>2, <2>3, <2>4 DEF FindCold
<1>3. CASE InsertTask(w)
  <2> DEFINE t == [by |-> w, source |-> source[w], target |-> target[w]]
  <2>1. /\ wpc[w] = "insert" /\ WorkerGoto(w, "select")
        /\ tasks' = tasks \cup {t} \/ tasks' = tasks
        /\ UNCHANGED <<locVars, storageVars, written, source, target, ready, restoreVars, edits>>
    BY <1>3 DEF InsertTask
  <2>2. t \in Task /\ status[t.source] # "none"
    BY <2>1 DEF TypeInv, Task
  <2> HIDE DEF t
  <2>3. tasks' \in SUBSET Task /\ \A u \in tasks' : status[u.source] # "none"
    BY <2>1, <2>2 DEF TypeInv, TypeOK
  <2>4. faults' \in Nat
    BY <1>3 DEF InsertTask, Fault, TypeInv, TypeOK
  <2> QED
    BY <2>1, <2>3, <2>4
       DEF WorkerGoto, WPC, locVars, storageVars, restoreVars, TypeInv, TypeOK
<1>4. CASE SelectReady(w)
  <2> DEFINE R == {s \in hot \cap stale : status[s] = "synced" /\ ColdSynced # {}}
  <2>1. /\ WorkerGoto(w, "archive")
        /\ ready' = [ready EXCEPT ![w] = R] \/ ready' = ready
        /\ UNCHANGED <<locVars, storageVars, taskVars, source, target, restoreVars, edits>>
    BY <1>4 DEF SelectReady
  <2>2. R \in SUBSET Storages
    BY DEF TypeInv, TypeOK
  <2> HIDE DEF R
  <2>3. ready' \in [Workers -> SUBSET Storages]
    BY <2>1, <2>2 DEF TypeInv, TypeOK
  <2>4. faults' \in Nat
    BY <1>4 DEF SelectReady, Fault, TypeInv, TypeOK
  <2> QED
    BY <2>1, <2>3, <2>4
       DEF WorkerGoto, WPC, locVars, storageVars, taskVars, restoreVars, TypeInv, TypeOK
<1>5. CASE Archive(w)
  <2>1. PICK s \in ready[w] :
          /\ ready' = [ready EXCEPT ![w] = @ \ {s}]
          /\ \/ status' = [status EXCEPT ![s] = "archived"] /\ UNCHANGED faults
             \/ Fault /\ UNCHANGED status
    BY <1>5 DEF Archive
  <2>2. UNCHANGED <<stale, storageVars, taskVars, wpc, source, target, restoreVars, edits>>
    BY <1>5 DEF Archive
  <2>3. /\ status' \in [Storages -> Status]
        /\ \A x \in Storages : status[x] # "none" => status'[x] # "none"
    BY <2>1 DEF TypeInv, TypeOK, Status
  <2>4. ready' \in [Workers -> SUBSET Storages] /\ faults' \in Nat
    BY <2>1 DEF Fault, TypeInv, TypeOK
  <2>5. TypeOK'
    BY <2>2, <2>3, <2>4 DEF storageVars, taskVars, restoreVars, TypeInv, TypeOK, Task
  <2> QED BY <2>2, <2>3, <2>5, TypeFrame DEF taskVars, restoreVars
<1>6. CASE ScanDone(w)
  BY <1>6 DEF ScanDone, WorkerGoto, WPC, locVars, storageVars, taskVars, restoreVars, TypeInv, TypeOK
<1> QED BY <1>1, <1>2, <1>3, <1>4, <1>5, <1>6 DEF WorkerStep

\* Every step of a restore request preserves TypeInv.
LEMMA RestoreType ==
    ASSUME TypeInv, NEW r \in Restores, RestoreStep(r)
    PROVE  TypeInv'
<1>1. CASE RestoreFind(r)
  <2>1. PICK s \in enabled \ hot : status[s] \in {"synced", "archived"} /\ cold' = [cold EXCEPT ![r] = s]
    BY <1>1 DEF RestoreFind
  <2>2. /\ UNCHANGED <<locVars, storageVars, taskVars, workerVars, edits, faults>>
        /\ RestoreGoto(r, "insert")
    BY <1>1 DEF RestoreFind
  <2>3. s \in Storages /\ status[s] # "none"
    BY <2>1 DEF TypeInv, TypeOK
  <2>4. /\ cold' \in [Restores -> Storages \cup {NoStorage}] /\ cold'[r] = s
        /\ \A q \in Restores : q # r => cold'[q] = cold[q]
    BY <2>1, <2>3 DEF TypeInv, TypeOK
  <2>5. /\ rpc' \in [Restores -> RPC]
        /\ \A q \in Restores : q # r => rpc'[q] = rpc[q]
    BY <2>2 DEF RestoreGoto, TypeInv, TypeOK, RPC
  <2> QED
    BY <2>2, <2>3, <2>4, <2>5 DEF locVars, storageVars, taskVars, workerVars, TypeInv, TypeOK
<1>2. CASE RestoreInsert(r)
  <2> DEFINE t == [by |-> r, source |-> cold[r], target |-> First(hot \cap enabled)]
  <2>1. /\ rpc[r] = "insert"
        /\ UNCHANGED <<locVars, storageVars, written, workerVars, cold, edits>>
        /\ (tasks' = tasks \cup {t} /\ hot \cap enabled # {}) \/ tasks' = tasks
        /\ RestoreGoto(r, "mark") \/ RestoreGoto(r, "failed")
    BY <1>2 DEF RestoreInsert
  <2>2. hot \cap enabled # {} => t \in Task /\ status[t.source] # "none"
    <3>1. cold[r] \in Storages /\ status[cold[r]] # "none"
      BY <2>1 DEF TypeInv
    <3>2. hot \cap enabled # {} => First(hot \cap enabled) \in Storages
      BY FirstType DEF TypeInv, TypeOK
    <3> QED BY <3>1, <3>2 DEF Task
  <2> HIDE DEF t
  <2>3. tasks' \in SUBSET Task /\ \A u \in tasks' : status[u.source] # "none"
    BY <2>1, <2>2 DEF TypeInv, TypeOK
  <2>4. faults' \in Nat
    BY <1>2 DEF RestoreInsert, Fault, TypeInv, TypeOK
  <2>5. /\ rpc' \in [Restores -> RPC] /\ rpc'[r] # "insert"
        /\ \A q \in Restores : q # r => rpc'[q] = rpc[q]
    BY <2>1 DEF RestoreGoto, TypeInv, TypeOK, RPC
  <2> QED
    BY <2>1, <2>3, <2>4, <2>5 DEF locVars, storageVars, workerVars, TypeInv, TypeOK
<1>3. CASE RestoreMark(r)
  <2>1. UNCHANGED <<stale, storageVars, taskVars, workerVars, cold, edits>> /\ RestoreGoto(r, "done")
    BY <1>3 DEF RestoreMark
  <2>2. /\ status' \in [Storages -> Status] /\ faults' \in Nat
        /\ \A x \in Storages : status[x] # "none" => status'[x] # "none"
    BY <1>3 DEF RestoreMark, Fault, TypeInv, TypeOK, Status
  <2>3. /\ rpc' \in [Restores -> RPC] /\ rpc'[r] # "insert"
        /\ \A q \in Restores : q # r => rpc'[q] = rpc[q]
    BY <2>1 DEF RestoreGoto, TypeInv, TypeOK, RPC
  <2> QED
    BY <2>1, <2>2, <2>3 DEF storageVars, taskVars, workerVars, TypeInv, TypeOK, Task
<1> QED BY <1>1, <1>2, <1>3 DEF RestoreStep

\* Every step preserves TypeInv.
LEMMA TypeStep ==
    ASSUME TypeInv, [Next]_vars
    PROVE  TypeInv'
<1>1. CASE UNCHANGED vars
  BY <1>1 DEF vars, locVars, storageVars, taskVars, workerVars, restoreVars, TypeInv, TypeOK
<1>2. ASSUME NEW t \in tasks, SyncLocate(t) PROVE TypeInv'
  <2>1. t \in Task /\ t.target \in Storages
    BY DEF TypeInv, TypeOK, Task
  <2>2. /\ status' = [status EXCEPT ![t.target] = "synced"]
        /\ tasks' = tasks \ {t} /\ written' = written \cup {t}
        /\ UNCHANGED <<stale, storageVars, workerVars, restoreVars, edits, faults>>
    BY <1>2 DEF SyncLocate
  <2>3. /\ status' \in [Storages -> Status] /\ status'[t.target] # "none"
        /\ \A x \in Storages : status[x] # "none" => status'[x] # "none"
    BY <2>1, <2>2 DEF TypeInv, TypeOK, Status
  <2> QED
    BY <2>1, <2>2, <2>3 DEF storageVars, workerVars, restoreVars, TypeInv, TypeOK, Task
<1>3. ASSUME NEW t \in tasks, SyncFailed(t) PROVE TypeInv'
  BY <1>3 DEF SyncFailed, Fault, locVars, storageVars, workerVars, restoreVars, TypeInv, TypeOK
<1>4. ASSUME NEW t \in written, SyncCompleted(t) PROVE TypeInv'
  BY <1>4 DEF SyncCompleted, locVars, storageVars, workerVars, restoreVars, TypeInv, TypeOK
<1>5. ASSUME NEW s \in Storages, Download(s) \/ Age(s) \/ EditStorage(s) PROVE TypeInv'
  <2>1. /\ stale' \in SUBSET Storages /\ hot' \in SUBSET Storages /\ enabled' \in SUBSET Storages
    BY <1>5 DEF Download, Age, EditStorage, Flip, storageVars, locVars, TypeInv, TypeOK
  <2>2. edits' \in Nat /\ faults' \in Nat
    BY <1>5 DEF Download, Age, EditStorage, TypeInv, TypeOK
  <2>3. UNCHANGED <<status, taskVars, workerVars, restoreVars>>
    BY <1>5 DEF Download, Age, EditStorage, locVars
  <2> QED BY <2>1, <2>2, <2>3 DEF taskVars, workerVars, restoreVars, TypeInv, TypeOK
<1> QED
  BY <1>1, <1>2, <1>3, <1>4, <1>5, WorkerType, RestoreType DEF Next, Sync

\* The state after an upload has its types.
LEMMA InitType == Init => TypeInv
<1> SUFFICES ASSUME Init PROVE TypeInv
  OBVIOUS
<1>1. PICK p \in HotFirst, S \in SUBSET Storages :
        /\ status = [s \in Storages |-> IF s = p THEN "synced" ELSE "none"]
        /\ tasks = {[by |-> Upload, source |-> p, target |-> s] : s \in S \ {p}}
  BY DEF Init
<1>2. p \in Storages
  BY ConstantsAssumption
<1>3. tasks \in SUBSET Task /\ \A t \in tasks : t.source = p
  BY <1>1, <1>2 DEF Task
<1>4. status \in [Storages -> Status] /\ status[p] # "none"
  BY <1>1, <1>2 DEF Status
<1>5. hot \in SUBSET Storages /\ enabled \in SUBSET Storages
  BY ConstantsAssumption DEF Init
<1> QED
  BY <1>3, <1>4, <1>5 DEF Init, TypeInv, TypeOK, WPC, RPC

\* Types hold in every reachable state, and a queued task has a source with a row.
THEOREM TypeCorrect == Spec => []TypeOK
<1>1. Init => TypeInv
  BY InitType
<1>2. TypeInv /\ [Next]_vars => TypeInv'
  BY TypeStep
<1>3. TypeInv => TypeOK
  BY DEF TypeInv
<1> QED BY <1>1, <1>2, <1>3, PTL DEF Spec

-----------------------------------------------------------------------------
(* The file is always served                                               *)

\* The admin leaves the tiers of the storages as they were created.
FixedTiers == "is_hot" \notin Columns

\* Only hot rows are about to be archived, and only with a synced cold copy;
\* a cold copy, once synced, stays so.
SomeCold == \E s \in Storages \ HotFirst : status[s] = "synced"

ServedInv ==
    /\ hot = HotFirst
    /\ \A w \in Workers : ready[w] \subseteq HotFirst
    /\ \A w \in Workers : ready[w] # {} => SomeCold
    /\ AlwaysServed

\* Rows that are neither archived nor taken from 'synced' otherwise.
LEMMA SyncedStays ==
    ASSUME TypeInv, ServedInv, FixedTiers, UNCHANGED <<hot, ready>>,
           \A s \in Storages : status[s] = "synced" => status'[s] = "synced"
    PROVE  ServedInv'
  BY DEF ServedInv, SomeCold, AlwaysServed

\* Every step preserves ServedInv when no tier changes.
LEMMA ServedStep ==
    ASSUME FixedTiers, TypeInv, ServedInv, [Next]_vars
    PROVE  ServedInv'
<1>1. CASE UNCHANGED vars
  BY <1>1, SyncedStays DEF vars, locVars, storageVars, workerVars
<1>2. ASSUME NEW w \in Workers, WorkerStep(w) PROVE ServedInv'
  <2>1. CASE SelectReady(w)
    <3> DEFINE R == {s \in hot \cap stale : status[s] = "synced" /\ ColdSynced # {}}
    <3>1. /\ ready' = [ready EXCEPT ![w] = R] \/ ready' = ready
          /\ UNCHANGED <<status, hot>>
      BY <2>1 DEF SelectReady, locVars, storageVars
    <3>2. R \subseteq HotFirst /\ (R # {} => SomeCold)
      BY DEF ServedInv, ColdSynced, SomeCold, TypeInv, TypeOK
    <3> HIDE DEF R
    <3>3. \A v \in Workers : ready'[v] = ready[v] \/ ready'[v] = R
      BY <3>1 DEF TypeInv, TypeOK
    <3> QED BY <3>1, <3>2, <3>3 DEF ServedInv, SomeCold, AlwaysServed
  <2>2. CASE Archive(w)
    <3>1. PICK s \in ready[w] :
            /\ ready' = [ready EXCEPT ![w] = @ \ {s}]
            /\ status' = [status EXCEPT ![s] = "archived"] \/ UNCHANGED status
      BY <2>2 DEF Archive
    <3>2. UNCHANGED hot
      BY <2>2 DEF Archive, storageVars
    <3>3. s \in HotFirst /\ SomeCold
      BY <3>1 DEF ServedInv
    <3>4. \A x \in Storages \ HotFirst : status[x] = "synced" => status'[x] = "synced"
      BY <3>1, <3>3 DEF TypeInv, TypeOK
    <3>5. SomeCold' /\ AlwaysServed'
      BY <3>3, <3>4 DEF SomeCold, AlwaysServed
    <3>6. \A v \in Workers : ready'[v] \subseteq ready[v]
      BY <3>1 DEF TypeInv, TypeOK
    <3> QED BY <3>2, <3>5, <3>6 DEF ServedInv
  <2>3. CASE UNCHANGED <<status, hot, ready>>
    BY <2>3, SyncedStays
  <2> QED
    BY <1>2, <2>1, <2>2, <2>3
       DEF WorkerStep, Find, FindCold, InsertTask, ScanDone, locVars, storageVars
<1>3. ASSUME NEW r \in Restores, RestoreStep(r) PROVE ServedInv'
  <2>1. UNCHANGED <<hot, ready>>
    BY <1>3 DEF RestoreStep, RestoreFind, RestoreInsert, RestoreMark, storageVars, workerVars
  <2>2. \A s \in Storages : status[s] = "synced" => status'[s] = "synced"
    BY <1>3 DEF RestoreStep, RestoreFind, RestoreInsert, RestoreMark, locVars
  <2> QED BY <2>1, <2>2, SyncedStays
<1>4. ASSUME Sync PROVE ServedInv'
  <2>1. UNCHANGED <<hot, ready>>
    BY <1>4 DEF Sync, SyncLocate, SyncFailed, SyncCompleted, storageVars, workerVars
  <2>2. \A s \in Storages : status[s] = "synced" => status'[s] = "synced"
    BY <1>4 DEF Sync, SyncLocate, SyncFailed, SyncCompleted, locVars, TypeInv, TypeOK
  <2> QED BY <2>1, <2>2, SyncedStays
<1>5. ASSUME NEW s \in Storages, Download(s) \/ Age(s) \/ EditStorage(s) PROVE ServedInv'
  <2>1. UNCHANGED <<status, hot, ready>>
    BY <1>5 DEF Download, Age, EditStorage, FixedTiers, locVars, storageVars, workerVars
  <2> QED BY <2>1, SyncedStays
<1> QED BY <1>1, <1>2, <1>3, <1>4, <1>5 DEF Next

\* However many tier workers, restores, downloads and syncs overlap, and whatever
\* storages are disabled, the file keeps a synced location while no tier changes.
THEOREM ServedSafe ==
    ASSUME FixedTiers
    PROVE  Spec => []AlwaysServed
<1>1. Init => ServedInv
  BY ConstantsAssumption DEF Init, ServedInv, AlwaysServed
<1>2. Init => TypeInv
  BY InitType
<1>3. TypeInv /\ ServedInv /\ [Next]_vars => TypeInv' /\ ServedInv'
  BY TypeStep, ServedStep
<1>4. ServedInv => AlwaysServed
  BY DEF ServedInv
<1> QED BY <1>1, <1>2, <1>3, <1>4, PTL DEF Spec
=============================================================================
