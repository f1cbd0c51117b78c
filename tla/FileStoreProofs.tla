-------------------------- MODULE FileStoreProofs --------------------------
(***************************************************************************)
(* Theorems about FileStore, for every number of uploads, bulk deletes,    *)
(* projects, storages and faults.                                          *)
(***************************************************************************)
EXTENDS FileStore, TLAPS

\* The primary storage of a project that has storages is one of them.
LEMMA PrimaryType ==
    ASSUME NEW u \in Uploads, MyStorages(u) # {}
    PROVE  Primary(u) \in MyStorages(u) /\ Primary(u) \in Storages
  BY ConstantsAssumption DEF Primary, MyStorages

\* The inductive form of TypeOK: what an upload knows of its row and its
\* storages at each of its steps.
TypeInv ==
    /\ TypeOK
    /\ \A u \in Uploads :
         /\ pc[u] \in {"store", "locate", "link", "scan", "enqueue"} =>
                file[u] \in Uploads /\ MyStorages(u) # {}
         /\ pc[u] \in {"store", "locate"} => file[u] = u
         /\ pc[u] = "enqueue" => \A t \in todo[u] : t.file = file[u]

\* What Found does to the two registers it writes.
LEMMA FoundType ==
    ASSUME TypeInv, NEW u \in Uploads, NEW i \in Uploads, Found(u, i),
           UNCHANGED todo
    PROVE  /\ pc' \in [Uploads -> PC]
           /\ file' \in [Uploads -> Uploads \cup {NoFile}]
           /\ file'[u] = i
           /\ \A v \in Uploads : v # u => file'[v] = file[v] /\ pc'[v] = pc[v]
           /\ pc'[u] \in {"failed", "store", "link"}
           /\ pc'[u] # "failed" => MyStorages(u) # {}
           /\ pc'[u] = "store" => i = u
  BY DEF Found, TypeInv, TypeOK, PC

\* A planned task has its type and names the upload's row.
LEMMA PlanType ==
    ASSUME TypeInv, NEW u \in Uploads, pc[u] = "scan",
           NEW listed \in SUBSET Storages, Plan(u, listed)
    PROVE  /\ todo' \in [Uploads -> SUBSET Task]
           /\ \A t \in todo'[u] : t.file = file[u]
           /\ \A v \in Uploads : v # u => todo'[v] = todo[v]
<1>1. PICK source \in Sources(u, listed) :
        todo' = [todo EXCEPT ![u] = NewTasks(u, source, listed)]
  BY DEF Plan
<1>2. MyStorages(u) \subseteq Storages /\ Primary(u) \in Storages
  BY PrimaryType, ConstantsAssumption DEF TypeInv, MyStorages
<1>3. source \in Storages
  BY <1>2 DEF Sources
<1>4. file[u] \in Uploads /\ ProjectOf[u] \in Projects
  BY ConstantsAssumption DEF TypeInv
<1>5. /\ NewTasks(u, source, listed) \in SUBSET Task
      /\ \A t \in NewTasks(u, source, listed) : t.file = file[u]
  BY <1>2, <1>3, <1>4 DEF NewTasks, Task
<1> QED BY <1>1, <1>5 DEF TypeInv, TypeOK

\* Every step of an upload, a delete or the sync worker preserves TypeInv.
LEMMA TypeStep ==
    ASSUME TypeInv, [Next]_vars
    PROVE  TypeInv'
<1> USE DEF TypeInv
<1>1. CASE UNCHANGED vars
  BY <1>1 DEF vars, dbVars, uploadVars, bulkVars, TypeOK, MyStorages
<1>2. ASSUME NEW u \in Uploads, UploadStep(u) PROVE TypeInv'
  <2>1. CASE FindByHash(u)
    <3>1. UNCHANGED <<dbVars, object, todo, bulkVars, copied, asked, faults>>
      BY <2>1 DEF FindByHash
    <3>2. ASSUME NEW i \in files, Found(u, i) PROVE TypeInv'
      <4>1. i \in Uploads BY DEF TypeOK
      <4>2. \A v \in Uploads : v \in refs => file'[v] \in files'
        BY <3>1, <3>2, <4>1, FoundType DEF dbVars, TypeOK
      <4> QED BY <3>1, <3>2, <4>1, <4>2, FoundType DEF dbVars, bulkVars, TypeOK, MyStorages
    <3>3. CASE /\ pc' = [pc EXCEPT ![u] = IF @ = "find" THEN "insert" ELSE "failed"]
               /\ UNCHANGED file
      BY <3>1, <3>3 DEF dbVars, bulkVars, TypeOK, PC, MyStorages
    <3> QED BY <2>1, <3>2, <3>3 DEF FindByHash
  <2>2. CASE InsertFile(u)
    <3>1. UNCHANGED <<refs, location, tasks, object, todo, bulkVars, copied, asked, faults>>
      BY <2>2 DEF InsertFile
    <3>2. CASE files' = files \cup {u} /\ Found(u, u)
      <4>1. \A v \in Uploads : v \in refs => file'[v] \in files'
        BY <3>1, <3>2, FoundType DEF TypeOK
      <4> QED BY <3>1, <3>2, <4>1, FoundType DEF bulkVars, TypeOK, MyStorages
    <3>3. CASE pc' = [pc EXCEPT ![u] = "refind"] /\ UNCHANGED <<files, file>>
      BY <3>1, <3>3 DEF bulkVars, TypeOK, PC, MyStorages
    <3> QED BY <2>2, <3>2, <3>3 DEF InsertFile
  <2>3. CASE Store(u)
    <3>1. MyObject(u) \in Hashes \X Storages \X Containers
      BY <2>3, PrimaryType, ConstantsAssumption DEF Store, MyObject
    <3> QED BY <2>3, <3>1 DEF Store, dbVars, bulkVars, TypeOK, PC, MyStorages
  <2>4. CASE Locate(u)
    <3>1. Primary(u) \in Storages
      BY <2>4, PrimaryType DEF Locate
    <3>2. /\ location' \in SUBSET (Uploads \X Storages)
          /\ \A l \in location' : l[1] \in files
      BY <2>4, <3>1 DEF Locate, TypeOK
    <3> QED BY <2>4, <3>2 DEF Locate, bulkVars, TypeOK, PC, MyStorages
  <2>5. CASE Link(u)
    <3>1. /\ refs' \in SUBSET Uploads
          /\ \A v \in refs' : file[v] \in files
      BY <2>5 DEF Link, TypeOK
    <3>2. pc' \in [Uploads -> PC] /\ pc'[u] \in {"scan", "failed"}
      BY <2>5 DEF Link, TypeOK, PC
    <3>3. \A v \in Uploads : v # u => pc'[v] = pc[v]
      BY <2>5 DEF Link, TypeOK
    <3>4. UNCHANGED <<files, location, tasks, object, file, todo, bulkVars, copied,
                      asked, faults>>
      BY <2>5 DEF Link
    <3>5. TypeOK'
      BY <3>1, <3>2, <3>4 DEF bulkVars, TypeOK
    <3> QED BY <2>5, <3>2, <3>3, <3>4, <3>5 DEF Link, MyStorages
  <2>6. CASE Scan(u)
    <3>1. /\ todo' \in [Uploads -> SUBSET Task]
          /\ \A t \in todo'[u] : t.file = file[u]
          /\ \A v \in Uploads : v # u => todo'[v] = todo[v]
      <4>1. Listed(u) \in SUBSET Storages /\ {} \in SUBSET Storages
        BY DEF Listed
      <4> QED BY <2>6, <4>1, PlanType DEF Scan
    <3>2. faults' \in Nat BY <2>6 DEF Scan, Fault, TypeOK
    <3> QED BY <2>6, <3>1, <3>2 DEF Scan, dbVars, bulkVars, TypeOK, PC, MyStorages
  <2>7. CASE Enqueue(u)
    <3>1. /\ tasks' \in SUBSET Task
          /\ \A t \in tasks' : t.file \in files
      BY <2>7 DEF Enqueue, TypeOK
    <3>2. faults' \in Nat BY <2>7 DEF Enqueue, Fault, TypeOK
    <3> QED BY <2>7, <3>1, <3>2 DEF Enqueue, bulkVars, TypeOK, PC, MyStorages
  <2>8. CASE UploadError(u)
    BY <2>8 DEF UploadError, Fault, dbVars, bulkVars, TypeOK, PC, MyStorages
  <2> QED BY <1>2, <2>1, <2>2, <2>3, <2>4, <2>5, <2>6, <2>7, <2>8 DEF UploadStep
<1>3. ASSUME NEW p \in Projects, NEW i \in Uploads, DeleteReference(p, i) PROVE TypeInv'
  BY <1>3 DEF DeleteReference, uploadVars, bulkVars, TypeOK, MyStorages
<1>4. ASSUME NEW d \in Deletes, BulkStep(d) PROVE TypeInv'
  <2>1. CASE BulkStart(d)
    BY <2>1 DEF BulkStart, dbVars, uploadVars, TypeOK, BPC, MyStorages
  <2>2. CASE BulkScan(d)
    BY <2>2 DEF BulkScan, dbVars, uploadVars, TypeOK, BPC, MyStorages
  <2>3. CASE BulkCollect(d)
    <3>1. \A l \in location : <<ContentOf[l[1]], l[2]>> \in Hashes \X Storages
      BY ConstantsAssumption DEF TypeOK
    <3> QED BY <2>3, <3>1 DEF BulkCollect, dbVars, uploadVars, TypeOK, BPC, MyStorages
  <2>4. CASE BulkCommit(d)
    BY <2>4 DEF BulkCommit, uploadVars, TypeOK, BPC, MyStorages
  <2>5. CASE BulkAbort(d)
    BY <2>5 DEF BulkAbort, Fault, dbVars, uploadVars, TypeOK, BPC, MyStorages
  <2>6. CASE BulkRemove(d)
    BY <2>6 DEF BulkRemove, Fault, dbVars, uploadVars, TypeOK, MyStorages
  <2>7. CASE BulkDone(d)
    BY <2>7 DEF BulkDone, dbVars, uploadVars, TypeOK, BPC, MyStorages
  <2> QED BY <1>4, <2>1, <2>2, <2>3, <2>4, <2>5, <2>6, <2>7 DEF BulkStep
<1>5. CASE Sync
  <2>1. ASSUME NEW t \in tasks, SyncCopy(t) PROVE TypeInv'
    <3>1. <<ContentOf[t.file], t.target, ContainerOf[t.project]>>
             \in Hashes \X Storages \X Containers
      BY ConstantsAssumption DEF TypeOK, Task
    <3> QED BY <2>1, <3>1 DEF SyncCopy, uploadVars, bulkVars, TypeOK, MyStorages
  <2>2. ASSUME NEW t \in tasks, SyncGiveUp(t) PROVE TypeInv'
    BY <2>2 DEF SyncGiveUp, Fault, uploadVars, bulkVars, TypeOK, MyStorages
  <2>3. ASSUME NEW t \in copied, SyncRecord(t) PROVE TypeInv'
    <3>1. t \in Task /\ t.target \in Storages BY DEF TypeOK, Task
    <3>2. /\ location' \in SUBSET (Uploads \X Storages)
          /\ \A l \in location' : l[1] \in files
          /\ tasks' \in SUBSET Task
          /\ \A x \in tasks' : x.file \in files
      BY <2>3, <3>1 DEF SyncRecord, TypeOK
    <3>3. faults' \in Nat BY <2>3 DEF SyncRecord, Fault, TypeOK
    <3> QED BY <2>3, <3>1, <3>2, <3>3 DEF SyncRecord, uploadVars, bulkVars, TypeOK, MyStorages
  <2> QED BY <1>5, <2>1, <2>2, <2>3 DEF Sync
<1> QED BY <1>1, <1>2, <1>3, <1>4, <1>5 DEF Next

\* The type invariant holds of every behaviour of the file service.
LEMMA TypeInvariant == Spec => []TypeInv
<1>1. Init => TypeInv
  BY DEF Init, TypeInv, TypeOK, PC, BPC
<1> QED BY <1>1, TypeStep, PTL DEF Spec

\* Rows and registers keep their types, and references, locations and sync tasks
\* always point to a live files row: the cascades of bulk_delete leave nothing.
THEOREM TypeCorrect == Spec => []TypeOK
<1>1. TypeInv => TypeOK BY DEF TypeInv
<1> QED BY <1>1, TypeInvariant, PTL

-----------------------------------------------------------------------------
(* With a container of its own per project, nothing but an upload or the   *)
(* sync worker touches a project's objects.                                *)

\* No project's container is the one the registry's own backend uses.
Isolated == \A p \in Projects : ContainerOf[p] # Default

\* bulk_delete's physical cleanup only reaches the default container.
LEMMA ObjectsStay ==
    ASSUME Isolated, TypeInv, [Next]_vars,
           NEW h, NEW s, NEW p \in Projects, <<h, s, ContainerOf[p]>> \in object
    PROVE  <<h, s, ContainerOf[p]>> \in object'
<1>1. CASE UNCHANGED object BY <1>1
<1>2. ASSUME NEW x, object' = object \cup {x} PROVE <<h, s, ContainerOf[p]>> \in object'
  BY <1>2
<1>3. ASSUME NEW d \in Deletes, BulkRemove(d) PROVE <<h, s, ContainerOf[p]>> \in object'
  <2>1. ASSUME NEW x, object' = object \ {<<x[1], x[2], Default>>}
        PROVE  <<h, s, ContainerOf[p]>> \in object'
    BY <2>1 DEF Isolated
  <2> QED BY <1>1, <1>3, <2>1 DEF BulkRemove
<1>4. ASSUME NEW u \in Uploads, UploadStep(u) PROVE <<h, s, ContainerOf[p]>> \in object'
  BY <1>1, <1>2, <1>4 DEF UploadStep, FindByHash, InsertFile, Store, Locate, Link, Scan,
     Enqueue, UploadError
<1>5. ASSUME NEW d \in Deletes, BulkStep(d) PROVE <<h, s, ContainerOf[p]>> \in object'
  BY <1>1, <1>3, <1>5 DEF BulkStep, BulkStart, BulkScan, BulkCollect, BulkCommit,
     BulkAbort, BulkDone
<1>6. CASE Sync
  BY <1>1, <1>2, <1>6 DEF Sync, SyncCopy, SyncGiveUp, SyncRecord
<1>7. CASE UNCHANGED vars BY <1>1, <1>7 DEF vars
<1>8. ASSUME NEW q \in Projects, NEW i \in Uploads, DeleteReference(q, i)
      PROVE <<h, s, ContainerOf[p]>> \in object'
  BY <1>1, <1>8 DEF DeleteReference
<1> QED BY <1>4, <1>5, <1>6, <1>7, <1>8 DEF Next

CopyInContainer(h, s) == \E p \in Projects : <<h, s, ContainerOf[p]>> \in object

\* The strengthening: a location's copy is in a project's container; an upload
\* about to record its location, and the sync worker about to record a copy,
\* have put it there.
LocationsBacked == \A l \in location : CopyInContainer(ContentOf[l[1]], l[2])
StoredBeforeLocate == \A u \in Uploads : pc[u] = "locate" => MyObject(u) \in object
CopiedBeforeRecord ==
    \A t \in copied : <<ContentOf[t.file], t.target, ContainerOf[t.project]>> \in object
BackedInv == LocationsBacked /\ StoredBeforeLocate /\ CopiedBeforeRecord

\* Every step keeps a location row behind the object it points to.
LEMMA BackedStep ==
    ASSUME Isolated, TypeInv, BackedInv, [Next]_vars
    PROVE  BackedInv'
<1>1. \A h, s : CopyInContainer(h, s) => CopyInContainer(h, s)'
  BY ObjectsStay DEF CopyInContainer
<1>2. CopiedBeforeRecord'
  <2> SUFFICES ASSUME NEW t \in copied'
               PROVE <<ContentOf[t.file], t.target, ContainerOf[t.project]>> \in object'
    BY DEF CopiedBeforeRecord
  <2>1. CASE t \in copied
    <3>1. t.project \in Projects BY <2>1 DEF TypeInv, TypeOK, Task
    <3> QED BY <2>1, <3>1, ObjectsStay DEF BackedInv, CopiedBeforeRecord
  <2>2. CASE t \notin copied
    <3>1. SyncCopy(t)
      BY <2>2 DEF Next, vars, UploadStep, FindByHash, InsertFile, Store, Locate, Link, Scan,
         Enqueue, UploadError, DeleteReference, BulkStep, BulkStart, BulkScan, BulkCollect,
         BulkCommit, BulkAbort, BulkRemove, BulkDone, Sync, SyncCopy, SyncGiveUp, SyncRecord
    <3> QED BY <3>1 DEF SyncCopy
  <2> QED BY <2>1, <2>2
<1>3. StoredBeforeLocate'
  <2> SUFFICES ASSUME NEW u \in Uploads, pc'[u] = "locate"
               PROVE MyObject(u) \in object'
    BY DEF StoredBeforeLocate, MyObject, Primary, MyStorages
  <2>1. CASE pc[u] = "locate"
    <3>1. ProjectOf[u] \in Projects BY ConstantsAssumption
    <3> QED BY <2>1, <3>1, ObjectsStay DEF BackedInv, StoredBeforeLocate, MyObject
  <2>2. CASE pc[u] # "locate"
    <3>1. ASSUME NEW v \in Uploads, UploadStep(v), v # u PROVE pc'[u] = pc[u]
      BY <3>1 DEF UploadStep, FindByHash, InsertFile, Found, Store, Locate, Link, Scan,
         Enqueue, UploadError, TypeInv, TypeOK
    <3>2. CASE UploadStep(u)
      BY <2>2, <3>2 DEF UploadStep, FindByHash, InsertFile, Found, Store, Locate, Link, Scan,
         Enqueue, UploadError, TypeInv, TypeOK
    <3>3. ASSUME NEW d \in Deletes, BulkStep(d) PROVE UNCHANGED pc
      BY <3>3 DEF BulkStep, BulkStart, BulkScan, BulkCollect, BulkCommit, BulkAbort,
         BulkRemove, BulkDone, uploadVars
    <3>4. Sync => UNCHANGED pc
      BY DEF Sync, SyncCopy, SyncGiveUp, SyncRecord, uploadVars
    <3>5. UNCHANGED vars => UNCHANGED pc BY DEF vars, uploadVars
    <3>6. ASSUME NEW q \in Projects, NEW i \in Uploads, DeleteReference(q, i)
          PROVE UNCHANGED pc
      BY <3>6 DEF DeleteReference, uploadVars
    <3> QED BY <2>2, <3>1, <3>2, <3>3, <3>4, <3>5, <3>6 DEF Next
  <2> QED BY <2>1, <2>2
<1>4. LocationsBacked'
  <2> SUFFICES ASSUME NEW l \in location'
               PROVE CopyInContainer(ContentOf[l[1]], l[2])'
    BY DEF LocationsBacked
  <2>1. CASE l \in location
    BY <1>1, <2>1 DEF BackedInv, LocationsBacked
  <2>2. ASSUME NEW u \in Uploads, Locate(u), l \notin location
        PROVE CopyInContainer(ContentOf[l[1]], l[2])'
    <3>1. l = <<u, Primary(u)>> BY <2>2 DEF Locate
    <3>2. MyObject(u) \in object' BY <2>2 DEF Locate, BackedInv, StoredBeforeLocate
    <3>3. ProjectOf[u] \in Projects BY ConstantsAssumption
    <3> QED BY <3>1, <3>2, <3>3 DEF CopyInContainer, MyObject
  <2>3. ASSUME NEW t \in copied, SyncRecord(t), l \notin location
        PROVE CopyInContainer(ContentOf[l[1]], l[2])'
    <3>1. l = <<t.file, t.target>> BY <2>3 DEF SyncRecord
    <3>2. <<ContentOf[t.file], t.target, ContainerOf[t.project]>> \in object'
      BY <2>3 DEF SyncRecord, BackedInv, CopiedBeforeRecord
    <3>3. t.project \in Projects BY DEF TypeInv, TypeOK, Task
    <3> QED BY <3>1, <3>2, <3>3 DEF CopyInContainer
  <2>4. ASSUME l \notin location
        PROVE \/ \E u \in Uploads : Locate(u)
              \/ \E t \in copied : SyncRecord(t)
    BY <2>4 DEF Next, vars, dbVars, UploadStep, FindByHash, InsertFile, Store, Link, Scan,
       Enqueue, UploadError, DeleteReference, BulkStep, BulkStart, BulkScan, BulkCollect,
       BulkCommit, BulkAbort, BulkRemove, BulkDone, Sync, SyncCopy, SyncGiveUp
  <2> QED BY <2>1, <2>2, <2>3, <2>4
<1> QED BY <1>2, <1>3, <1>4 DEF BackedInv

\* With a container per project, a file_locations row always has its content
\* behind it, however uploads, replication and bulk deletes overlap.
THEOREM LocationsSafe ==
    ASSUME Isolated
    PROVE  Spec => []LocationBacked
<1>1. Init => BackedInv
  BY DEF Init, BackedInv, LocationsBacked, StoredBeforeLocate, CopiedBeforeRecord
<1>2. TypeInv /\ BackedInv /\ [Next]_vars => BackedInv'
  BY BackedStep
<1>3. BackedInv => LocationBacked
  BY ConstantsAssumption DEF BackedInv, LocationsBacked, CopyInContainer, LocationBacked
<1> QED BY <1>1, <1>2, <1>3, TypeInvariant, PTL DEF Spec

-----------------------------------------------------------------------------
(* The upload that inserts a files row stores its copy before it refers to *)
(* the row, and nothing takes that copy away while the reference lasts.    *)

\* A location goes only with its files row.
LEMMA LocationsStay ==
    ASSUME TypeInv, [Next]_vars, NEW l \in location, l[1] \in files'
    PROVE  l \in location'
<1>1. CASE UNCHANGED location BY <1>1
<1>2. ASSUME NEW x, location' = location \cup {x} PROVE l \in location' BY <1>2
<1>3. ASSUME NEW d \in Deletes, BulkCommit(d) PROVE l \in location'
  BY <1>3 DEF BulkCommit
<1>4. ASSUME NEW u \in Uploads, UploadStep(u) PROVE l \in location'
  BY <1>1, <1>2, <1>4 DEF UploadStep, FindByHash, InsertFile, Store, Locate, Link, Scan,
     Enqueue, UploadError, dbVars
<1>5. ASSUME NEW d \in Deletes, BulkStep(d) PROVE l \in location'
  BY <1>1, <1>3, <1>5 DEF BulkStep, BulkStart, BulkScan, BulkCollect, BulkAbort,
     BulkRemove, BulkDone, dbVars
<1>6. CASE Sync
  BY <1>1, <1>2, <1>6 DEF Sync, SyncCopy, SyncGiveUp, SyncRecord
<1>7. CASE UNCHANGED vars BY <1>1, <1>7 DEF vars, dbVars
<1>8. ASSUME NEW q \in Projects, NEW i \in Uploads, DeleteReference(q, i) PROVE l \in location'
  BY <1>1, <1>8 DEF DeleteReference
<1> QED BY <1>4, <1>5, <1>6, <1>7, <1>8 DEF Next

\* Only the upload itself changes its registers.
LEMMA RegistersStay ==
    ASSUME TypeInv, [Next]_vars, NEW u \in Uploads, ~UploadStep(u)
    PROVE  pc'[u] = pc[u] /\ file'[u] = file[u]
<1>1. ASSUME NEW v \in Uploads, UploadStep(v), v # u
      PROVE pc'[u] = pc[u] /\ file'[u] = file[u]
  BY <1>1 DEF UploadStep, FindByHash, InsertFile, Found, Store, Locate, Link, Scan,
     Enqueue, UploadError, TypeInv, TypeOK
<1>2. ASSUME NEW d \in Deletes, BulkStep(d) PROVE UNCHANGED <<pc, file>>
  BY <1>2 DEF BulkStep, BulkStart, BulkScan, BulkCollect, BulkCommit, BulkAbort,
     BulkRemove, BulkDone, uploadVars
<1>3. Sync => UNCHANGED <<pc, file>>
  BY DEF Sync, SyncCopy, SyncGiveUp, SyncRecord, uploadVars
<1>4. UNCHANGED vars => UNCHANGED <<pc, file>> BY DEF vars, uploadVars
<1>5. ASSUME NEW q \in Projects, NEW i \in Uploads, DeleteReference(q, i)
      PROVE UNCHANGED <<pc, file>>
  BY <1>5 DEF DeleteReference, uploadVars
<1> QED BY <1>1, <1>2, <1>3, <1>4, <1>5 DEF Next

\* Only the upload itself inserts its files row and its reference.
LEMMA RowsStay ==
    ASSUME TypeInv, [Next]_vars, NEW u \in Uploads, ~UploadStep(u)
    PROVE  (u \in files' => u \in files) /\ (u \in refs' => u \in refs)
<1>1. ASSUME NEW v \in Uploads, UploadStep(v), v # u
      PROVE (u \in files' => u \in files) /\ (u \in refs' => u \in refs)
  BY <1>1 DEF UploadStep, FindByHash, InsertFile, Store, Locate, Link, Scan,
     Enqueue, UploadError, dbVars
<1>2. ASSUME NEW d \in Deletes, BulkStep(d)
      PROVE (u \in files' => u \in files) /\ (u \in refs' => u \in refs)
  BY <1>2 DEF BulkStep, BulkStart, BulkScan, BulkCollect, BulkCommit, BulkAbort,
     BulkRemove, BulkDone, dbVars
<1>3. Sync => UNCHANGED <<files, refs>>
  BY DEF Sync, SyncCopy, SyncGiveUp, SyncRecord
<1>4. UNCHANGED vars => UNCHANGED <<files, refs>> BY DEF vars, dbVars
<1>5. ASSUME NEW q \in Projects, NEW i \in Uploads, DeleteReference(q, i)
      PROVE files' = files /\ refs' \subseteq refs
  BY <1>5 DEF DeleteReference
<1> QED BY <1>1, <1>2, <1>3, <1>4, <1>5 DEF Next

HasCopy(u) == <<u, Primary(u)>> \in location /\ MyObject(u) \in object

\* The strengthening: where an upload is when its row or its reference exists,
\* and that it has its copy from the moment it goes on to refer to its own row.
CreatorInv ==
    \A u \in Uploads :
        /\ u \in files => pc[u] \notin {"find", "insert", "refind"}
        /\ u \in refs => pc[u] \in {"scan", "enqueue", "done", "failed"}
        /\ (pc[u] = "link" \/ u \in refs) /\ file[u] = u /\ u \in files => HasCopy(u)

\* Every step of an upload keeps the row it created backed by a copy.
LEMMA CreatorStep ==
    ASSUME Isolated, TypeInv, BackedInv, CreatorInv, [Next]_vars
    PROVE  CreatorInv'
<1> SUFFICES ASSUME NEW u \in Uploads
             PROVE  /\ u \in files' => pc'[u] \notin {"find", "insert", "refind"}
                    /\ u \in refs' => pc'[u] \in {"scan", "enqueue", "done", "failed"}
                    /\ (pc'[u] = "link" \/ u \in refs') /\ file'[u] = u /\ u \in files' =>
                         HasCopy(u)'
  BY DEF CreatorInv
<1>a. /\ u \in files => pc[u] \notin {"find", "insert", "refind"}
      /\ u \in refs => pc[u] \in {"scan", "enqueue", "done", "failed"}
      /\ (pc[u] = "link" \/ u \in refs) /\ file[u] = u /\ u \in files => HasCopy(u)
  BY DEF CreatorInv
<1>b. HasCopy(u) /\ u \in files' => HasCopy(u)'
  <2>1. ProjectOf[u] \in Projects BY ConstantsAssumption
  <2>2. MyObject(u) \in object => MyObject(u) \in object'
    BY <2>1, ObjectsStay DEF MyObject
  <2>3. <<u, Primary(u)>> \in location /\ u \in files' => <<u, Primary(u)>> \in location'
    BY LocationsStay
  <2> QED BY <2>2, <2>3 DEF HasCopy, MyObject, Primary, MyStorages
<1>1. CASE ~UploadStep(u)
  BY <1>1, <1>a, <1>b, RegistersStay, RowsStay
<1>2. CASE FindByHash(u)
  <2>1. u \notin files /\ u \notin refs BY <1>2, <1>a DEF FindByHash
  <2>2. u \notin files' /\ u \notin refs' BY <1>2, <2>1 DEF FindByHash, dbVars
  <2> QED BY <2>2
<1>3. CASE InsertFile(u)
  <2>1. u \notin files /\ u \notin refs BY <1>3, <1>a DEF InsertFile
  <2>2. u \notin refs' BY <1>3, <2>1 DEF InsertFile
  <2>3. CASE files' = files \cup {u} /\ Found(u, u)
    <3>1. pc'[u] \in {"store", "failed"} BY <2>3 DEF Found, TypeInv, TypeOK
    <3> QED BY <2>2, <3>1
  <2>4. CASE UNCHANGED files BY <2>1, <2>2, <2>4
  <2> QED BY <1>3, <2>3, <2>4 DEF InsertFile
<1>4. CASE Store(u)
  <2>1. pc'[u] = "locate" /\ u \notin refs' BY <1>4, <1>a DEF Store, dbVars, TypeInv, TypeOK
  <2> QED BY <2>1
<1>5. CASE Locate(u)
  <2>1. u \notin refs' BY <1>5, <1>a DEF Locate
  <2>2. pc'[u] \in {"link", "failed"} BY <1>5 DEF Locate, TypeInv, TypeOK
  <2>3. pc'[u] = "link" => <<u, Primary(u)>> \in location'
    BY <1>5 DEF Locate, TypeInv, TypeOK
  <2>4. MyObject(u) \in object'
    BY <1>5 DEF Locate, BackedInv, StoredBeforeLocate
  <2> QED BY <2>1, <2>2, <2>3, <2>4 DEF HasCopy, MyObject, Primary, MyStorages
<1>6. CASE Link(u)
  <2>1. pc'[u] \in {"scan", "failed"} /\ UNCHANGED <<files, file>>
    BY <1>6 DEF Link, TypeInv, TypeOK
  <2>2. pc[u] = "link" BY <1>6 DEF Link
  <2> QED BY <1>a, <1>b, <2>1, <2>2
<1>7. CASE Scan(u) \/ Enqueue(u) \/ UploadError(u)
  <2>1. pc'[u] \in {"enqueue", "done", "failed"} /\ UNCHANGED <<files, refs, file>>
    BY <1>7 DEF Scan, Enqueue, UploadError, dbVars, TypeInv, TypeOK
  <2> QED BY <1>a, <1>b, <2>1
<1> QED BY <1>1, <1>2, <1>3, <1>4, <1>5, <1>6, <1>7 DEF UploadStep

\* The location invariant holds of every behaviour, for isolated projects.
LEMMA BackedInvariant ==
    ASSUME Isolated
    PROVE  Spec => [](TypeInv /\ BackedInv /\ CreatorInv)
<1>1. Init => BackedInv /\ CreatorInv
  BY DEF Init, BackedInv, LocationsBacked, StoredBeforeLocate, CopiedBeforeRecord, CreatorInv
<1>2. TypeInv /\ BackedInv /\ CreatorInv /\ [Next]_vars => BackedInv' /\ CreatorInv'
  BY BackedStep, CreatorStep
<1> QED BY <1>1, <1>2, TypeInvariant, PTL DEF Spec

\* A reference to a file its own upload stored always has its copy, listed and in
\* the project's container, also when a bulk delete ran during the upload.
THEOREM UploadSafe ==
    ASSUME Isolated
    PROVE  Spec => []UploadedIsStored
<1>1. TypeInv /\ CreatorInv => UploadedIsStored
  BY DEF TypeInv, TypeOK, CreatorInv, HasCopy, UploadedIsStored
<1> QED BY <1>1, BackedInvariant, PTL

\* No step takes away the copy a reference is served from.
THEOREM CopySafe ==
    ASSUME Isolated
    PROVE  Spec => CopyStays
<1>1. TypeInv /\ CreatorInv /\ [Next]_vars =>
        [\A u \in refs : Served(u) /\ u \in refs' => Served(u)']_vars
  <2> SUFFICES ASSUME TypeInv, CreatorInv, [Next]_vars, NEW u \in refs,
                      Served(u), u \in refs'
               PROVE  Served(u)'
    OBVIOUS
  <2>1. u \in Uploads /\ ProjectOf[u] \in Projects
    BY ConstantsAssumption DEF TypeInv, TypeOK
  <2>2. file'[u] = file[u]
    <3>1. pc[u] \in {"scan", "enqueue", "done", "failed"} BY <2>1 DEF CreatorInv
    <3>2. CASE UploadStep(u)
      BY <3>1, <3>2 DEF UploadStep, FindByHash, InsertFile, Store, Locate, Link, Scan,
         Enqueue, UploadError
    <3> QED BY <2>1, <3>2, RegistersStay
  <2>3. file'[u] \in files'
    <3>1. TypeInv' BY TypeStep
    <3> QED BY <3>1 DEF TypeInv, TypeOK
  <2>4. PICK s \in Storages :
          /\ <<file[u], s>> \in location
          /\ <<ContentOf[u], s, ContainerOf[ProjectOf[u]]>> \in object
    BY DEF Served
  <2>5. <<file'[u], s>> \in location'
    BY <2>2, <2>3, <2>4, LocationsStay
  <2>6. <<ContentOf[u], s, ContainerOf[ProjectOf[u]]>> \in object'
    BY <2>1, <2>4, ObjectsStay
  <2> QED BY <2>5, <2>6 DEF Served
<1> QED BY <1>1, BackedInvariant, PTL DEF Spec, CopyStays

-----------------------------------------------------------------------------
(* Which project's container a location's copy is in                       *)

\* An upload of content h has got past its first query.
Begun(v, h) == ContentOf[v] = h /\ pc[v] # "find"

BegunIn(h, p) == \E v \in Uploads : Begun(v, h) /\ ProjectOf[v] = p

\* The strengthening: an upload's row has its content; a task, planned, queued or
\* done, belongs to a project that has begun to upload the content; and a
\* location's copy is in the container of such a project.
FileContent == \A u \in Uploads : file[u] # NoFile => ContentOf[file[u]] = ContentOf[u]
TaskOrigin(t) == BegunIn(ContentOf[t.file], t.project)
TaskOrigins ==
    /\ \A t \in tasks : TaskOrigin(t)
    /\ \A t \in copied : TaskOrigin(t)
    /\ \A u \in Uploads : \A t \in todo[u] : TaskOrigin(t)
LocationOrigin(l) ==
    \E p \in Projects :
        BegunIn(ContentOf[l[1]], p) /\ <<ContentOf[l[1]], l[2], ContainerOf[p]>> \in object
LocationOrigins == \A l \in location : LocationOrigin(l)
OriginInv == FileContent /\ TaskOrigins /\ LocationOrigins

\* An upload that has begun stays so.
LEMMA BegunStays ==
    ASSUME TypeInv, [Next]_vars, NEW h, NEW p, BegunIn(h, p)
    PROVE  BegunIn(h, p)'
<1>1. PICK v \in Uploads : Begun(v, h) /\ ProjectOf[v] = p
  BY DEF BegunIn
<1>2. pc'[v] # "find"
  <2>1. CASE UploadStep(v)
    BY <1>1, <2>1 DEF Begun, UploadStep, FindByHash, InsertFile, Found, Store, Locate, Link, Scan,
       Enqueue, UploadError, TypeInv, TypeOK
  <2>2. CASE ~UploadStep(v)
    BY <1>1, <2>2, RegistersStay DEF Begun
  <2> QED BY <2>1, <2>2
<1> QED BY <1>1, <1>2 DEF BegunIn, Begun

\* An upload writes the row it inserted or one that find_by_hash found.
LEMMA FileContentStep ==
    ASSUME TypeInv, FileContent, [Next]_vars
    PROVE  FileContent'
<1> SUFFICES ASSUME NEW u \in Uploads, file'[u] # NoFile
             PROVE  ContentOf[file'[u]] = ContentOf[u]
  BY DEF FileContent
<1>1. CASE file'[u] = file[u]
  BY <1>1 DEF FileContent
<1>2. ASSUME NEW i \in files, ContentOf[i] = ContentOf[u], Found(u, i)
      PROVE  ContentOf[file'[u]] = ContentOf[u]
  BY <1>2 DEF Found, TypeInv, TypeOK
<1>3. CASE UploadStep(u)
  <2>1. CASE FindByHash(u)
    BY <1>1, <1>2, <2>1 DEF FindByHash
  <2>2. CASE InsertFile(u)
    <3>1. CASE Found(u, u)
      BY <3>1 DEF Found, TypeInv, TypeOK
    <3> QED BY <1>1, <2>2, <3>1 DEF InsertFile
  <2>3. CASE UNCHANGED file
    BY <1>1, <2>3
  <2> QED
    BY <1>3, <2>1, <2>2, <2>3 DEF UploadStep, Store, Locate, Link, Scan, Enqueue, UploadError
<1>4. CASE ~UploadStep(u)
  BY <1>1, <1>4, RegistersStay
<1> QED BY <1>3, <1>4

\* A queued task was planned by an upload or queued again by the sync worker.
LEMMA TasksFrom ==
    ASSUME TypeInv, [Next]_vars, NEW t \in tasks', t \notin tasks
    PROVE  t \in copied \/ \E u \in Uploads : t \in todo[u]
<1>1. ASSUME NEW u \in Uploads, UploadStep(u) PROVE t \in todo[u]
  BY <1>1 DEF UploadStep, FindByHash, InsertFile, Store, Locate, Link, Scan, Enqueue,
     UploadError, dbVars
<1>2. ASSUME NEW d \in Deletes, BulkStep(d) PROVE FALSE
  BY <1>2 DEF BulkStep, BulkStart, BulkScan, BulkCollect, BulkCommit, BulkAbort, BulkRemove,
     BulkDone, dbVars
<1>3. ASSUME NEW x \in tasks, SyncCopy(x) \/ SyncGiveUp(x) PROVE FALSE
  BY <1>3 DEF SyncCopy, SyncGiveUp
<1>4. ASSUME NEW x \in copied, SyncRecord(x) PROVE t \in copied
  BY <1>4 DEF SyncRecord
<1>5. ASSUME NEW q \in Projects, NEW i \in Uploads, DeleteReference(q, i) PROVE FALSE
  BY <1>5 DEF DeleteReference
<1>6. CASE UNCHANGED vars
  BY <1>6 DEF vars, dbVars
<1> QED BY <1>1, <1>2, <1>3, <1>4, <1>5, <1>6 DEF Next, Sync

\* A task an upload plans is for its own row, content and project.
LEMMA TodoFrom ==
    ASSUME TypeInv, [Next]_vars, NEW u \in Uploads, NEW t \in todo'[u], t \notin todo[u]
    PROVE  pc'[u] = "enqueue" /\ file[u] \in Uploads /\ t.file = file[u] /\ t.project = ProjectOf[u]
<1>1. ASSUME NEW v \in Uploads, UploadStep(v), v # u PROVE FALSE
  BY <1>1 DEF UploadStep, FindByHash, InsertFile, Store, Locate, Link, Scan, Plan, Enqueue,
     UploadError, TypeInv, TypeOK
<1>2. CASE UploadStep(u)
  <2>1. CASE Scan(u)
    <3>1. PICK listed : Plan(u, listed)
      BY <2>1 DEF Scan
    <3>2. PICK source : todo' = [todo EXCEPT ![u] = NewTasks(u, source, listed)]
      BY <3>1 DEF Plan
    <3>3. t \in NewTasks(u, source, listed)
      BY <3>2 DEF TypeInv, TypeOK
    <3>4. t.file = file[u] /\ t.project = ProjectOf[u]
      BY <3>3 DEF NewTasks
    <3> QED BY <2>1, <3>4 DEF Scan, TypeInv, TypeOK
  <2>2. CASE ~Scan(u)
    BY <1>2, <2>2 DEF UploadStep, FindByHash, InsertFile, Store, Locate, Link, Enqueue,
       UploadError, TypeInv, TypeOK
  <2> QED BY <2>1, <2>2
<1>3. ASSUME NEW d \in Deletes, BulkStep(d) PROVE FALSE
  BY <1>3 DEF BulkStep, BulkStart, BulkScan, BulkCollect, BulkCommit, BulkAbort, BulkRemove,
     BulkDone, uploadVars
<1>4. Sync => UNCHANGED todo
  BY DEF Sync, SyncCopy, SyncGiveUp, SyncRecord, uploadVars
<1>5. ASSUME NEW q \in Projects, NEW i \in Uploads, DeleteReference(q, i) PROVE FALSE
  BY <1>5 DEF DeleteReference, uploadVars
<1>6. UNCHANGED vars => UNCHANGED todo
  BY DEF vars, uploadVars
<1> QED BY <1>1, <1>2, <1>3, <1>4, <1>5, <1>6 DEF Next

\* Only the sync worker's copy step adds to the copies it has yet to record.
LEMMA CopiedFrom ==
    ASSUME TypeInv, [Next]_vars, NEW t \in copied', t \notin copied
    PROVE  t \in tasks
  BY DEF Next, vars, UploadStep, FindByHash, InsertFile, Store, Locate, Link, Scan,
     Enqueue, UploadError, DeleteReference, BulkStep, BulkStart, BulkScan, BulkCollect,
     BulkCommit, BulkAbort, BulkRemove, BulkDone, Sync, SyncCopy, SyncGiveUp, SyncRecord

\* A task keeps its origin through planning, queue, copy and retry.
LEMMA TaskOriginsStep ==
    ASSUME TypeInv, FileContent, TaskOrigins, [Next]_vars
    PROVE  TaskOrigins'
<1>1. ASSUME NEW t, TaskOrigin(t) PROVE TaskOrigin(t)'
  BY <1>1, BegunStays DEF TaskOrigin
<1>2. ASSUME NEW t \in tasks' PROVE TaskOrigin(t)'
  <2>1. TaskOrigin(t)
    BY TasksFrom DEF TaskOrigins
  <2> QED BY <1>1, <2>1
<1>3. ASSUME NEW t \in copied' PROVE TaskOrigin(t)'
  <2>1. TaskOrigin(t)
    BY CopiedFrom DEF TaskOrigins
  <2> QED BY <1>1, <2>1
<1>4. ASSUME NEW u \in Uploads, NEW t \in todo'[u] PROVE TaskOrigin(t)'
  <2>1. CASE t \in todo[u]
    BY <1>1, <2>1 DEF TaskOrigins
  <2>2. CASE t \notin todo[u]
    <3>1. pc'[u] = "enqueue" /\ file[u] \in Uploads /\ t.file = file[u] /\ t.project = ProjectOf[u]
      BY <2>2, TodoFrom
    <3>2. ContentOf[t.file] = ContentOf[u]
      BY <3>1, ConstantsAssumption DEF FileContent
    <3> QED BY <3>1, <3>2 DEF TaskOrigin, BegunIn, Begun
  <2> QED BY <2>1, <2>2
<1> QED BY <1>2, <1>3, <1>4 DEF TaskOrigins

\* A location is recorded by the upload or the task that put its copy there.
LEMMA LocationOriginsStep ==
    ASSUME Isolated, TypeInv, BackedInv, OriginInv, [Next]_vars
    PROVE  LocationOrigins'
<1> SUFFICES ASSUME NEW l \in location' PROVE LocationOrigin(l)'
  BY DEF LocationOrigins
<1>1. CASE l \in location
  <2>1. PICK p \in Projects :
          BegunIn(ContentOf[l[1]], p) /\ <<ContentOf[l[1]], l[2], ContainerOf[p]>> \in object
    BY <1>1 DEF OriginInv, LocationOrigins, LocationOrigin
  <2>2. BegunIn(ContentOf[l[1]], p)'
    BY <2>1, BegunStays
  <2>3. <<ContentOf[l[1]], l[2], ContainerOf[p]>> \in object'
    BY <2>1, ObjectsStay
  <2> QED BY <2>2, <2>3 DEF LocationOrigin
<1>2. ASSUME NEW u \in Uploads, Locate(u), l \notin location PROVE LocationOrigin(l)'
  <2>1. l = <<u, Primary(u)>> BY <1>2 DEF Locate
  <2>2. MyObject(u) \in object' BY <1>2 DEF Locate, BackedInv, StoredBeforeLocate
  <2>3. ProjectOf[u] \in Projects BY ConstantsAssumption
  <2>4. pc'[u] # "find" BY <1>2 DEF Locate, TypeInv, TypeOK
  <2> QED BY <2>1, <2>2, <2>3, <2>4 DEF LocationOrigin, BegunIn, Begun, MyObject
<1>3. ASSUME NEW t \in copied, SyncRecord(t), l \notin location PROVE LocationOrigin(l)'
  <2>1. l = <<t.file, t.target>> BY <1>3 DEF SyncRecord
  <2>2. <<ContentOf[t.file], t.target, ContainerOf[t.project]>> \in object'
    BY <1>3 DEF SyncRecord, BackedInv, CopiedBeforeRecord
  <2>3. t.project \in Projects BY DEF TypeInv, TypeOK, Task
  <2>4. BegunIn(ContentOf[t.file], t.project)'
    BY BegunStays DEF OriginInv, TaskOrigins, TaskOrigin
  <2> QED BY <2>1, <2>2, <2>3, <2>4 DEF LocationOrigin
<1>4. ASSUME l \notin location
      PROVE \/ \E u \in Uploads : Locate(u)
            \/ \E t \in copied : SyncRecord(t)
  BY <1>4 DEF Next, vars, dbVars, UploadStep, FindByHash, InsertFile, Store, Link, Scan,
     Enqueue, UploadError, DeleteReference, BulkStep, BulkStart, BulkScan, BulkCollect,
     BulkCommit, BulkAbort, BulkRemove, BulkDone, Sync, SyncCopy, SyncGiveUp
<1> QED BY <1>1, <1>2, <1>3, <1>4

\* While the projects that have uploaded a content share a container of theirs,
\* every location of a referenced file can be read through the backend of one of
\* its references, whichever of the uploads stored the copy and whichever
\* references and files rows were deleted since.
THEOREM ResolvableSafe ==
    ASSUME Isolated
    PROVE  Spec => []LocationResolvable
<1>1. Init => OriginInv
  BY DEF Init, OriginInv, FileContent, TaskOrigins, LocationOrigins
<1>2. TypeInv /\ BackedInv /\ OriginInv /\ [Next]_vars => OriginInv'
  BY FileContentStep, TaskOriginsStep, LocationOriginsStep DEF OriginInv
<1>3. TypeInv /\ CreatorInv /\ OriginInv => LocationResolvable
  <2> SUFFICES ASSUME TypeInv, CreatorInv, OriginInv, NEW l \in location,
                      NEW u \in refs, file[u] = l[1],
                      \A v, w \in {x \in Uploads : ContentOf[x] = ContentOf[l[1]] /\ pc[x] # "find"} :
                          ContainerOf[ProjectOf[v]] = ContainerOf[ProjectOf[w]]
               PROVE  <<ContentOf[u], l[2], ContainerOf[ProjectOf[u]]>> \in object
    BY DEF LocationResolvable
  <2>1. u \in Uploads /\ pc[u] # "find"
    BY DEF CreatorInv, TypeInv, TypeOK
  <2>2. file[u] \in Uploads
    BY DEF TypeInv, TypeOK
  <2>3. ContentOf[u] = ContentOf[l[1]]
    BY <2>1, <2>2, ConstantsAssumption DEF OriginInv, FileContent
  <2>4. PICK v \in Uploads :
          /\ ContentOf[v] = ContentOf[l[1]] /\ pc[v] # "find"
          /\ <<ContentOf[l[1]], l[2], ContainerOf[ProjectOf[v]]>> \in object
    BY DEF OriginInv, LocationOrigins, LocationOrigin, BegunIn, Begun
  <2>5. ContainerOf[ProjectOf[u]] = ContainerOf[ProjectOf[v]]
    BY <2>1, <2>3, <2>4
  <2> QED BY <2>3, <2>4, <2>5
<1> QED BY <1>1, <1>2, <1>3, BackedInvariant, PTL DEF Spec
=============================================================================
