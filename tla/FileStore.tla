------------------------------ MODULE FileStore ------------------------------
(***************************************************************************)
(* The life of a deduplicated file in simply-storage: uploads that insert  *)
(* or find the files row of a hash, store its first copy, link it to the   *)
(* project and queue its replication; reference deletes; bulk deletes with *)
(* their orphan cleanup; and the sync worker reduced to its two effects on *)
(* a file, the copy and the file_locations row                             *)
(* (src/services/file_service.rs, File, FileReference and FileLocation in  *)
(* src/db/models.rs; SyncQueue has the worker in full).                    *)
(*                                                                         *)
(* Every SQL statement outside a transaction and every backend call is a   *)
(* step. A files row and a reference are named by the upload that inserted *)
(* them: UUIDs are never used again, and each upload inserts at most one.  *)
(***************************************************************************)
EXTENDS Naturals

CONSTANTS
    Uploads,        \* upload requests; also the ids of the rows they insert
    Deletes,        \* bulk delete requests
    Hashes,
    Projects,
    Storages,
    Containers,
    ContentOf,      \* ContentOf[u]: the hash of what u uploads
    ProjectOf,      \* ProjectOf[x]: the project upload or bulk delete x is for
    StoragesOf,     \* StoragesOf[p]: p's active, enabled, registered storages
    Rank,           \* Rank[s]: position in ORDER BY is_hot DESC, created_at DESC
    ContainerOf,    \* ContainerOf[p]: the container p's backends are resolved to
    Default,        \* the container of the registry's own backends
    MaxFaults,      \* bound: database errors, I/O errors and crashes together
    NoFile

ASSUME ConstantsAssumption ==
    /\ ContentOf \in [Uploads -> Hashes]
    /\ ProjectOf \in [Uploads \cup Deletes -> Projects]
    /\ StoragesOf \in [Projects -> SUBSET Storages]
    /\ Rank \in [Storages -> Nat]
    /\ \A p \in Projects : StoragesOf[p] # {} =>
         \E s \in StoragesOf[p] : \A t \in StoragesOf[p] : Rank[s] <= Rank[t]
    /\ ContainerOf \in [Projects -> Containers]
    /\ Default \in Containers
    /\ MaxFaults \in Nat
    /\ NoFile \notin Uploads

VARIABLES
    \* the database
    files,      \* live files rows
    refs,       \* live file_references rows; file[u] is the row u refers to
    location,   \* file_locations: pairs of a files row and a storage
    tasks,      \* sync_tasks rows still to be done
    \* the storages: triples of a hash, a storage and a container
    object,
    \* each upload's local state
    pc,
    file,       \* the files row it inserted (then file[u] = u) or found
    todo,       \* the sync tasks it is about to insert
    \* each bulk delete's local state
    bpc,
    doomed,     \* references its open transaction has deleted
    orphans,    \* files rows it found without references
    paths,      \* pairs of a hash and a storage still to be removed
    \* copies the sync worker has made and not yet recorded
    copied,
    \* history: references their own project asked to delete
    asked,
    faults

dbVars == <<files, refs, location, tasks>>
uploadVars == <<pc, file, todo>>
bulkVars == <<bpc, doomed, orphans, paths>>
vars == <<dbVars, object, uploadVars, bulkVars, copied, asked, faults>>

Task == [file : Uploads, source : Storages, target : Storages, project : Projects]

PC == {"find", "insert", "refind", "store", "locate", "link", "scan", "enqueue",
       "done", "failed"}
BPC == {"start", "scan", "collect", "commit", "cleanup", "done", "failed"}

\* Types, and the foreign keys to files.
TypeOK ==
    /\ files \in SUBSET Uploads
    /\ refs \in SUBSET Uploads
    /\ location \in SUBSET (Uploads \X Storages)
    /\ tasks \in SUBSET Task
    /\ object \in SUBSET (Hashes \X Storages \X Containers)
    /\ pc \in [Uploads -> PC]
    /\ file \in [Uploads -> Uploads \cup {NoFile}]
    /\ todo \in [Uploads -> SUBSET Task]
    /\ bpc \in [Deletes -> BPC]
    /\ doomed \in [Deletes -> SUBSET Uploads]
    /\ orphans \in [Deletes -> SUBSET Uploads]
    /\ paths \in [Deletes -> SUBSET (Hashes \X Storages)]
    /\ copied \in SUBSET Task
    /\ asked \in SUBSET Uploads
    /\ faults \in Nat
    /\ \A u \in refs : file[u] \in files
    /\ \A l \in location : l[1] \in files
    /\ \A t \in tasks : t.file \in files

Init ==
    /\ files = {} /\ refs = {} /\ location = {} /\ tasks = {} /\ object = {}
    /\ pc = [u \in Uploads |-> "find"]
    /\ file = [u \in Uploads |-> NoFile]
    /\ todo = [u \in Uploads |-> {}]
    /\ bpc = [d \in Deletes |-> "start"]
    /\ doomed = [d \in Deletes |-> {}]
    /\ orphans = [d \in Deletes |-> {}]
    /\ paths = [d \in Deletes |-> {}]
    /\ copied = {} /\ asked = {} /\ faults = 0

Fault ==
    /\ faults < MaxFaults
    /\ faults' = faults + 1

-----------------------------------------------------------------------------
(* upload_file and finalize_upload                                         *)

MyStorages(u) == StoragesOf[ProjectOf[u]]

\* find_primary_storage: the first registered storage in list order.
Primary(u) ==
    CHOOSE s \in MyStorages(u) : \A t \in MyStorages(u) : Rank[s] <= Rank[t]

MyObject(u) == <<ContentOf[u], Primary(u), ContainerOf[ProjectOf[u]]>>

\* The row was inserted or found before list_for_project is looked at: without
\* a storage the upload is refused and the row stays.
Found(u, i) ==
    /\ file' = [file EXCEPT ![u] = i]
    /\ pc' = [pc EXCEPT ![u] = IF MyStorages(u) = {} THEN "failed"
                               ELSE IF i = u THEN "store" ELSE "link"]

\* find_by_hash, before the INSERT or after it met the unique constraint.
FindByHash(u) ==
    /\ pc[u] \in {"find", "refind"}
    /\ \/ \E i \in files : ContentOf[i] = ContentOf[u] /\ Found(u, i)
       \/ /\ \A i \in files : ContentOf[i] # ContentOf[u]
          /\ pc' = [pc EXCEPT ![u] = IF @ = "find" THEN "insert" ELSE "failed"]
          /\ UNCHANGED file
    /\ UNCHANGED <<dbVars, object, todo, bulkVars, copied, asked, faults>>

InsertFile(u) ==
    /\ pc[u] = "insert"
    /\ \/ /\ \A i \in files : ContentOf[i] # ContentOf[u]
          /\ files' = files \cup {u}
          /\ Found(u, u)
       \/ /\ \E i \in files : ContentOf[i] = ContentOf[u]
          /\ pc' = [pc EXCEPT ![u] = "refind"]
          /\ UNCHANGED <<files, file>>
    /\ UNCHANGED <<refs, location, tasks, object, todo, bulkVars, copied, asked, faults>>

\* Mutant of Store: the object goes to the storage's default container.
Store_DefaultContainer(u) ==
    /\ pc[u] = "store"
    /\ object' = object \cup {<<ContentOf[u], Primary(u), Default>>}
    /\ pc' = [pc EXCEPT ![u] = "locate"]
    /\ UNCHANGED <<dbVars, file, todo, bulkVars, copied, asked, faults>>

\* backend.upload, to the project's container on the primary storage.
Store(u) ==
    /\ pc[u] = "store"
    /\ object' = object \cup {MyObject(u)}
    /\ pc' = [pc EXCEPT ![u] = "locate"]
    /\ UNCHANGED <<dbVars, file, todo, bulkVars, copied, asked, faults>>

\* create_primary_location: the foreign key fails when a bulk delete has removed
\* the row meanwhile.
Locate(u) ==
    /\ pc[u] = "locate"
    /\ \/ /\ u \in files
          /\ location' = location \cup {<<u, Primary(u)>>}
          /\ pc' = [pc EXCEPT ![u] = "link"]
       \/ /\ u \notin files
          /\ pc' = [pc EXCEPT ![u] = "failed"]
          /\ UNCHANGED location
    /\ UNCHANGED <<files, refs, tasks, object, file, todo, bulkVars, copied, asked, faults>>

\* FileReference::create, under the same foreign key.
Link(u) ==
    /\ pc[u] = "link"
    /\ \/ /\ file[u] \in files
          /\ refs' = refs \cup {u}
          /\ pc' = [pc EXCEPT ![u] = "scan"]
       \/ /\ file[u] \notin files
          /\ pc' = [pc EXCEPT ![u] = "failed"]
          /\ UNCHANGED refs
    /\ UNCHANGED <<files, location, tasks, object, file, todo, bulkVars, copied, asked, faults>>

\* The source of the tasks, given the storages that are listed for the file:
\* its own primary for a new file; else a listed storage of the project, else
\* any listed storage, else the primary.
Sources(u, listed) ==
    IF file[u] = u THEN {Primary(u)}
    ELSE IF listed \cap MyStorages(u) # {} THEN listed \cap MyStorages(u)
    ELSE IF listed # {} THEN listed
    ELSE {Primary(u)}

\* Mutant of NewTasks: the loop ends, and does not go on, at the source.
NewTasks_Break(u, source, listed) ==
    {[file |-> file[u], source |-> source, target |-> s, project |-> ProjectOf[u]] :
        s \in {t \in MyStorages(u) \ listed : Rank[t] < Rank[source]}}

NewTasks(u, source, listed) ==
    {[file |-> file[u], source |-> source, target |-> s, project |-> ProjectOf[u]] :
        s \in MyStorages(u) \ (listed \cup {source})}

Listed(u) == {s \in Storages : <<file[u], s>> \in location}

Plan(u, listed) ==
    \E source \in Sources(u, listed) :
        todo' = [todo EXCEPT ![u] = NewTasks(u, source, listed)]

\* find_all_for_file, whose error counts as no location at all, and the choice
\* of the source.
Scan(u) ==
    /\ pc[u] = "scan"
    /\ \/ Plan(u, Listed(u)) /\ UNCHANGED faults
       \/ Plan(u, {}) /\ Fault
    /\ pc' = [pc EXCEPT ![u] = "enqueue"]
    /\ UNCHANGED <<dbVars, object, file, bulkVars, copied, asked>>

\* The INSERTs into sync_tasks; one that fails is only logged.
Enqueue(u) ==
    /\ pc[u] = "enqueue"
    /\ \/ /\ file[u] \in files
          /\ tasks' = tasks \cup todo[u]
          /\ UNCHANGED faults
       \/ /\ file[u] \notin files
          /\ UNCHANGED <<tasks, faults>>
       \/ /\ file[u] \in files
          /\ Fault
          /\ \E t \in todo[u] : tasks' = tasks \cup (todo[u] \ {t})
    /\ todo' = [todo EXCEPT ![u] = {}]
    /\ pc' = [pc EXCEPT ![u] = "done"]
    /\ UNCHANGED <<files, refs, location, object, file, bulkVars, copied, asked>>

\* A database or backend error, or the process dies: nothing is undone.
UploadError(u) ==
    /\ Fault
    /\ pc[u] \notin {"done", "failed"}
    /\ pc' = [pc EXCEPT ![u] = "failed"]
    /\ UNCHANGED <<dbVars, object, file, todo, bulkVars, copied, asked>>

-----------------------------------------------------------------------------
(* delete_file_reference: every reference of the project to the file. It   *)
(* waits for an open bulk delete that has some of them; nothing else goes. *)

DeleteReference(p, i) ==
    LET mine == {u \in refs : file[u] = i /\ ProjectOf[u] = p} IN
    /\ mine # {}
    /\ \A d \in Deletes : doomed[d] \cap mine = {}
    /\ refs' = refs \ mine
    /\ asked' = asked \cup mine
    /\ UNCHANGED <<files, location, tasks, object, uploadVars, bulkVars, copied, faults>>

-----------------------------------------------------------------------------
(* bulk_delete: a READ COMMITTED transaction, whose deletes the others see *)
(* when it commits, then the physical cleanup                              *)

\* execute_bulk_delete, for the references its filters select.
BulkStart(d) ==
    /\ bpc[d] = "start"
    /\ \E S \in SUBSET {u \in refs : ProjectOf[u] = ProjectOf[d]} :
         /\ S # {}
         /\ \A e \in Deletes : doomed[e] \cap S = {}
         /\ doomed' = [doomed EXCEPT ![d] = S]
    /\ bpc' = [bpc EXCEPT ![d] = "scan"]
    /\ UNCHANGED <<dbVars, object, uploadVars, orphans, paths, copied, asked, faults>>

\* find_orphaned_from_ids sees its own deletes and what others have committed.
BulkScan(d) ==
    /\ bpc[d] = "scan"
    /\ orphans' = [orphans EXCEPT ![d] =
         {i \in files : /\ \E u \in doomed[d] : file[u] = i
                        /\ \A u \in refs \ doomed[d] : file[u] # i}]
    /\ bpc' = [bpc EXCEPT ![d] = "collect"]
    /\ UNCHANGED <<dbVars, object, uploadVars, doomed, paths, copied, asked, faults>>

BulkCollect(d) ==
    /\ bpc[d] = "collect"
    /\ paths' = [paths EXCEPT ![d] =
         {<<ContentOf[l[1]], l[2]>> : l \in {k \in location : k[1] \in orphans[d]}}]
    /\ bpc' = [bpc EXCEPT ![d] = "commit"]
    /\ UNCHANGED <<dbVars, object, uploadVars, doomed, orphans, copied, asked, faults>>

\* Mutant of BulkCommit: the locations go with the reference of the upload that
\* made them, not with the last reference.
BulkCommit_UploadersLocations(d) ==
    /\ bpc[d] = "commit"
    /\ files' = files \ orphans[d]
    /\ refs' = {u \in refs \ doomed[d] : file[u] \notin orphans[d]}
    /\ location' = {l \in location : l[1] \notin orphans[d] \cup doomed[d]}
    /\ tasks' = {t \in tasks : t.file \notin orphans[d]}
    /\ asked' = asked \cup doomed[d]
    /\ doomed' = [doomed EXCEPT ![d] = {}]
    /\ bpc' = [bpc EXCEPT ![d] = "cleanup"]
    /\ UNCHANGED <<object, uploadVars, orphans, paths, copied, faults>>

\* The DELETEs of the orphans and the commit. Deleting a files row cascades to
\* the references and sync tasks that were inserted after the scan.
BulkCommit(d) ==
    /\ bpc[d] = "commit"
    /\ files' = files \ orphans[d]
    /\ refs' = {u \in refs \ doomed[d] : file[u] \notin orphans[d]}
    /\ location' = {l \in location : l[1] \notin orphans[d]}
    /\ tasks' = {t \in tasks : t.file \notin orphans[d]}
    /\ asked' = asked \cup doomed[d]
    /\ doomed' = [doomed EXCEPT ![d] = {}]
    /\ bpc' = [bpc EXCEPT ![d] = "cleanup"]
    /\ UNCHANGED <<object, uploadVars, orphans, paths, copied, faults>>

\* The transaction rolls back.
BulkAbort(d) ==
    /\ Fault
    /\ bpc[d] \in {"scan", "collect", "commit"}
    /\ doomed' = [doomed EXCEPT ![d] = {}]
    /\ paths' = [paths EXCEPT ![d] = {}]
    /\ bpc' = [bpc EXCEPT ![d] = "failed"]
    /\ UNCHANGED <<dbVars, object, uploadVars, orphans, copied, asked>>

\* backend.delete through the registry's own backend; an error is only logged,
\* and a process that dies leaves the rest.
BulkRemove(d) ==
    /\ bpc[d] = "cleanup"
    /\ \E x \in paths[d] :
         /\ paths' = [paths EXCEPT ![d] = @ \ {x}]
         /\ \/ object' = object \ {<<x[1], x[2], Default>>} /\ UNCHANGED faults
            \/ Fault /\ UNCHANGED object
    /\ UNCHANGED <<dbVars, uploadVars, bpc, doomed, orphans, copied, asked>>

BulkDone(d) ==
    /\ bpc[d] = "cleanup"
    /\ paths[d] = {}
    /\ bpc' = [bpc EXCEPT ![d] = "done"]
    /\ UNCHANGED <<dbVars, object, uploadVars, doomed, orphans, paths, copied, asked, faults>>

-----------------------------------------------------------------------------
(* The sync worker, for one task                                           *)

HasSource(t) ==
    /\ <<t.file, t.source>> \in location
    /\ <<ContentOf[t.file], t.source, ContainerOf[t.project]>> \in object

\* Mutant of SyncCopy: the target is the registry's own backend.
SyncCopy_DefaultContainer(t) ==
    /\ HasSource(t)
    /\ object' = object \cup {<<ContentOf[t.file], t.target, Default>>}
    /\ tasks' = tasks \ {t}
    /\ copied' = copied \cup {t}
    /\ UNCHANGED <<files, refs, location, uploadVars, bulkVars, asked, faults>>

SyncCopy(t) ==
    /\ HasSource(t)
    /\ object' = object \cup {<<ContentOf[t.file], t.target, ContainerOf[t.project]>>}
    /\ tasks' = tasks \ {t}
    /\ copied' = copied \cup {t}
    /\ UNCHANGED <<files, refs, location, uploadVars, bulkVars, asked, faults>>

\* The task fails for the last time.
SyncGiveUp(t) ==
    /\ \/ ~HasSource(t) /\ UNCHANGED faults
       \/ Fault
    /\ tasks' = tasks \ {t}
    /\ UNCHANGED <<files, refs, location, object, uploadVars, bulkVars, copied, asked>>

\* FileLocation::create fails on the foreign key when the file is gone; after a
\* database error the task is queued again.
SyncRecord(t) ==
    /\ copied' = copied \ {t}
    /\ \/ /\ t.file \in files
          /\ location' = location \cup {<<t.file, t.target>>}
          /\ UNCHANGED <<tasks, faults>>
       \/ /\ t.file \notin files
          /\ UNCHANGED <<location, tasks, faults>>
       \/ /\ t.file \in files
          /\ Fault
          /\ tasks' = tasks \cup {t}
          /\ UNCHANGED location
    /\ UNCHANGED <<files, refs, object, uploadVars, bulkVars, asked>>

-----------------------------------------------------------------------------
UploadStep(u) ==
    \/ FindByHash(u) \/ InsertFile(u) \/ Store(u) \/ Locate(u) \/ Link(u)
    \/ Scan(u) \/ Enqueue(u) \/ UploadError(u)

BulkStep(d) ==
    \/ BulkStart(d) \/ BulkScan(d) \/ BulkCollect(d) \/ BulkCommit(d)
    \/ BulkAbort(d) \/ BulkRemove(d) \/ BulkDone(d)

Sync ==
    \/ \E t \in tasks : SyncCopy(t) \/ SyncGiveUp(t)
    \/ \E t \in copied : SyncRecord(t)

Next ==
    \/ \E u \in Uploads : UploadStep(u)
    \/ \E p \in Projects, i \in Uploads : DeleteReference(p, i)
    \/ \E d \in Deletes : BulkStep(d)
    \/ Sync

Spec == Init /\ [][Next]_vars

\* Handlers run to their end and the workers keep polling; nobody has to delete
\* anything.
FairSpec ==
    /\ Spec
    /\ \A u \in Uploads : WF_vars(UploadStep(u))
    /\ WF_vars(Sync)

-----------------------------------------------------------------------------
(* Correctness properties                                                  *)

\* A file_locations row is never a lie: the storage holds the file's content in
\* some container, whatever uploads, sync workers and bulk deletes overlap.
LocationBacked ==
    \A l \in location :
        \E c \in Containers : <<ContentOf[l[1]], l[2], c>> \in object

\* A reference made by the upload that stored the file has its copy: row and
\* object, on the project's primary storage and in the project's container.
UploadedIsStored ==
    \A u \in refs :
        file[u] = u => <<u, Primary(u)>> \in location /\ MyObject(u) \in object

Served(u) ==
    \E s \in Storages :
        /\ <<file[u], s>> \in location
        /\ <<ContentOf[u], s, ContainerOf[ProjectOf[u]]>> \in object

\* A copy in the project's own container lasts as long as the reference: no
\* bulk delete, of this or another project, takes it away.
CopyStays ==
    [][\A u \in refs : Served(u) /\ u \in refs' => Served(u)']_vars

\* resolve_backends_for_location: while one container's projects have uploaded a
\* content, every location of a referenced file is readable through one of the
\* backends of its references' projects.
LocationResolvable ==
    \A l \in location :
        LET begun == {u \in Uploads : ContentOf[u] = ContentOf[l[1]] /\ pc[u] # "find"}
            users == {u \in refs : file[u] = l[1]} IN
        /\ users # {}
        /\ \A u, v \in begun : ContainerOf[ProjectOf[u]] = ContainerOf[ProjectOf[v]]
        => \E u \in users : <<ContentOf[u], l[2], ContainerOf[ProjectOf[u]]>> \in object

\* A finished upload's reference goes only when its own project deletes it.
NoReferenceLost ==
    \A u \in Uploads : pc[u] = "done" => u \in refs \cup asked

\* While nothing fails, a new file that stays referenced reaches every storage of
\* its project, whatever uploads of the same content and bulk deletes overlap.
EventuallyReplicated ==
    \A u \in Uploads :
        (pc[u] = "done" /\ file[u] = u) ~>
            \/ u \notin refs \/ faults > 0
            \/ \A s \in MyStorages(u) : <<u, s>> \in location
=============================================================================
