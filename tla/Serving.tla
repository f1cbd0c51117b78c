------------------------------ MODULE Serving ------------------------------
(***************************************************************************)
(* Handing a stored file out: downloads, shared links and exports, over    *)
(* the storage rows, the registry of backends each process keeps and the   *)
(* containers of the projects (src/services/shared_link_service.rs,        *)
(* src/services/file_service.rs, src/services/backend_resolver.rs,         *)
(* src/services/bulk_service.rs, src/storage/registry.rs,                  *)
(* src/api/storages.rs, src/api/projects.rs).                              *)
(*                                                                         *)
(* One file, which projects refer to and which is recorded as synced on    *)
(* some storages. A config says where the data of a storage is; a project  *)
(* has a container of its own in it, and Own is the container the config   *)
(* itself names. Every SQL statement, every hold of a lock and every call  *)
(* of a backend is a step; the reads of one resolution are one step.       *)
(***************************************************************************)
EXTENDS Integers, FiniteSets

CONSTANTS
    Nodes,      \* processes of the service
    Requests,   \* requests that are served at the same time
    Home,       \* Home[r]: the process that serves request r
    Projects, Storages,
    Configs, Broken,    \* storages.config; the ones create_backend refuses
    Containers, Own,
    Links, ProjectOf,   \* shared links, and the project each is made for
    Protected,          \* the links with a password
    Limit,              \* Limit[l]: max_downloads of link l (a link without it
                        \* is one whose limit is not reached)
    Jobs,       \* exports that are ever started
    None,
    FirstContainer, \* FirstContainer[p]: the container of p, until it is moved
    Workloads,  \* bound: the sets of kinds of operation that come together
    MaxEdits,   \* bound: changes by users and admins, expiries and crashes
    MaxFaults   \* bound: failing calls of backends and failing resolutions

Kinds == {"link", "read", "revoke", "project", "storage", "export", "crash",
          "search", "members"}  \* elsewhere: see Search and Permissions

ASSUME ConstantsAssumption ==
    /\ Home \in [Requests -> Nodes]
    /\ Broken \subseteq Configs /\ None \notin Configs
    /\ Own \notin Containers
    /\ ProjectOf \in [Links -> Projects]
    /\ Protected \subseteq Links /\ None \notin Links
    /\ Limit \in [Links -> Nat \ {0}]
    /\ None \notin Storages /\ None \notin Jobs /\ None \notin Nodes
    /\ FirstContainer \in [Projects -> Containers]
    /\ Workloads \subseteq SUBSET Kinds
    /\ MaxEdits \in Nat /\ MaxFaults \in Nat

VARIABLES
    row,        \* storages: config (None: no row) and enabled
    registry,   \* registry[n]: the config of the backend n holds for a storage
    node,       \* node[n]: down, starting or up
    loaded,     \* loaded[n]: the enabled rows the start of n has read
    container,  \* container[p]: the container of p in each storage
    references, \* the projects with a file_reference
    gone,       \* the projects with deleted_at
    objects,    \* where a copy of the file is: storage, config, container
    link,       \* shared_links: none, active, inactive or deleted
    expired,    \* the links whose expires_at has passed
    count,      \* shared_links.download_count
    tokens,     \* the links for which a valid download token is around
    job,        \* export_jobs and export_data, in the memory of a process
    lock,       \* lock[n]: the job that holds n's export_jobs, or None
    req,        \* req[r]: where request r is and what it has read
    work,       \* the kinds of operation that come in this behaviour
    edits, faults,
    served,     \* history: responses with the file, by link
    verified,   \* history: the links whose password was given
    handed,     \* history: how often the archive of a job was handed out
    moved,      \* history: a storage, container, project or reference was changed
    had,        \* history: the containers each project has had
    behind      \* history: what a process may hold an outdated backend for

storageVars == <<row, registry, node, loaded, behind>>
projectVars == <<container, references, gone, had>>
linkVars == <<link, expired, count, tokens, served, verified>>
exportVars == <<job, lock, handed>>
fixed == <<objects, work>>
vars == <<storageVars, projectVars, linkVars, exportVars, fixed, req, edits, faults, moved>>

NoRow == [config |-> None, enabled |-> FALSE]
Rows == [config : Configs, enabled : BOOLEAN] \cup {NoRow}
Places == Configs \X (Containers \cup {Own})

Steps == {"idle", "insert", "locate", "refs", "next", "fetch", "count", "failed",
          "write", "register", "take"}
\* on: the storage in hand, to: the row to write or register, from: the places
\* of the backends that were resolved.
Request == [at : Steps, link : Links \cup {None}, todo : SUBSET Storages,
            refs : SUBSET Projects, from : SUBSET Places,
            on : Storages \cup {None}, to : Rows, job : Jobs \cup {None}]
Idle == [at |-> "idle", link |-> None, todo |-> {}, refs |-> {}, from |-> {},
         on |-> None, to |-> NoRow, job |-> None]

Statuses == {"none", "started", "copy", "built", "completed", "failed", "lost"}
JobRec == [home : Nodes \cup {None}, on : Storages \cup {None}, status : Statuses,
           from : Configs \cup {None}, archive : BOOLEAN, data : BOOLEAN]

TypeOK ==
    /\ row \in [Storages -> Rows]
    /\ registry \in [Nodes -> [Storages -> Configs \cup {None}]]
    /\ node \in [Nodes -> {"down", "starting", "up"}]
    /\ loaded \in [Nodes -> [Storages -> Configs \cup {None}]]
    /\ container \in [Projects -> [Storages -> Containers]]
    /\ references \subseteq Projects /\ gone \subseteq Projects
    /\ objects \subseteq Storages \X Places
    /\ link \in [Links -> {"none", "active", "inactive", "deleted"}]
    /\ expired \subseteq Links /\ tokens \subseteq Protected
    /\ count \in [Links -> Nat]
    /\ job \in [Jobs -> JobRec]
    /\ lock \in [Nodes -> Jobs \cup {None}]
    /\ req \in [Requests -> Request]
    /\ work \subseteq Kinds
    /\ edits \in 0 .. MaxEdits /\ faults \in 0 .. MaxFaults
    /\ served \in [Links -> Nat] /\ handed \in [Jobs -> Nat]
    /\ verified \subseteq Links
    /\ moved \in BOOLEAN
    /\ had \subseteq Projects \X Storages \X Containers
    /\ behind \subseteq Nodes \X Storages

At(r, step) == req[r].at = step
Done(r) == req' = [req EXCEPT ![r] = Idle]
Up(r) == node[Home[r]] = "up"
Free(r, kind) == kind \in work /\ At(r, "idle") /\ Up(r)
Edit(kind) == kind \in work /\ edits < MaxEdits /\ edits' = edits + 1

\* None: no backend can be made of the config (or there is none).
CreateBackend(config) == IF config \in Broken THEN None ELSE config

\* What the registry of a process holds once a row was registered.
Entry(new, old) ==
    IF ~new.enabled THEN None
    ELSE IF CreateBackend(new.config) = None THEN old ELSE CreateBackend(new.config)

Synced == {o[1] : o \in objects}

\* A storage has one location of the file at most: in the container of the
\* project it was uploaded or copied for, or in the storage's own (sync_all).
Init ==
    /\ \E c \in Configs \ Broken, some \in SUBSET Storages :
          row = [s \in Storages |-> IF s \in some THEN [config |-> c, enabled |-> TRUE]
                                    ELSE NoRow]
    /\ registry = [n \in Nodes |-> [s \in Storages |-> row[s].config]]
    /\ node = [n \in Nodes |-> "up"]
    /\ loaded = registry
    /\ container = [p \in Projects |-> [s \in Storages |-> FirstContainer[p]]]
    /\ references = Projects /\ gone = {}
    /\ \E copies \in SUBSET {s \in Storages : row[s] # NoRow} :
       \E at \in [copies -> {FirstContainer[p] : p \in Projects} \cup {Own}] :
          objects = {<<s, <<row[s].config, at[s]>>>> : s \in copies}
    /\ link = [l \in Links |-> "none"]
    /\ expired = {} /\ tokens = {}
    /\ count = [l \in Links |-> 0]
    /\ job = [j \in Jobs |-> [home |-> None, on |-> None, status |-> "none",
                              from |-> None, archive |-> FALSE, data |-> FALSE]]
    /\ lock = [n \in Nodes |-> None]
    /\ req = [r \in Requests |-> Idle]
    /\ work \in Workloads
    /\ edits = 0 /\ faults = 0
    /\ served = [l \in Links |-> 0] /\ handed = [j \in Jobs |-> 0]
    /\ verified = {} /\ moved = FALSE /\ behind = {}
    /\ had = {<<p, s, container[p][s]>> : p \in Projects, s \in Storages}

-----------------------------------------------------------------------------
(* Shared links                                                            *)

\* create_link: the project refers to the file.
InProject(p) == p \in references

\* The project exists; the inputs were validated.
CreateLink(r, l) ==
    /\ Free(r, "link") /\ link[l] = "none"
    /\ ProjectOf[l] \notin gone /\ InProject(ProjectOf[l])
    /\ \A q \in Requests : req[q].link # l      \* a new link has a new id
    /\ req' = [req EXCEPT ![r] = [Idle EXCEPT !.at = "insert", !.link = l]]
    /\ UNCHANGED <<storageVars, projectVars, linkVars, exportVars, fixed, edits, faults, moved>>

InsertLink(r) ==
    /\ At(r, "insert")
    /\ link' = [link EXCEPT ![req[r].link] = "active"]
    /\ Done(r)
    /\ UNCHANGED <<storageVars, projectVars, expired, count, tokens, served, verified,
                   exportVars, fixed, edits, faults, moved>>

\* validate_link_accessible
Accessible(l) == link[l] = "active" /\ l \notin expired

\* The right password: a download token for this link.
VerifyPassword(r, l) ==
    /\ Free(r, "link") /\ Accessible(l) /\ l \in Protected
    /\ tokens' = tokens \cup {l}
    /\ verified' = verified \cup {l}
    /\ UNCHANGED <<storageVars, projectVars, link, expired, count, served, exportVars,
                   fixed, req, edits, faults, moved>>

\* Time passes: a link or a download token expires.
Expire(l) ==
    /\ \/ /\ link[l] # "none" /\ l \notin expired /\ Edit("revoke")
          /\ expired' = expired \cup {l}
          /\ UNCHANGED tokens
       \/ /\ l \in tokens /\ Edit("revoke")
          /\ tokens' = tokens \ {l}
          /\ UNCHANGED expired
    /\ UNCHANGED <<storageVars, projectVars, link, count, served, verified, exportVars,
                   fixed, req, faults, moved>>

\* By the creator or an admin.
DeactivateLink(l) ==
    /\ link[l] \in {"active", "inactive"} /\ Edit("revoke")
    /\ link' = [link EXCEPT ![l] = "inactive"]
    /\ UNCHANGED <<storageVars, projectVars, expired, count, tokens, served, verified,
                   exportVars, fixed, req, faults, moved>>

\* With the account of the creator (delete_by_user), or with the file.
DeleteLink(l) ==
    /\ link[l] \in {"active", "inactive"} /\ Edit("revoke")
    /\ link' = [link EXCEPT ![l] = "deleted"]
    /\ UNCHANGED <<storageVars, projectVars, expired, count, tokens, served, verified,
                   exportVars, fixed, req, faults, moved>>

\* Mutant of TokenAccepted: the link in the token is not looked at.
TokenAccepted_Any(l, t) == t \in tokens
\* validate_download_token: t is the link the token is for.
TokenAccepted(l, t) == t \in tokens /\ t = l

BelowLimit(l) == count[l] < Limit[l]

\* Mutant of DownloadLink: is_active is not looked at.
DownloadLink_AnyState(r, l) ==
    /\ Free(r, "link") /\ link[l] # "none" /\ l \notin expired
    /\ l \in Protected => \E t \in Links : TokenAccepted(l, t)
    /\ BelowLimit(l)
    /\ req' = [req EXCEPT ![r] = [Idle EXCEPT !.at = "locate", !.link = l]]
    /\ UNCHANGED <<storageVars, projectVars, linkVars, exportVars, fixed, edits, faults, moved>>

\* The checks on the link as it is now; nothing is counted yet.
DownloadLink(r, l) ==
    /\ Free(r, "link") /\ Accessible(l)
    /\ l \in Protected => \E t \in Links : TokenAccepted(l, t)
    /\ BelowLimit(l)
    /\ req' = [req EXCEPT ![r] = [Idle EXCEPT !.at = "locate", !.link = l]]
    /\ UNCHANGED <<storageVars, projectVars, linkVars, exportVars, fixed, edits, faults, moved>>

\* Mutant of IncrementCount: the limit was checked before.
IncrementCount_NoLimit(r) ==
    /\ At(r, "count")
    /\ LET l == req[r].link IN
       /\ count' = [count EXCEPT ![l] = count[l] + 1]
       /\ served' = [served EXCEPT ![l] = served[l] + 1]
    /\ Done(r)
    /\ UNCHANGED <<storageVars, projectVars, link, expired, tokens, verified, exportVars,
                   fixed, edits, faults, moved>>

\* increment_download_count: one UPDATE that checks the limit again. A deleted
\* link has no row left to update.
Counted(l) == link[l] # "deleted" /\ BelowLimit(l)

\* The file was read; it is only handed out when that could be counted.
IncrementCount(r) ==
    /\ At(r, "count")
    /\ LET l == req[r].link IN
       \/ /\ Counted(l)
          /\ count' = [count EXCEPT ![l] = count[l] + 1]
          /\ served' = [served EXCEPT ![l] = served[l] + 1]
       \/ ~Counted(l) /\ UNCHANGED <<count, served>>
    /\ Done(r)
    /\ UNCHANGED <<storageVars, projectVars, link, expired, tokens, verified, exportVars,
                   fixed, edits, faults, moved>>

-----------------------------------------------------------------------------
(* Reading the file, for a link or for a member of a project               *)

\* An admin passes the check of access whatever the references are.
DownloadFile(r) ==
    /\ Free(r, "read")
    /\ req' = [req EXCEPT ![r] = [Idle EXCEPT !.at = "locate"]]
    /\ UNCHANGED <<storageVars, projectVars, linkVars, exportVars, fixed, edits, faults, moved>>

\* find_for_file: synced locations on enabled storages.
Locations == {s \in Synced : row[s].enabled}

Locate(r) ==
    /\ At(r, "locate")
    /\ req' = [req EXCEPT ![r].at = IF Locations = {} THEN "failed" ELSE "refs",
                          ![r].todo = Locations]
    /\ UNCHANGED <<storageVars, projectVars, linkVars, exportVars, fixed, edits, faults, moved>>

\* Mutant of RefsFor: the references of every project.
RefsFor_All(l) == references
\* The references a download resolves with: a link has only its own project's.
RefsFor(l) == IF l = None THEN references ELSE references \cap {ProjectOf[l]}

ReadRefs(r) ==
    /\ At(r, "refs")
    /\ req' = [req EXCEPT ![r].at = "next", ![r].refs = RefsFor(req[r].link)]
    /\ UNCHANGED <<storageVars, projectVars, linkVars, exportVars, fixed, edits, faults, moved>>

\* resolve_project_backend for the references in refs, with the row's config: a
\* deleted project and a refused config give no backend.
ProjectPlaces(s, refs) ==
    {<<row[s].config, container[p][s]>> :
        p \in {q \in refs \ gone : CreateBackend(row[s].config) # None}}

\* The backend the registry of process n holds.
OwnPlaces(n, s) ==
    {<<c, Own>> : c \in {registry[n][s]} \ {None}}

\* Mutant of Backends: the registry's backend as soon as there is one.
Backends_Registry(n, s, refs) ==
    IF OwnPlaces(n, s) # {} THEN OwnPlaces(n, s) ELSE ProjectPlaces(s, refs)
\* resolve_backends_for_location
Backends(n, s, refs) ==
    IF ProjectPlaces(s, refs) # {} THEN ProjectPlaces(s, refs) ELSE OwnPlaces(n, s)

\* The next location, resolved for the references whose project, assignment and
\* backend could be had: a statement or a create_backend that fails is no error,
\* it leaves the reference out, and the read of the row all of them.
Resolve(r) ==
    /\ At(r, "next")
    /\ \/ \E s \in req[r].todo, refs \in SUBSET req[r].refs :
             /\ req' = [req EXCEPT ![r].at = "fetch", ![r].on = s,
                                   ![r].todo = req[r].todo \ {s},
                                   ![r].from = Backends(Home[r], s, refs)]
             /\ \/ refs = req[r].refs /\ UNCHANGED faults
                \/ refs # req[r].refs /\ faults < MaxFaults /\ faults' = faults + 1
       \/ /\ req[r].todo = {}
          /\ req' = [req EXCEPT ![r] = [Idle EXCEPT !.at = "failed", !.link = req[r].link]]
          /\ UNCHANGED faults
    /\ UNCHANGED <<storageVars, projectVars, linkVars, exportVars, fixed, edits, moved>>

Stored(s, place) == <<s, place>> \in objects

\* One of the backends has the file. A member's download ends with it.
Fetch(r) ==
    /\ At(r, "fetch")
    /\ \E b \in req[r].from :
          /\ Stored(req[r].on, b)
          /\ IF req[r].link = None THEN Done(r)
             ELSE req' = [req EXCEPT ![r].at = "count", ![r].from = {b},
                                     ![r].todo = {}, ![r].refs = {}]
    /\ UNCHANGED <<storageVars, projectVars, linkVars, exportVars, fixed, edits, faults, moved>>

\* No backend has it, or its call fails.
FetchFail(r) ==
    /\ At(r, "fetch")
    /\ \/ (\A b \in req[r].from : ~Stored(req[r].on, b)) /\ UNCHANGED faults
       \/ faults < MaxFaults /\ faults' = faults + 1
    /\ req' = [req EXCEPT ![r].at = "next", ![r].from = {}]
    /\ UNCHANGED <<storageVars, projectVars, linkVars, exportVars, fixed, edits, moved>>

\* The error response.
Fail(r) ==
    /\ At(r, "failed") /\ Done(r)
    /\ UNCHANGED <<storageVars, projectVars, linkVars, exportVars, fixed, edits, faults, moved>>

-----------------------------------------------------------------------------
(* Storages: the rows, and the registry of the process that serves an edit *)

\* Registrations of s under way in process n.
Registering(n, s) == {r \in Requests : Home[r] = n /\ At(r, "register") /\ req[r].on = s}

\* Every other process misses an edit served by n, and n itself may register
\* this one and an overlapping one in the opposite order.
Outdated(n, s) ==
    {<<m, s>> : m \in IF Registering(n, s) = {} THEN Nodes \ {n} ELSE Nodes}

\* The row is written, and its backend is to be registered.
PutRow(r, s, new) ==
    /\ row' = [row EXCEPT ![s] = new]
    /\ behind' = (behind \ {<<Home[r], s>>}) \cup Outdated(Home[r], s)
    /\ moved' = TRUE
    /\ req' = [req EXCEPT ![r] = [Idle EXCEPT !.at = "register", !.on = s, !.to = new]]

\* An enabled storage is only inserted when its backend can be made.
CreateStorage(r, s) ==
    /\ Free(r, "storage") /\ row[s] = NoRow /\ Edit("storage")
    /\ \E c \in Configs, on \in BOOLEAN :
          /\ on => c \notin Broken
          /\ PutRow(r, s, [config |-> c, enabled |-> on])
    /\ UNCHANGED <<registry, node, loaded, projectVars, linkVars, exportVars, fixed, faults>>

\* Storage::update reads the row and completes it with what is to be changed,
\* which may be any of its columns.
FindStorage(r, s) ==
    /\ Free(r, "storage") /\ row[s] # NoRow /\ Edit("storage")
    /\ \E c \in Configs, on \in BOOLEAN :
          req' = [req EXCEPT ![r] = [Idle EXCEPT !.at = "write", !.on = s,
                                     !.to = [config |-> c, enabled |-> on]]]
    /\ UNCHANGED <<storageVars, projectVars, linkVars, exportVars, fixed, faults, moved>>

\* The whole row is written back, and nothing has checked its config.
UpdateStorage(r) ==
    /\ At(r, "write")
    /\ PutRow(r, req[r].on, req[r].to)
    /\ UNCHANGED <<registry, node, loaded, projectVars, linkVars, exportVars, fixed, edits, faults>>

DisableStorage(r, s) ==
    /\ Free(r, "storage") /\ row[s] # NoRow /\ Edit("storage")
    /\ PutRow(r, s, [row[s] EXCEPT !.enabled = FALSE])
    /\ UNCHANGED <<registry, node, loaded, projectVars, linkVars, exportVars, fixed, faults>>

\* Mutant of Register: a disabled storage keeps its backend.
Register_Keeps(r) ==
    /\ At(r, "register")
    /\ LET s == req[r].on n == Home[r] new == req[r].to IN
       /\ registry' = [registry EXCEPT ![n][s] =
              IF new.enabled THEN Entry(new, registry[n][s]) ELSE registry[n][s]]
       /\ behind' = IF new.enabled /\ new.config \in Broken
                    THEN behind \cup {<<n, s>>} ELSE behind
    /\ Done(r)
    /\ UNCHANGED <<row, node, loaded, projectVars, linkVars, exportVars, fixed, edits,
                   faults, moved>>

\* In the registry of this process; a config no backend can be made of leaves
\* the old backend there.
Register(r) ==
    /\ At(r, "register")
    /\ LET s == req[r].on n == Home[r] new == req[r].to IN
       /\ registry' = [registry EXCEPT ![n][s] = Entry(new, registry[n][s])]
       /\ behind' = IF new.enabled /\ new.config \in Broken
                    THEN behind \cup {<<n, s>>} ELSE behind
    /\ Done(r)
    /\ UNCHANGED <<row, node, loaded, projectVars, linkVars, exportVars, fixed, edits,
                   faults, moved>>

\* A process ends; what it has in memory and its requests are lost.
Crash(n) ==
    /\ node[n] = "up" /\ Edit("crash")
    /\ node' = [node EXCEPT ![n] = "down"]
    /\ registry' = [registry EXCEPT ![n] = [s \in Storages |-> None]]
    /\ req' = [r \in Requests |-> IF Home[r] = n THEN Idle ELSE req[r]]
    /\ job' = [j \in Jobs |-> IF job[j].home = n
                              THEN [job[j] EXCEPT !.status = "lost", !.data = FALSE]
                              ELSE job[j]]
    /\ lock' = [lock EXCEPT ![n] = None]
    /\ UNCHANGED <<row, loaded, behind, projectVars, linkVars, handed, fixed, faults, moved>>

\* load_backends_from_db reads the enabled rows ...
Start(n) ==
    /\ node[n] = "down"
    /\ node' = [node EXCEPT ![n] = "starting"]
    /\ loaded' = [loaded EXCEPT ![n] =
                    [s \in Storages |-> IF row[s].enabled THEN row[s].config ELSE None]]
    /\ behind' = behind \ ({n} \X Storages)
    /\ UNCHANGED <<row, registry, projectVars, linkVars, exportVars, fixed, req, edits,
                   faults, moved>>

\* ... and registers a backend for each it can; then the process listens.
Listen(n) ==
    /\ node[n] = "starting"
    /\ node' = [node EXCEPT ![n] = "up"]
    /\ registry' = [registry EXCEPT ![n] =
                      [s \in Storages |-> CreateBackend(loaded[n][s])]]
    /\ behind' = behind \cup {<<n, s>> : s \in {t \in Storages : loaded[n][t] \in Broken}}
    /\ UNCHANGED <<row, loaded, projectVars, linkVars, exportVars, fixed, req, edits,
                   faults, moved>>

-----------------------------------------------------------------------------
(* Projects                                                                *)

\* A new slug: another container in every storage that has no override.
UpdateProject(p) ==
    /\ p \notin gone /\ Edit("project")
    /\ \E k \in [Storages -> Containers] :
          /\ container' = [container EXCEPT ![p] = k]
          /\ had' = had \cup {<<p, s, k[s]>> : s \in Storages}
    /\ moved' = TRUE
    /\ UNCHANGED <<storageVars, references, gone, linkVars, exportVars, fixed, req, faults>>

\* Another override, or the assignment is removed or made again with a new id.
UpdateAssignment(p, s) ==
    /\ p \notin gone /\ Edit("project")
    /\ \E k \in Containers :
          /\ container' = [container EXCEPT ![p][s] = k]
          /\ had' = had \cup {<<p, s, k>>}
    /\ moved' = TRUE
    /\ UNCHANGED <<storageVars, references, gone, linkVars, exportVars, fixed, req, faults>>

DeleteProject(p) ==
    /\ p \notin gone /\ Edit("project")
    /\ gone' = gone \cup {p}
    /\ moved' = TRUE
    /\ UNCHANGED <<storageVars, container, references, had, linkVars, exportVars, fixed, req, faults>>

DeleteReference(p) ==
    /\ InProject(p) /\ p \notin gone /\ Edit("project")
    /\ references' = references \ {p}
    /\ moved' = TRUE
    /\ UNCHANGED <<storageVars, container, gone, had, linkVars, exportVars, fixed, req,
                   faults>>

-----------------------------------------------------------------------------
(* Exports: a background task of one process fills an archive in memory    *)

SetJob(j, rec) == job' = [job EXCEPT ![j] = rec]

StartExport(r, s, j) ==
    /\ Free(r, "export") /\ row[s] # NoRow
    /\ job[j].status = "none" /\ lock[Home[r]] = None
    /\ SetJob(j, [job[j] EXCEPT !.home = Home[r], !.on = s, !.status = "started"])
    /\ UNCHANGED <<storageVars, projectVars, linkVars, lock, handed, fixed, req, edits,
                   faults, moved>>

\* Mutant of ExportBackend: without a backend the status is not set.
ExportBackend_NoFailure(j) ==
    LET c == registry[job[j].home][job[j].on] IN
    /\ job[j].status = "started" /\ c # None
    /\ SetJob(j, [job[j] EXCEPT !.status = "copy", !.from = c])
    /\ UNCHANGED <<storageVars, projectVars, linkVars, lock, handed, fixed, req, edits,
                   faults, moved>>

\* The locations are read and the backend is looked up.
ExportBackend(j) ==
    LET n == job[j].home c == registry[n][job[j].on] IN
    /\ job[j].status = "started"
    /\ IF c = None THEN lock[n] = None /\ SetJob(j, [job[j] EXCEPT !.status = "failed"])
       ELSE SetJob(j, [job[j] EXCEPT !.status = "copy", !.from = c])
    /\ UNCHANGED <<storageVars, projectVars, linkVars, lock, handed, fixed, req, edits,
                   faults, moved>>

\* A file that cannot be read is left out of the archive.
ExportCopy(j) ==
    /\ job[j].status = "copy"
    /\ LET there == Stored(job[j].on, <<job[j].from, Own>>) IN
       \/ /\ SetJob(j, [job[j] EXCEPT !.status = "built", !.archive = there])
          /\ UNCHANGED faults
       \/ /\ there /\ faults < MaxFaults /\ faults' = faults + 1
          /\ SetJob(j, [job[j] EXCEPT !.status = "built"])
    /\ UNCHANGED <<storageVars, projectVars, linkVars, lock, handed, fixed, req, edits, moved>>

\* Mutant of ExportDone: the lock on the jobs is not kept.
ExportDone_Unlocked(j) ==
    /\ job[j].status = "built" /\ lock[job[j].home] = None
    /\ SetJob(j, [job[j] EXCEPT !.status = "completed"])
    /\ UNCHANGED <<storageVars, projectVars, linkVars, lock, handed, fixed, req, edits,
                   faults, moved>>

\* The status is set under the lock of the jobs, which is kept ...
ExportDone(j) ==
    /\ job[j].status = "built" /\ lock[job[j].home] = None
    /\ SetJob(j, [job[j] EXCEPT !.status = "completed"])
    /\ lock' = [lock EXCEPT ![job[j].home] = j]
    /\ UNCHANGED <<storageVars, projectVars, linkVars, handed, fixed, req, edits, faults,
                   moved>>

\* ... until the archive is in export_data.
ExportStore(j) ==
    /\ \E n \in Nodes : lock[n] = j /\ lock' = [lock EXCEPT ![n] = None]
    /\ SetJob(j, [job[j] EXCEPT !.data = TRUE])
    /\ UNCHANGED <<storageVars, projectVars, linkVars, handed, fixed, req, edits, faults,
                   moved>>

\* get_export_data looks at the status: completed, in the memory of this process ...
ExportStatus(r, j) ==
    /\ Free(r, "export") /\ lock[Home[r]] = None
    /\ job[j].home = Home[r] /\ job[j].status = "completed"
    /\ req' = [req EXCEPT ![r] = [Idle EXCEPT !.at = "take", !.job = j]]
    /\ UNCHANGED <<storageVars, projectVars, linkVars, exportVars, fixed, edits, faults, moved>>

\* ... and removes the archive, if it is still there.
TakeArchive(r) ==
    /\ At(r, "take")
    /\ LET j == req[r].job IN
       \/ /\ job[j].data
          /\ SetJob(j, [job[j] EXCEPT !.data = FALSE])
          /\ handed' = [handed EXCEPT ![j] = handed[j] + 1]
       \/ ~job[j].data /\ UNCHANGED <<job, handed>>
    /\ Done(r)
    /\ UNCHANGED <<storageVars, projectVars, linkVars, lock, fixed, edits, faults, moved>>

-----------------------------------------------------------------------------
LinkStep(r) ==
    \/ \E l \in Links : CreateLink(r, l) \/ VerifyPassword(r, l) \/ DownloadLink(r, l)
    \/ InsertLink(r) \/ IncrementCount(r)

ReadStep(r) ==
    \/ DownloadFile(r) \/ Locate(r) \/ ReadRefs(r) \/ Resolve(r)
    \/ Fetch(r) \/ FetchFail(r) \/ Fail(r)

AdminStep(r) ==
    \/ \E s \in Storages : CreateStorage(r, s) \/ FindStorage(r, s) \/ DisableStorage(r, s)
    \/ UpdateStorage(r) \/ Register(r)
    \/ \E j \in Jobs : ExportStatus(r, j) \/ \E s \in Storages : StartExport(r, s, j)
    \/ TakeArchive(r)

JobStep(j) == ExportBackend(j) \/ ExportCopy(j) \/ ExportDone(j) \/ ExportStore(j)

Next ==
    \/ \E r \in Requests : LinkStep(r) \/ ReadStep(r) \/ AdminStep(r)
    \/ \E l \in Links : Expire(l) \/ DeactivateLink(l) \/ DeleteLink(l)
    \/ \E p \in Projects : UpdateProject(p) \/ DeleteProject(p) \/ DeleteReference(p)
    \/ \E p \in Projects, s \in Storages : UpdateAssignment(p, s)
    \/ \E n \in Nodes : Crash(n) \/ Start(n) \/ Listen(n)
    \/ \E j \in Jobs : JobStep(j)

Spec == Init /\ [][Next]_vars

\* A request that was accepted goes on.
GoesOn(r) == ~At(r, "idle") /\ (LinkStep(r) \/ ReadStep(r) \/ AdminStep(r))

\* The runtime polls every request and every background task.
Fairness ==
    /\ \A r \in Requests : WF_vars(GoesOn(r))
    /\ \A j \in Jobs : WF_vars(JobStep(j))

FairSpec == Spec /\ Fairness

-----------------------------------------------------------------------------
(* What handing out the file promises                                      *)

\* A link is never used more often than max_downloads says, however many
\* downloads check the limit before any of them is counted, and a download
\* that fails costs nothing (download_via_link).
QuotaExact == \A l \in Links : served[l] = count[l] /\ count[l] <= Limit[l]

\* A link as SharedLink sees it: an expired link is closed as a deactivated one
\* is, and a request that still has to insert its link is not a download of it.
State(l) ==
    IF Accessible(l) THEN "open"
    ELSE IF link[l] \in {"none", "deleted"} THEN link[l] ELSE "closed"
DownloadOf(r) == IF At(r, "insert") THEN None ELSE req[r].link
Contract == INSTANCE SharedLink WITH
    NoLink <- None, state <- [l \in Links |-> State(l)], given <- verified,
    inside <- [r \in Requests |-> DownloadOf(r)]

\* Handing out a link keeps what SharedLink promises, whatever is edited, fails or
\* ends meanwhile: downloads begin only through an open link with its password
\* and below its limit, each answer is counted, and a closed link stays closed
\* (create_link, download_via_link, deactivate_link).
KeepsContract == Contract!Spec

\* A protected link gives the file out only after its own password was given:
\* the token of another link does not do (validate_download_token).
PasswordGiven == \A l \in Protected : served[l] > 0 => l \in verified

\* A download through a link only reads containers its own project has had; the
\* storage's own container is read only after a storage, a container, a project
\* or a reference was changed, or a failure whose error the resolution drops
\* (the filter on the link's project in download_via_link, `if let Ok` and the
\* fallback in resolve_backends_for_location).
LinkStaysInProject ==
    \A r \in Requests : req[r].link # None => \A b \in req[r].from :
        IF b[2] = Own THEN moved \/ faults > 0
        ELSE <<ProjectOf[req[r].link], req[r].on, b[2]>> \in had

\* A download fails only after a backend call or a resolution failed, or after a
\* storage, a container, a project or a reference was changed, or when no copy is
\* in a container of a project it resolves with (resolve_backends_for_location).
FailureExplained ==
    \A r \in Requests : At(r, "failed") /\ ~moved /\ faults = 0 =>
        \A o \in objects : \A p \in RefsFor(req[r].link) :
            o[2] # <<row[o[1]].config, container[p][o[1]]>>

\* Outside a registration, a process holds the backend of the row for every
\* storage, unless another process served an edit, two edits overlapped, or no
\* backend could be made of the config (update_storage, load_backends_from_db).
RegistryCurrent ==
    \A n \in Nodes, s \in Storages :
        node[n] = "up" /\ <<n, s>> \notin behind /\ Registering(n, s) = {} =>
            registry[n][s] = IF row[s].enabled THEN row[s].config ELSE None

\* An archive is handed out at most once, and as soon as a client can see that
\* an export is completed its archive is there, until it is handed out
\* (start_export keeps the lock of the jobs while it stores the archive).
ArchiveKept ==
    \A j \in Jobs :
        /\ handed[j] <= 1
        /\ job[j].status = "completed" /\ (\A n \in Nodes : lock[n] # j) =>
              job[j].data \/ handed[j] = 1

\* Once a link is deactivated or deleted, the downloads that were under way end
\* and no other one begins (validate_link_accessible).
Revoked(l) == link[l] \in {"inactive", "deleted"}
RevocationHolds ==
    \A l \in Links : Revoked(l) ~> [](\A r \in Requests : req[r].link # l)

\* An export comes to an end, unless its process does (start_export).
ExportEnds ==
    \A j \in Jobs : job[j].status = "started" ~>
        job[j].status \in {"failed", "lost"} \/ job[j].data \/ handed[j] = 1
=============================================================================
