--------------------------- MODULE ServingProofs ---------------------------
(***************************************************************************)
(* Theorems about Serving, for any number of processes, requests, links,   *)
(* projects, storages and exports; about Permissions, for any number of    *)
(* accounts, projects, storages and writes under way; and about the        *)
(* answers of Search and Dashboard, for any tables, filters and inputs.    *)
(***************************************************************************)
EXTENDS Serving, Permissions, Dashboard, FiniteSetTheorems, SequenceTheorems,
        WellFoundedInduction, TLAPS

-----------------------------------------------------------------------------
(* Type correctness                                                        *)

\* The inductive form of TypeOK: a request that edits a storage knows which, and
\* an export that was started has a process and a storage.
TypeInv ==
    /\ TypeOK
    /\ \A r \in Requests : req[r].at \in {"write", "register"} => req[r].on \in Storages
    /\ \A j \in Jobs : job[j].status # "none" \/ job[j].home # None =>
          job[j].home \in Nodes /\ job[j].on \in Storages

\* Request r goes from what it has read to x; the others stay.
LEMMA Moves ==
    ASSUME TypeOK, NEW r \in Requests, NEW x \in Request, req' = [req EXCEPT ![r] = x]
    PROVE  /\ req' \in [Requests -> Request] /\ req'[r] = x
           /\ \A q \in Requests : q # r => req'[q] = req[q]
  BY DEF TypeOK

\* A step of a request that changes its own state, the counters and moved only.
LEMMA RequestFrame ==
    ASSUME TypeInv, NEW r \in Requests, NEW x \in Request, req' = [req EXCEPT ![r] = x],
           x.at \in {"write", "register"} => x.on \in Storages,
           UNCHANGED <<storageVars, projectVars, linkVars, exportVars, fixed>>,
           edits' \in 0 .. MaxEdits, faults' \in 0 .. MaxFaults, moved' \in BOOLEAN
    PROVE  TypeInv'
<1>1. TypeOK
  BY DEF TypeInv
<1>2. /\ req' \in [Requests -> Request] /\ req'[r] = x
      /\ \A q \in Requests : q # r => req'[q] = req[q]
  BY <1>1, Moves
<1>3. TypeOK'
  BY <1>1, <1>2 DEF TypeOK, storageVars, projectVars, linkVars, exportVars, fixed
<1> QED
  BY <1>2, <1>3 DEF TypeInv, exportVars

\* A step that leaves requests and exports alone.
LEMMA OtherFrame ==
    ASSUME TypeInv, TypeOK', UNCHANGED <<req, job>>
    PROVE  TypeInv'
  BY DEF TypeInv

\* What a row gives is a config of a backend, or none.
LEMMA BackendType ==
    ASSUME NEW c \in Configs \cup {None}
    PROVE  CreateBackend(c) \in Configs \cup {None} /\ (CreateBackend(c) # None => c \in Configs \ Broken)
  BY ConstantsAssumption DEF CreateBackend

\* The places a download tries are places.
LEMMA BackendsType ==
    ASSUME TypeOK, NEW n \in Nodes, NEW s \in Storages, NEW refs \in SUBSET Projects
    PROVE  Backends(n, s, refs) \in SUBSET Places
<1>1. row[s].config \in Configs \cup {None} /\ registry[n][s] \in Configs \cup {None}
  BY DEF TypeOK, Rows, NoRow
<1>2. ProjectPlaces(s, refs) \in SUBSET Places
  BY <1>1, BackendType DEF ProjectPlaces, Places, TypeOK
<1>3. OwnPlaces(n, s) \in SUBSET Places
  BY <1>1 DEF OwnPlaces, Places
<1> QED
  BY <1>2, <1>3 DEF Backends

LEMMA IdleType == Idle \in Request
  BY DEF Idle, Request, Steps, Rows, NoRow

\* Every step of a request on a link preserves TypeInv.
LEMMA LinkType ==
    ASSUME TypeInv, NEW r \in Requests, LinkStep(r)
    PROVE  TypeInv'
<1>0. TypeOK /\ req[r] \in Request
  BY DEF TypeInv, TypeOK
<1>1. ASSUME NEW l \in Links, CreateLink(r, l)
      PROVE  TypeInv'
  <2>1. [Idle EXCEPT !.at = "insert", !.link = l] \in Request
    BY DEF Idle, Request, Steps, Rows, NoRow
  <2> QED
    BY <1>0, <1>1, <2>1, RequestFrame DEF CreateLink, TypeOK, Idle
<1>2. ASSUME NEW l \in Links, DownloadLink(r, l)
      PROVE  TypeInv'
  <2>1. [Idle EXCEPT !.at = "locate", !.link = l] \in Request
    BY DEF Idle, Request, Steps, Rows, NoRow
  <2> QED
    BY <1>0, <1>2, <2>1, RequestFrame DEF DownloadLink, TypeOK, Idle
<1>3. ASSUME NEW l \in Links, VerifyPassword(r, l)
      PROVE  TypeInv'
  <2>1. TypeOK'
    BY <1>0, <1>3 DEF VerifyPassword, TypeOK, storageVars, projectVars, exportVars, fixed
  <2> QED
    BY <1>3, <2>1, OtherFrame DEF VerifyPassword, exportVars
<1>4. CASE InsertLink(r)
  <2>1. link' \in [Links -> {"none", "active", "inactive", "deleted"}]
    BY <1>0, <1>4 DEF InsertLink, TypeOK
  <2>2. /\ req' \in [Requests -> Request] /\ req'[r] = Idle
        /\ \A q \in Requests : q # r => req'[q] = req[q]
    BY <1>0, <1>4, IdleType, Moves DEF InsertLink, Done
  <2>3. TypeOK'
    BY <1>0, <1>4, <2>1, <2>2
       DEF InsertLink, TypeOK, storageVars, projectVars, exportVars, fixed
  <2> QED
    BY <1>4, <2>2, <2>3 DEF InsertLink, TypeInv, exportVars, Idle
<1>5. CASE IncrementCount(r)
  <2>1. count' \in [Links -> Nat] /\ served' \in [Links -> Nat]
    <3>1. count \in [Links -> Nat] /\ served \in [Links -> Nat]
      BY <1>0 DEF TypeOK
    <3>2. CASE UNCHANGED <<count, served>>
      BY <3>1, <3>2
    <3>3. CASE /\ count' = [count EXCEPT ![req[r].link] = count[req[r].link] + 1]
               /\ served' = [served EXCEPT ![req[r].link] = served[req[r].link] + 1]
      <4>1. CASE req[r].link \in Links
        BY <3>1, <3>3, <4>1
      <4>2. CASE req[r].link \notin Links
        BY <3>1, <3>3, <4>2
      <4> QED
        BY <4>1, <4>2
    <3> QED
      BY <1>5, <3>2, <3>3 DEF IncrementCount
  <2>2. /\ req' \in [Requests -> Request] /\ req'[r] = Idle
        /\ \A q \in Requests : q # r => req'[q] = req[q]
    BY <1>0, <1>5, IdleType, Moves DEF IncrementCount, Done
  <2>3. TypeOK'
    BY <1>0, <1>5, <2>1, <2>2
       DEF IncrementCount, TypeOK, storageVars, projectVars, exportVars, fixed
  <2> QED
    BY <1>5, <2>2, <2>3 DEF IncrementCount, TypeInv, exportVars, Idle
<1> QED
  BY <1>1, <1>2, <1>3, <1>4, <1>5 DEF LinkStep

\* Every step of a download preserves TypeInv.
LEMMA ReadType ==
    ASSUME TypeInv, NEW r \in Requests, ReadStep(r)
    PROVE  TypeInv'
<1>0. TypeOK /\ req[r] \in Request
  BY DEF TypeInv, TypeOK
<1>1. CASE DownloadFile(r)
  <2>1. [Idle EXCEPT !.at = "locate"] \in Request
    BY DEF Idle, Request, Steps, Rows, NoRow
  <2> QED
    BY <1>0, <1>1, <2>1, RequestFrame DEF DownloadFile, TypeOK, Idle
<1>2. CASE Locate(r)
  <2> DEFINE x == [req[r] EXCEPT !.at = IF Locations = {} THEN "failed" ELSE "refs",
                                 !.todo = Locations]
  <2>1. Locations \subseteq Storages
    BY <1>0 DEF Locations, Synced, TypeOK
  <2>2. x \in Request /\ x.at \in {"failed", "refs"}
    BY <1>0, <2>1 DEF Request, Steps
  <2>3. req' = [req EXCEPT ![r] = x]
    BY <1>0, <1>2 DEF Locate
  <2> QED
    BY <1>0, <1>2, <2>2, <2>3, RequestFrame DEF Locate, TypeOK
<1>3. CASE ReadRefs(r)
  <2> DEFINE x == [req[r] EXCEPT !.at = "next", !.refs = RefsFor(req[r].link)]
  <2>1. RefsFor(req[r].link) \subseteq Projects
    BY <1>0 DEF RefsFor, TypeOK
  <2>2. x \in Request /\ x.at = "next"
    BY <1>0, <2>1 DEF Request, Steps
  <2>3. req' = [req EXCEPT ![r] = x]
    BY <1>0, <1>3 DEF ReadRefs
  <2> QED
    BY <1>0, <1>3, <2>2, <2>3, RequestFrame DEF ReadRefs, TypeOK
<1>4. CASE Resolve(r)
  <2>0. faults' \in 0 .. MaxFaults
    <3>1. faults' = faults \/ (faults < MaxFaults /\ faults' = faults + 1)
      BY <1>4 DEF Resolve
    <3>2. faults \in 0 .. MaxFaults /\ MaxFaults \in Nat
      BY <1>0, ConstantsAssumption DEF TypeOK
    <3> QED BY ONLY <3>1, <3>2
  <2>1. ASSUME NEW s \in req[r].todo, NEW refs \in SUBSET req[r].refs,
               req' = [req EXCEPT ![r].at = "fetch", ![r].on = s,
                                  ![r].todo = req[r].todo \ {s},
                                  ![r].from = Backends(Home[r], s, refs)]
        PROVE  TypeInv'
    <3> DEFINE x == [req[r] EXCEPT !.at = "fetch", !.on = s, !.todo = req[r].todo \ {s},
                                   !.from = Backends(Home[r], s, refs)]
    <3>1. Home[r] \in Nodes /\ s \in Storages /\ refs \in SUBSET Projects
      BY <1>0, ConstantsAssumption DEF Request
    <3>2. x \in Request /\ x.at = "fetch"
      BY <1>0, <3>1, BackendsType DEF Request, Steps
    <3>3. req' = [req EXCEPT ![r] = x]
      BY <1>0, <2>1
    <3> QED
      BY <1>0, <1>4, <2>0, <3>2, <3>3, RequestFrame DEF Resolve, TypeOK
  <2>2. CASE req' = [req EXCEPT ![r] = [Idle EXCEPT !.at = "failed", !.link = req[r].link]]
    <3>1. [Idle EXCEPT !.at = "failed", !.link = req[r].link] \in Request
      BY <1>0 DEF Idle, Request, Steps, Rows, NoRow
    <3> QED
      BY <1>0, <1>4, <2>0, <2>2, <3>1, RequestFrame DEF Resolve, TypeOK, Idle
  <2> QED
    BY <1>4, <2>1, <2>2 DEF Resolve
<1>5. CASE Fetch(r)
  <2>1. CASE Done(r)
    BY <1>0, <1>5, <2>1, IdleType, RequestFrame DEF Fetch, Done, TypeOK, Idle
  <2>2. ASSUME NEW b \in req[r].from,
               req' = [req EXCEPT ![r].at = "count", ![r].from = {b},
                                  ![r].todo = {}, ![r].refs = {}]
        PROVE  TypeInv'
    <3> DEFINE x == [req[r] EXCEPT !.at = "count", !.from = {b}, !.todo = {}, !.refs = {}]
    <3>1. x \in Request /\ x.at = "count"
      BY <1>0 DEF Request, Steps
    <3>2. req' = [req EXCEPT ![r] = x]
      BY <1>0, <2>2
    <3> QED
      BY <1>0, <1>5, <3>1, <3>2, RequestFrame DEF Fetch, TypeOK
  <2> QED
    BY <1>5, <2>1, <2>2 DEF Fetch
<1>6. CASE FetchFail(r)
  <2> DEFINE x == [req[r] EXCEPT !.at = "next", !.from = {}]
  <2>1. x \in Request /\ x.at = "next"
    BY <1>0 DEF Request, Steps
  <2>2. req' = [req EXCEPT ![r] = x]
    BY <1>0, <1>6 DEF FetchFail
  <2>3. faults' \in 0 .. MaxFaults
    BY <1>0, <1>6, ConstantsAssumption DEF FetchFail, TypeOK
  <2> QED
    BY <1>0, <1>6, <2>1, <2>2, <2>3, RequestFrame DEF FetchFail, TypeOK
<1>7. CASE Fail(r)
  BY <1>0, <1>7, IdleType, RequestFrame DEF Fail, Done, TypeOK, Idle
<1> QED
  BY <1>1, <1>2, <1>3, <1>4, <1>5, <1>6, <1>7 DEF ReadStep

\* Writing a row of a storage, with a registration to come, keeps the types.
LEMMA PutRowType ==
    ASSUME TypeInv, NEW r \in Requests, NEW s \in Storages, NEW new \in Rows, PutRow(r, s, new),
           UNCHANGED <<registry, node, loaded, projectVars, linkVars, exportVars, fixed, faults>>,
           edits' \in 0 .. MaxEdits
    PROVE  TypeInv'
<1>0. TypeOK
  BY DEF TypeInv
<1> DEFINE x == [Idle EXCEPT !.at = "register", !.on = s, !.to = new]
<1>1. x \in Request /\ x.on = s
  BY DEF Idle, Request, Steps
<1>2. /\ req' \in [Requests -> Request] /\ req'[r] = x
      /\ \A q \in Requests : q # r => req'[q] = req[q]
  BY <1>0, <1>1, Moves DEF PutRow
<1>3. row' \in [Storages -> Rows] /\ moved' \in BOOLEAN
  BY <1>0 DEF PutRow, TypeOK
<1>4. behind' \subseteq Nodes \X Storages
  BY <1>0, ConstantsAssumption DEF PutRow, Outdated, TypeOK
<1>5. TypeOK'
  BY <1>0, <1>2, <1>3, <1>4 DEF TypeOK, projectVars, linkVars, exportVars, fixed
<1> QED
  BY <1>1, <1>2, <1>5 DEF TypeInv, exportVars

\* What a registration leaves in the registry.
LEMMA EntryType ==
    ASSUME NEW new \in Rows, NEW old \in Configs \cup {None}
    PROVE  Entry(new, old) \in Configs \cup {None}
  BY BackendType DEF Entry, Rows, NoRow

\* A change of the record of an export keeps the types.
LEMMA JobFrame ==
    ASSUME TypeInv, NEW j \in Jobs, NEW rec \in JobRec, SetJob(j, rec),
           rec.status # "none" \/ rec.home # None => rec.home \in Nodes /\ rec.on \in Storages,
           UNCHANGED <<storageVars, projectVars, linkVars, fixed, edits, moved, req>>,
           lock' \in [Nodes -> Jobs \cup {None}], handed' = handed, faults' \in 0 .. MaxFaults
    PROVE  TypeInv'
<1>0. TypeOK
  BY DEF TypeInv
<1>1. /\ job' \in [Jobs -> JobRec] /\ job'[j] = rec
      /\ \A k \in Jobs : k # j => job'[k] = job[k]
  BY <1>0 DEF SetJob, TypeOK
<1>2. TypeOK'
  BY <1>0, <1>1 DEF TypeOK, storageVars, projectVars, linkVars, fixed
<1> QED
  BY <1>1, <1>2 DEF TypeInv

\* Every step of an admin's request preserves TypeInv.
LEMMA AdminType ==
    ASSUME TypeInv, NEW r \in Requests, AdminStep(r)
    PROVE  TypeInv'
<1>0. /\ TypeOK /\ req[r] \in Request /\ Home[r] \in Nodes
      /\ \A s \in Storages : row[s] \in Rows
  BY ConstantsAssumption DEF TypeInv, TypeOK
<1>e. ASSUME NEW kind, Edit(kind)
      PROVE  edits' \in 0 .. MaxEdits
  BY <1>0, <1>e, ConstantsAssumption DEF Edit, TypeOK
<1>1. ASSUME NEW s \in Storages, CreateStorage(r, s)
      PROVE  TypeInv'
  <2>1. PICK c \in Configs, on \in BOOLEAN : PutRow(r, s, [config |-> c, enabled |-> on])
    BY <1>1 DEF CreateStorage
  <2>2. [config |-> c, enabled |-> on] \in Rows
    BY DEF Rows
  <2>3. edits' \in 0 .. MaxEdits
    BY <1>1, <1>e DEF CreateStorage
  <2> QED
    BY <1>1, <2>1, <2>2, <2>3, PutRowType DEF CreateStorage
<1>2. ASSUME NEW s \in Storages, FindStorage(r, s)
      PROVE  TypeInv'
  <2>1. PICK c \in Configs, on \in BOOLEAN :
             req' = [req EXCEPT ![r] = [Idle EXCEPT !.at = "write", !.on = s,
                                        !.to = [config |-> c, enabled |-> on]]]
    BY <1>2 DEF FindStorage
  <2> DEFINE x == [Idle EXCEPT !.at = "write", !.on = s, !.to = [config |-> c, enabled |-> on]]
  <2>2. x \in Request /\ x.on = s
    BY DEF Idle, Request, Steps, Rows
  <2>3. edits' \in 0 .. MaxEdits
    BY <1>2, <1>e DEF FindStorage
  <2>4. /\ UNCHANGED <<storageVars, projectVars, linkVars, exportVars, fixed>>
        /\ faults' \in 0 .. MaxFaults /\ moved' \in BOOLEAN
    BY <1>0, <1>2 DEF FindStorage, TypeOK
  <2> HIDE DEF x
  <2> QED
    BY <2>1, <2>2, <2>3, <2>4, RequestFrame DEF x
<1>3. ASSUME NEW s \in Storages, DisableStorage(r, s)
      PROVE  TypeInv'
  <2>1. [row[s] EXCEPT !.enabled = FALSE] \in Rows
    <3>1. row[s] \in [config : Configs, enabled : BOOLEAN]
      BY <1>0, <1>3 DEF DisableStorage, Rows
    <3> QED
      BY <3>1 DEF Rows
  <2>2. edits' \in 0 .. MaxEdits
    BY <1>3, <1>e DEF DisableStorage
  <2> QED
    BY <1>3, <2>1, <2>2, PutRowType DEF DisableStorage
<1>4. CASE UpdateStorage(r)
  <2>1. req[r].on \in Storages /\ req[r].to \in Rows
    BY <1>0, <1>4 DEF UpdateStorage, At, TypeInv, Request
  <2> QED
    BY <1>0, <1>4, <2>1, PutRowType DEF UpdateStorage, TypeOK
<1>5. CASE Register(r)
  <2>1. req[r].on \in Storages /\ req[r].to \in Rows
    BY <1>0, <1>5 DEF Register, At, TypeInv, Request
  <2>2. Entry(req[r].to, registry[Home[r]][req[r].on]) \in Configs \cup {None}
    BY <1>0, <2>1, EntryType DEF TypeOK
  <2>3. registry' = [registry EXCEPT ![Home[r]][req[r].on] =
                        Entry(req[r].to, registry[Home[r]][req[r].on])]
    BY <1>5 DEF Register
  <2>4. registry' \in [Nodes -> [Storages -> Configs \cup {None}]]
    BY <1>0, <2>2, <2>3 DEF TypeOK
  <2>5. behind' \subseteq Nodes \X Storages
    BY <1>0, <1>5, <2>1 DEF Register, TypeOK
  <2>6. /\ req' \in [Requests -> Request] /\ req'[r] = Idle
        /\ \A q \in Requests : q # r => req'[q] = req[q]
    BY <1>0, <1>5, IdleType, Moves DEF Register, Done
  <2>7. TypeOK'
    BY <1>0, <1>5, <2>4, <2>5, <2>6
       DEF Register, TypeOK, projectVars, linkVars, exportVars, fixed
  <2> QED
    BY <1>5, <2>6, <2>7 DEF Register, TypeInv, exportVars, Idle
<1>6. ASSUME NEW j \in Jobs, ExportStatus(r, j)
      PROVE  TypeInv'
  <2>1. [Idle EXCEPT !.at = "take", !.job = j] \in Request
    BY DEF Idle, Request, Steps, Rows, NoRow
  <2> QED
    BY <1>0, <1>6, <2>1, RequestFrame DEF ExportStatus, TypeOK, Idle
<1>7. ASSUME NEW j \in Jobs, NEW s \in Storages, StartExport(r, s, j)
      PROVE  TypeInv'
  <2> DEFINE rec == [job[j] EXCEPT !.home = Home[r], !.on = s, !.status = "started"]
  <2>1. rec \in JobRec /\ rec.home \in Nodes /\ rec.on \in Storages
    <3>1. job[j] \in JobRec /\ Home[r] \in Nodes
      BY <1>0 DEF TypeOK
    <3> QED
      BY <3>1 DEF JobRec, Statuses
  <2> QED
    BY <1>0, <1>7, <2>1, JobFrame DEF StartExport, TypeOK
<1>8. CASE TakeArchive(r)
  <2>1. /\ job' \in [Jobs -> JobRec] /\ handed' \in [Jobs -> Nat]
        /\ \A k \in Jobs : /\ job'[k].status = job[k].status /\ job'[k].home = job[k].home
                           /\ job'[k].on = job[k].on
    <3>1. job \in [Jobs -> JobRec] /\ handed \in [Jobs -> Nat]
      BY <1>0 DEF TypeOK
    <3>2. CASE UNCHANGED <<job, handed>>
      BY <3>1, <3>2
    <3>3. CASE /\ SetJob(req[r].job, [job[req[r].job] EXCEPT !.data = FALSE])
               /\ handed' = [handed EXCEPT ![req[r].job] = handed[req[r].job] + 1]
      <4>1. CASE req[r].job \in Jobs
        <5>0. job[req[r].job] \in JobRec
          BY <3>1, <4>1
        <5>1. [job[req[r].job] EXCEPT !.data = FALSE] \in JobRec
          BY <5>0 DEF JobRec
        <5>2. /\ job' = [job EXCEPT ![req[r].job] = [job[req[r].job] EXCEPT !.data = FALSE]]
              /\ handed' = [handed EXCEPT ![req[r].job] = handed[req[r].job] + 1]
          BY <3>3 DEF SetJob
        <5>3. job' \in [Jobs -> JobRec] /\ handed' \in [Jobs -> Nat]
          BY <3>1, <4>1, <5>1, <5>2
        <5>4. ASSUME NEW k \in Jobs
              PROVE  /\ job'[k].status = job[k].status /\ job'[k].home = job[k].home
                     /\ job'[k].on = job[k].on
          BY <3>1, <5>2 DEF JobRec
        <5> QED
          BY <5>3, <5>4
      <4>2. CASE req[r].job \notin Jobs
        BY <3>1, <3>3, <4>2 DEF SetJob
      <4> QED
        BY <4>1, <4>2
    <3> QED
      BY <1>8, <3>2, <3>3 DEF TakeArchive
  <2>2. /\ req' \in [Requests -> Request] /\ req'[r] = Idle
        /\ \A q \in Requests : q # r => req'[q] = req[q]
    BY <1>0, <1>8, IdleType, Moves DEF TakeArchive, Done
  <2>3. TypeOK'
    BY <1>0, <1>8, <2>1, <2>2
       DEF TakeArchive, TypeOK, storageVars, projectVars, linkVars, fixed
  <2> QED
    BY <2>1, <2>2, <2>3 DEF TypeInv, Idle
<1> QED
  BY <1>1, <1>2, <1>3, <1>4, <1>5, <1>6, <1>7, <1>8 DEF AdminStep

\* Every step of an export preserves TypeInv.
LEMMA JobType ==
    ASSUME TypeInv, NEW j \in Jobs, JobStep(j)
    PROVE  TypeInv'
<1>0. TypeOK /\ job[j] \in JobRec
  BY DEF TypeInv, TypeOK
<1>1. job[j].status # "none" \/ job[j].home # None =>
         job[j].home \in Nodes /\ job[j].on \in Storages
  BY DEF TypeInv
<1>2. CASE ExportBackend(j)
  <2> DEFINE c == registry[job[j].home][job[j].on]
  <2>1. job[j].home \in Nodes /\ job[j].on \in Storages
    BY <1>1, <1>2 DEF ExportBackend
  <2>2. c \in Configs \cup {None}
    BY <1>0, <2>1 DEF TypeOK
  <2>3. /\ [job[j] EXCEPT !.status = "failed"] \in JobRec
        /\ [job[j] EXCEPT !.status = "copy", !.from = c] \in JobRec
    BY <1>0, <2>2 DEF JobRec, Statuses
  <2>4. CASE SetJob(j, [job[j] EXCEPT !.status = "failed"])
    <3> DEFINE rec == [job[j] EXCEPT !.status = "failed"]
    <3>1. rec.home \in Nodes /\ rec.on \in Storages
      BY <1>0, <2>1 DEF JobRec
    <3> QED
      BY <1>0, <1>2, <2>3, <2>4, <3>1, JobFrame DEF ExportBackend, TypeOK
  <2>5. CASE SetJob(j, [job[j] EXCEPT !.status = "copy", !.from = c])
    <3> DEFINE rec == [job[j] EXCEPT !.status = "copy", !.from = c]
    <3>1. rec.home \in Nodes /\ rec.on \in Storages
      BY <1>0, <2>1 DEF JobRec
    <3> QED
      BY <1>0, <1>2, <2>3, <2>5, <3>1, JobFrame DEF ExportBackend, TypeOK
  <2> QED
    BY <1>2, <2>4, <2>5 DEF ExportBackend
<1>3. CASE ExportCopy(j)
  <2>1. job[j].home \in Nodes /\ job[j].on \in Storages
    BY <1>1, <1>3 DEF ExportCopy
  <2>2. faults' \in 0 .. MaxFaults
    BY <1>0, <1>3, ConstantsAssumption DEF ExportCopy, TypeOK
  <2>3. ASSUME NEW there \in BOOLEAN,
               SetJob(j, [job[j] EXCEPT !.status = "built", !.archive = there])
        PROVE  TypeInv'
    <3> DEFINE rec == [job[j] EXCEPT !.status = "built", !.archive = there]
    <3>1. rec \in JobRec /\ rec.home \in Nodes /\ rec.on \in Storages
      BY <1>0, <2>1 DEF JobRec, Statuses
    <3> QED
      BY <1>0, <1>3, <2>2, <2>3, <3>1, JobFrame DEF ExportCopy, TypeOK
  <2>4. CASE SetJob(j, [job[j] EXCEPT !.status = "built"])
    <3> DEFINE rec == [job[j] EXCEPT !.status = "built"]
    <3>1. rec \in JobRec /\ rec.home \in Nodes /\ rec.on \in Storages
      BY <1>0, <2>1 DEF JobRec, Statuses
    <3> QED
      BY <1>0, <1>3, <2>2, <2>4, <3>1, JobFrame DEF ExportCopy, TypeOK
  <2>5. Stored(job[j].on, <<job[j].from, Own>>) \in BOOLEAN
    BY DEF Stored
  <2> QED
    BY <1>3, <2>3, <2>4, <2>5 DEF ExportCopy
<1>4. CASE ExportDone(j)
  <2> DEFINE rec == [job[j] EXCEPT !.status = "completed"]
  <2>1. job[j].home \in Nodes /\ job[j].on \in Storages
    BY <1>1, <1>4 DEF ExportDone
  <2>2. rec \in JobRec /\ rec.home \in Nodes /\ rec.on \in Storages
    BY <1>0, <2>1 DEF JobRec, Statuses
  <2>3. lock' \in [Nodes -> Jobs \cup {None}]
    BY <1>0, <1>4 DEF ExportDone, TypeOK
  <2> QED
    BY <1>0, <1>4, <2>2, <2>3, JobFrame DEF ExportDone, TypeOK
<1>5. CASE ExportStore(j)
  <2> DEFINE rec == [job[j] EXCEPT !.data = TRUE]
  <2>1. /\ rec \in JobRec /\ rec.status = job[j].status
        /\ rec.home = job[j].home /\ rec.on = job[j].on
    BY <1>0 DEF JobRec
  <2>2. lock' \in [Nodes -> Jobs \cup {None}]
    BY <1>0, <1>5 DEF ExportStore, TypeOK
  <2> QED
    BY <1>0, <1>1, <1>5, <2>1, <2>2, JobFrame DEF ExportStore, TypeOK
<1> QED
  BY <1>2, <1>3, <1>4, <1>5 DEF JobStep

\* The crash of a process preserves TypeInv.
LEMMA CrashType ==
    ASSUME TypeInv, NEW n \in Nodes, Crash(n)
    PROVE  TypeInv'
<1>0. TypeOK
  BY DEF TypeInv
<1>1. /\ req' \in [Requests -> Request]
      /\ \A r \in Requests : req'[r] = Idle \/ req'[r] = req[r]
  BY <1>0, IdleType DEF Crash, TypeOK
<1>2. ASSUME NEW j \in Jobs
      PROVE  /\ job'[j] \in JobRec
             /\ job'[j].status # job[j].status => job[j].home # None
             /\ job'[j].home = job[j].home /\ job'[j].on = job[j].on
  <2>1. job[j] \in JobRec
    BY <1>0 DEF TypeOK
  <2>2. CASE job[j].home = n
    <3>1. job'[j] = [job[j] EXCEPT !.status = "lost", !.data = FALSE]
      BY <2>2 DEF Crash
    <3> QED
      BY <2>1, <2>2, <3>1, ConstantsAssumption DEF JobRec, Statuses
  <2>3. CASE job[j].home # n
    <3>1. job'[j] = job[j]
      BY <2>3 DEF Crash
    <3> QED
      BY <2>1, <3>1
  <2> QED
    BY <2>2, <2>3
<1>3. job' \in [Jobs -> JobRec]
  BY <1>2 DEF Crash
<1>4. /\ node' \in [Nodes -> {"down", "starting", "up"}]
      /\ registry' \in [Nodes -> [Storages -> Configs \cup {None}]]
      /\ lock' \in [Nodes -> Jobs \cup {None}]
  BY <1>0 DEF Crash, TypeOK
<1>5. edits' \in 0 .. MaxEdits
  <2>1. edits < MaxEdits /\ edits' = edits + 1
    BY DEF Crash, Edit
  <2> QED
    BY <1>0, <2>1, ConstantsAssumption DEF TypeOK
<1>6. TypeOK'
  BY <1>0, <1>1, <1>3, <1>4, <1>5 DEF Crash, TypeOK, projectVars, linkVars, fixed
<1> QED
  BY <1>1, <1>2, <1>6 DEF TypeInv, Idle

\* A change of a project preserves TypeInv.
LEMMA ProjectType ==
    ASSUME TypeInv, NEW p \in Projects,
           UpdateProject(p) \/ \E s \in Storages : UpdateAssignment(p, s)
    PROVE  TypeInv'
<1>0. TypeOK
  BY DEF TypeInv
<1>1. CASE UpdateProject(p)
  <2>1. PICK k \in [Storages -> Containers] :
             /\ container' = [container EXCEPT ![p] = k]
             /\ had' = had \cup {<<p, t, k[t]>> : t \in Storages}
    BY <1>1 DEF UpdateProject
  <2>2. /\ container' \in [Projects -> [Storages -> Containers]]
        /\ had' \subseteq Projects \X Storages \X Containers
    BY <1>0, <2>1 DEF TypeOK
  <2>3. edits < MaxEdits /\ edits' = edits + 1 /\ moved' = TRUE
    BY <1>1 DEF UpdateProject, Edit
  <2>4. edits' \in 0 .. MaxEdits
    BY <1>0, <2>3, ConstantsAssumption DEF TypeOK
  <2>5. TypeOK'
    BY <1>0, <1>1, <2>2, <2>3, <2>4
       DEF UpdateProject, TypeOK, storageVars, linkVars, exportVars, fixed
  <2> QED
    BY <1>1, <2>5, OtherFrame DEF UpdateProject, exportVars
<1>2. ASSUME NEW s \in Storages, UpdateAssignment(p, s)
      PROVE  TypeInv'
  <2>1. PICK k \in Containers :
             /\ container' = [container EXCEPT ![p][s] = k]
             /\ had' = had \cup {<<p, s, k>>}
    BY <1>2 DEF UpdateAssignment
  <2>2. /\ container' \in [Projects -> [Storages -> Containers]]
        /\ had' \subseteq Projects \X Storages \X Containers
    BY <1>0, <2>1 DEF TypeOK
  <2>3. edits < MaxEdits /\ edits' = edits + 1 /\ moved' = TRUE
    BY <1>2 DEF UpdateAssignment, Edit
  <2>4. edits' \in 0 .. MaxEdits
    BY <1>0, <2>3, ConstantsAssumption DEF TypeOK
  <2>5. TypeOK'
    BY <1>0, <1>2, <2>2, <2>3, <2>4
       DEF UpdateAssignment, TypeOK, storageVars, linkVars, exportVars, fixed
  <2> QED
    BY <1>2, <2>5, OtherFrame DEF UpdateAssignment, exportVars
<1> QED
  BY <1>1, <1>2

\* So does the end of a project or of a reference.
LEMMA DeleteType ==
    ASSUME TypeInv, NEW p \in Projects, DeleteProject(p) \/ DeleteReference(p)
    PROVE  TypeInv'
<1>0. TypeOK
  BY DEF TypeInv
<1>1. edits < MaxEdits /\ edits' = edits + 1 /\ moved' = TRUE /\ UNCHANGED <<req, job>>
  BY DEF DeleteProject, DeleteReference, Edit, exportVars
<1>2. edits' \in 0 .. MaxEdits
  BY <1>0, <1>1, ConstantsAssumption DEF TypeOK
<1>3. references' \subseteq Projects /\ gone' \subseteq Projects
  BY <1>0 DEF DeleteProject, DeleteReference, TypeOK
<1>4. UNCHANGED <<storageVars, container, had, linkVars, exportVars, fixed, faults>>
  BY DEF DeleteProject, DeleteReference
<1>5. TypeOK'
  BY <1>0, <1>1, <1>2, <1>3, <1>4 DEF TypeOK, storageVars, linkVars, exportVars, fixed
<1> QED
  BY <1>1, <1>5, OtherFrame

\* So does the end of a link or of a token.
LEMMA RevokeType ==
    ASSUME TypeInv, NEW l \in Links, Expire(l) \/ DeactivateLink(l) \/ DeleteLink(l)
    PROVE  TypeInv'
<1>0. TypeOK
  BY DEF TypeInv
<1>1. edits < MaxEdits /\ edits' = edits + 1 /\ UNCHANGED <<req, job>>
  BY DEF Expire, DeactivateLink, DeleteLink, Edit, exportVars
<1>2. edits' \in 0 .. MaxEdits
  BY <1>0, <1>1, ConstantsAssumption DEF TypeOK
<1>3. expired' \subseteq Links /\ tokens' \subseteq Protected
  BY <1>0 DEF Expire, DeactivateLink, DeleteLink, TypeOK
<1>4. link' \in [Links -> {"none", "active", "inactive", "deleted"}]
  BY <1>0 DEF Expire, DeactivateLink, DeleteLink, TypeOK
<1>5. UNCHANGED <<storageVars, projectVars, count, served, verified, exportVars, fixed,
                  faults, moved>>
  BY DEF Expire, DeactivateLink, DeleteLink
<1>6. TypeOK'
  BY <1>0, <1>1, <1>2, <1>3, <1>4, <1>5
     DEF TypeOK, storageVars, projectVars, exportVars, fixed
<1> QED
  BY <1>1, <1>6, OtherFrame

\* So does the start of a process.
LEMMA StartType ==
    ASSUME TypeInv, NEW n \in Nodes, Start(n) \/ Listen(n)
    PROVE  TypeInv'
<1>0. TypeOK
  BY DEF TypeInv
<1>1. \A s \in Storages : row[s] \in Rows
  BY <1>0 DEF TypeOK
<1>2. CASE Start(n)
  <2>1. \A s \in Storages : row[s].config \in Configs \cup {None}
    BY <1>1 DEF Rows, NoRow
  <2>2. /\ loaded' \in [Nodes -> [Storages -> Configs \cup {None}]]
        /\ node' \in [Nodes -> {"down", "starting", "up"}]
        /\ behind' \subseteq Nodes \X Storages
    BY <1>0, <1>2, <2>1 DEF Start, TypeOK
  <2>3. TypeOK'
    BY <1>0, <1>2, <2>2 DEF Start, TypeOK, projectVars, linkVars, exportVars, fixed
  <2> QED
    BY <1>2, <2>3, OtherFrame DEF Start, exportVars
<1>3. CASE Listen(n)
  <2>1. \A s \in Storages : CreateBackend(loaded[n][s]) \in Configs \cup {None}
    BY <1>0, BackendType DEF TypeOK
  <2>2. /\ registry' \in [Nodes -> [Storages -> Configs \cup {None}]]
        /\ node' \in [Nodes -> {"down", "starting", "up"}]
        /\ behind' \subseteq Nodes \X Storages
    BY <1>0, <1>3, <2>1 DEF Listen, TypeOK
  <2>3. TypeOK'
    BY <1>0, <1>3, <2>2 DEF Listen, TypeOK, projectVars, linkVars, exportVars, fixed
  <2> QED
    BY <1>3, <2>3, OtherFrame DEF Listen, exportVars
<1> QED
  BY <1>2, <1>3

\* Every step preserves TypeInv.
LEMMA TypeStep == TypeInv /\ [Next]_vars => TypeInv'
<1> SUFFICES ASSUME TypeInv, [Next]_vars PROVE TypeInv'
  OBVIOUS
<1>1. CASE UNCHANGED vars
  BY <1>1 DEF vars, storageVars, projectVars, linkVars, exportVars, fixed, TypeInv, TypeOK
<1>2. ASSUME NEW r \in Requests, LinkStep(r) \/ ReadStep(r) \/ AdminStep(r)
      PROVE  TypeInv'
  BY <1>2, LinkType, ReadType, AdminType
<1>3. ASSUME NEW l \in Links, Expire(l) \/ DeactivateLink(l) \/ DeleteLink(l)
      PROVE  TypeInv'
  BY <1>3, RevokeType
<1>4. ASSUME NEW p \in Projects, DeleteProject(p) \/ DeleteReference(p)
      PROVE  TypeInv'
  BY <1>4, DeleteType
<1>5. ASSUME NEW p \in Projects, NEW s \in Storages, UpdateAssignment(p, s)
      PROVE  TypeInv'
  BY <1>5, ProjectType
<1>6. ASSUME NEW n \in Nodes, Crash(n) \/ Start(n) \/ Listen(n)
      PROVE  TypeInv'
  BY <1>6, CrashType, StartType
<1>7. ASSUME NEW j \in Jobs, JobStep(j)
      PROVE  TypeInv'
  BY <1>7, JobType
<1>8. ASSUME NEW p \in Projects, UpdateProject(p)
      PROVE  TypeInv'
  BY <1>8, ProjectType
<1> QED
  BY <1>1, <1>2, <1>3, <1>4, <1>5, <1>6, <1>7, <1>8 DEF Next

\* The initial states are well typed.
LEMMA InitType == Init => TypeInv
<1> SUFFICES ASSUME Init PROVE TypeInv
  OBVIOUS
<1>1. PICK c \in Configs \ Broken, some \in SUBSET Storages :
           row = [s \in Storages |-> IF s \in some THEN [config |-> c, enabled |-> TRUE] ELSE NoRow]
  BY DEF Init
<1>2. row \in [Storages -> Rows] /\ \A s \in Storages : row[s].config \in Configs \cup {None}
  BY <1>1 DEF Rows, NoRow
<1>3. /\ registry \in [Nodes -> [Storages -> Configs \cup {None}]]
      /\ loaded \in [Nodes -> [Storages -> Configs \cup {None}]]
  BY <1>2 DEF Init
<1>4. objects \subseteq Storages \X Places
  <2>1. PICK stored \in SUBSET {s \in Storages : row[s] # NoRow} :
             \E at \in [stored -> {FirstContainer[p] : p \in Projects} \cup {Own}] :
                objects = {<<s, <<row[s].config, at[s]>>>> : s \in stored}
    BY DEF Init
  <2>2. PICK at \in [stored -> {FirstContainer[p] : p \in Projects} \cup {Own}] :
                objects = {<<s, <<row[s].config, at[s]>>>> : s \in stored}
    BY <2>1
  <2>3. \A s \in stored : row[s].config \in Configs
    BY <1>1, <2>1 DEF NoRow
  <2> QED
    BY <2>2, <2>3, ConstantsAssumption DEF Places
<1>5. /\ container \in [Projects -> [Storages -> Containers]]
      /\ had \subseteq Projects \X Storages \X Containers
  BY ConstantsAssumption DEF Init
<1>6. job \in [Jobs -> JobRec] /\ req \in [Requests -> Request] /\ work \subseteq Kinds
  BY IdleType, ConstantsAssumption DEF Init, JobRec, Statuses
<1>7. TypeOK
  <2>1. /\ references \subseteq Projects /\ gone \subseteq Projects
        /\ node \in [Nodes -> {"down", "starting", "up"}]
        /\ link \in [Links -> {"none", "active", "inactive", "deleted"}]
        /\ expired \subseteq Links /\ tokens \subseteq Protected /\ verified \subseteq Links
        /\ moved \in BOOLEAN /\ behind \subseteq Nodes \X Storages
    BY DEF Init
  <2>2. /\ count \in [Links -> Nat] /\ served \in [Links -> Nat] /\ handed \in [Jobs -> Nat]
        /\ lock \in [Nodes -> Jobs \cup {None}]
    BY DEF Init
  <2>3. edits \in 0 .. MaxEdits /\ faults \in 0 .. MaxFaults
    BY ConstantsAssumption DEF Init
  <2> QED
    BY <1>2, <1>3, <1>4, <1>5, <1>6, <2>1, <2>2, <2>3 DEF TypeOK
<1>8. \A j \in Jobs : job[j].status = "none" /\ job[j].home = None
  BY DEF Init
<1> QED
  BY <1>7, <1>8 DEF Init, TypeInv, Idle

\* Every reachable state is well typed: what requests, exports and the registries
\* hold are storages, projects, places and rows (the types of the handlers).
THEOREM TypeCorrect == Spec => []TypeOK
<1>1. Init => TypeInv
  BY InitType
<1>2. TypeInv /\ [Next]_vars => TypeInv'
  BY TypeStep
<1>3. TypeInv => TypeOK
  BY DEF TypeInv
<1> QED
  BY <1>1, <1>2, <1>3, PTL DEF Spec

-----------------------------------------------------------------------------
(* Links                                                                   *)

\* Storages whose row gives a backend.
Usable == {s \in Storages : row[s].config \in Configs \ Broken}

\* Something was changed or has failed, which lets a download through a link
\* fall back on the storage's own container.
Excused == moved \/ faults > 0

\* No step takes the excuse away.
LEMMA ExcuseStays ==
    ASSUME TypeInv, [Next]_vars
    PROVE  Excused => Excused'
<1>0. faults \in Nat /\ moved \in BOOLEAN
  BY DEF TypeInv, TypeOK
<1>a. ASSUME UNCHANGED <<faults, moved>> PROVE Excused => Excused'
  BY <1>a DEF Excused
<1>b. ASSUME moved' PROVE Excused => Excused'
  BY <1>b DEF Excused
<1>c. ASSUME faults' = faults + 1 PROVE Excused => Excused'
  BY <1>0, <1>c DEF Excused
<1>1. CASE UNCHANGED vars
  BY <1>a, <1>1 DEF vars
<1>2. ASSUME NEW r \in Requests, LinkStep(r) PROVE Excused => Excused'
  BY <1>a, <1>2 DEF LinkStep, CreateLink, VerifyPassword, DownloadLink, InsertLink, IncrementCount
<1>3. ASSUME NEW r \in Requests, ReadStep(r) PROVE Excused => Excused'
  <2>1. UNCHANGED <<faults, moved>> \/ faults' = faults + 1
    BY <1>3 DEF ReadStep, DownloadFile, Locate, ReadRefs, Resolve, Fetch, FetchFail, Fail
  <2> QED BY <1>a, <1>c, <2>1
<1>4. ASSUME NEW r \in Requests, AdminStep(r) PROVE Excused => Excused'
  <2>1. UNCHANGED <<faults, moved>> \/ moved'
    BY <1>4 DEF AdminStep, CreateStorage, FindStorage, DisableStorage, UpdateStorage, PutRow,
       Register, ExportStatus, StartExport, TakeArchive
  <2> QED BY <1>a, <1>b, <2>1
<1>5. ASSUME NEW l \in Links, Expire(l) \/ DeactivateLink(l) \/ DeleteLink(l)
      PROVE  Excused => Excused'
  BY <1>a, <1>5 DEF Expire, DeactivateLink, DeleteLink
<1>6. ASSUME NEW p \in Projects, UpdateProject(p) \/ DeleteProject(p) \/ DeleteReference(p)
      PROVE  Excused => Excused'
  BY <1>b, <1>6 DEF UpdateProject, DeleteProject, DeleteReference
<1>7. ASSUME NEW p \in Projects, NEW s \in Storages, UpdateAssignment(p, s)
      PROVE  Excused => Excused'
  BY <1>b, <1>7 DEF UpdateAssignment
<1>8. ASSUME NEW n \in Nodes, Crash(n) \/ Start(n) \/ Listen(n) PROVE Excused => Excused'
  BY <1>a, <1>8 DEF Crash, Start, Listen
<1>9. ASSUME NEW j \in Jobs, JobStep(j) PROVE Excused => Excused'
  <2>1. UNCHANGED <<faults, moved>> \/ faults' = faults + 1
    BY <1>9 DEF JobStep, ExportBackend, ExportCopy, ExportDone, ExportStore
  <2> QED BY <1>a, <1>c, <2>1
<1> QED BY <1>1, <1>2, <1>3, <1>4, <1>5, <1>6, <1>7, <1>8, <1>9 DEF Next

\* What a request knows of the link it serves: its password was given, the
\* references it read are those of the link's project, and the places it reads
\* from are that project's, or it has an excuse; as long as nothing was changed
\* the reference is there and every location has a backend.
Knows(x) ==
    /\ x.link \in Protected /\ x.at # "insert" => x.link \in verified
    /\ x.link # None => x.refs \subseteq {ProjectOf[x.link]}
    /\ x.link # None => \A b \in x.from :
          IF b[2] = Own THEN Excused ELSE <<ProjectOf[x.link], x.on, b[2]>> \in had
    /\ ~moved => x.todo \subseteq Usable
    /\ ~moved /\ x.link # None /\ x.at \in {"next", "fetch"} => x.refs = {ProjectOf[x.link]}

LinkInv ==
    /\ QuotaExact /\ PasswordGiven
    /\ tokens \subseteq verified
    /\ \A r \in Requests : Knows(req[r])
    /\ \A p \in Projects, s \in Storages : <<p, s, container[p][s]>> \in had
    /\ ~moved => references = Projects /\ gone = {} /\ Synced \subseteq Usable

LEMMA KnowsIdle == Knows(Idle)
  BY ConstantsAssumption DEF Knows, Idle

\* What a request knows stays true while nothing is forgotten.
LEMMA KnowsFrame ==
    ASSUME NEW x \in Request, Knows(x), verified \subseteq verified', had \subseteq had',
           moved => moved', Excused => Excused', ~moved' => row' = row
    PROVE  Knows(x)'
<1>1. x.link \in Protected /\ x.at # "insert" => x.link \in verified'
  BY DEF Knows
<1>2. x.link # None => x.refs \subseteq {ProjectOf[x.link]}
  BY DEF Knows
<1>3. x.link # None => \A b \in x.from :
          IF b[2] = Own THEN Excused' ELSE <<ProjectOf[x.link], x.on, b[2]>> \in had'
  BY DEF Knows
<1>4. ~moved' => x.todo \subseteq Usable'
  BY DEF Knows, Usable
<1>5. ~moved' /\ x.link # None /\ x.at \in {"next", "fetch"} => x.refs = {ProjectOf[x.link]}
  BY DEF Knows
<1> QED
  BY <1>1, <1>2, <1>3, <1>4, <1>5 DEF Knows

\* A request that moves on and knows what it has to.
LEMMA LinkMove ==
    ASSUME TypeInv, LinkInv, Excused => Excused', NEW r \in Requests, NEW x \in Request,
           req' = [req EXCEPT ![r] = x], Knows(x) \/ Knows(x)',
           UNCHANGED <<row, projectVars, count, tokens, served, verified, objects, moved>>
    PROVE  LinkInv'
<1>1. /\ req'[r] = x /\ \A q \in Requests : q # r => req'[q] = req[q]
  BY Moves DEF TypeInv
<1>2. ASSUME NEW q \in Requests
      PROVE  Knows(req[q])'
  <2>1. PICK y \in Request : y = req'[q] /\ (Knows(y) \/ Knows(y)')
    <3>1. CASE q = r
      BY <1>1, <3>1
    <3>2. CASE q # r
      <4>1. req[q] \in Request /\ Knows(req[q]) /\ req'[q] = req[q]
        BY <1>1, <3>2 DEF LinkInv, TypeInv, TypeOK
      <4> QED
        BY <4>1
    <3> QED
      BY <3>1, <3>2
  <2>2. Knows(y)'
    BY <2>1, KnowsFrame DEF projectVars
  <2> QED
    BY <2>1, <2>2 DEF Knows
<1> QED
  BY <1>2 DEF LinkInv, QuotaExact, PasswordGiven, projectVars, Synced, Usable

\* A step that leaves the requests alone and forgets nothing.
LEMMA LinkFrame ==
    ASSUME TypeInv, LinkInv, Excused => Excused', UNCHANGED <<req, count, served>>,
           verified \subseteq verified', tokens' \subseteq verified', had \subseteq had',
           moved => moved', ~moved' => UNCHANGED <<row, references, gone, objects>>,
           (\A p \in Projects, s \in Storages : <<p, s, container[p][s]>> \in had)'
    PROVE  LinkInv'
<1>1. ASSUME NEW q \in Requests
      PROVE  Knows(req[q])'
  <2>1. PICK x \in Request : x = req[q] /\ Knows(x)
    <3>1. req[q] \in Request /\ Knows(req[q])
      BY DEF LinkInv, TypeInv, TypeOK
    <3> QED
      BY <3>1
  <2>2. Knows(x)'
    BY <2>1, KnowsFrame
  <2> QED
    BY <2>1, <2>2 DEF Knows
<1> QED
  BY <1>1 DEF LinkInv, QuotaExact, PasswordGiven, Synced, Usable

\* The places a request on a link finds are those of the link's project, or the
\* storage's own after something was changed or a reference was left out.
LEMMA PlacesKnown ==
    ASSUME TypeInv, LinkInv, NEW r \in Requests, At(r, "next"), req[r].link # None,
           NEW s \in req[r].todo, NEW refs \in SUBSET req[r].refs,
           NEW b \in Backends(Home[r], s, refs)
    PROVE  IF b[2] = Own THEN moved \/ refs # req[r].refs
           ELSE <<ProjectOf[req[r].link], s, b[2]>> \in had
<1>1. /\ TypeOK /\ Knows(req[r]) /\ req[r] \in Request
      /\ s \in Storages /\ ProjectOf[req[r].link] \in Projects
  BY ConstantsAssumption DEF TypeInv, LinkInv, TypeOK, Request
<1>2. CASE ProjectPlaces(s, refs) # {}
  <2>1. PICK p \in refs : b = <<row[s].config, container[p][s]>>
    BY <1>2 DEF Backends, ProjectPlaces
  <2>2. p = ProjectOf[req[r].link] /\ b[2] = container[p][s]
    BY <1>1, <2>1 DEF Knows
  <2>3. b[2] \in Containers /\ <<p, s, b[2]>> \in had
    BY <1>1, <2>2 DEF LinkInv, TypeOK
  <2> QED
    BY <2>2, <2>3, ConstantsAssumption
<1>3. CASE ProjectPlaces(s, refs) = {}
  <2>1. b[2] = Own
    BY <1>3 DEF Backends, OwnPlaces
  <2>2. ASSUME ~moved, refs = req[r].refs
        PROVE  FALSE
    <3>1. /\ refs = {ProjectOf[req[r].link]} /\ gone = {}
          /\ row[s].config \in Configs \ Broken
      BY <1>1, <2>2 DEF Knows, LinkInv, At, Usable
    <3>2. CreateBackend(row[s].config) # None
      BY <3>1, ConstantsAssumption DEF CreateBackend
    <3>3. <<row[s].config, container[ProjectOf[req[r].link]][s]>> \in ProjectPlaces(s, refs)
      BY <3>1, <3>2 DEF ProjectPlaces
    <3> QED
      BY <1>3, <3>3
  <2> QED
    BY <2>1, <2>2
<1> QED
  BY <1>2, <1>3

\* Every step of a download preserves LinkInv.
LEMMA ReadKeeps ==
    ASSUME TypeInv, LinkInv, Excused => Excused', NEW r \in Requests, ReadStep(r)
    PROVE  LinkInv'
<1>0. TypeOK /\ req[r] \in Request /\ Knows(req[r])
  BY DEF TypeInv, TypeOK, LinkInv
<1>u. UNCHANGED <<row, projectVars, count, tokens, served, verified, objects, moved>>
  BY DEF ReadStep, DownloadFile, Locate, ReadRefs, Resolve, Fetch, FetchFail, Fail,
         storageVars, linkVars, fixed
<1>1. CASE DownloadFile(r)
  <2> DEFINE x == [Idle EXCEPT !.at = "locate"]
  <2>1. x \in Request /\ Knows(x)
    BY ConstantsAssumption DEF Idle, Request, Steps, Rows, NoRow, Knows
  <2> QED
    BY <1>1, <1>u, <2>1, LinkMove DEF DownloadFile
<1>2. CASE Locate(r)
  <2> DEFINE x == [req[r] EXCEPT !.at = IF Locations = {} THEN "failed" ELSE "refs",
                                 !.todo = Locations]
  <2>1. Locations \subseteq Storages /\ (~moved => Locations \subseteq Usable)
    BY <1>0 DEF Locations, Synced, TypeOK, LinkInv
  <2>2. /\ x \in Request /\ x.at \in {"failed", "refs"} /\ x.todo = Locations
        /\ x.link = req[r].link /\ x.refs = req[r].refs /\ x.from = req[r].from
        /\ x.on = req[r].on
    BY <1>0, <2>1 DEF Request, Steps
  <2>3. Knows(x)
    BY <1>0, <1>2, <2>1, <2>2 DEF Knows, Locate, At
  <2>4. req' = [req EXCEPT ![r] = x]
    BY <1>0, <1>2 DEF Locate
  <2> QED
    BY <1>u, <2>2, <2>3, <2>4, LinkMove
<1>3. CASE ReadRefs(r)
  <2> DEFINE x == [req[r] EXCEPT !.at = "next", !.refs = RefsFor(req[r].link)]
  <2>1. RefsFor(req[r].link) \subseteq Projects
    BY <1>0 DEF RefsFor, TypeOK
  <2>2. /\ x \in Request /\ x.at = "next" /\ x.todo = req[r].todo
        /\ x.link = req[r].link /\ x.refs = RefsFor(req[r].link) /\ x.from = req[r].from
        /\ x.on = req[r].on
    BY <1>0, <2>1 DEF Request, Steps
  <2>3. x.link # None => x.refs \subseteq {ProjectOf[x.link]}
    BY <2>2 DEF RefsFor
  <2>4. ~moved /\ x.link # None => x.refs = {ProjectOf[x.link]}
    BY <1>0, <2>2, ConstantsAssumption DEF RefsFor, LinkInv, Request
  <2>5. Knows(x)
    BY <1>0, <1>3, <2>2, <2>3, <2>4 DEF Knows, ReadRefs, At
  <2>6. req' = [req EXCEPT ![r] = x]
    BY <1>0, <1>3 DEF ReadRefs
  <2> QED
    BY <1>u, <2>2, <2>5, <2>6, LinkMove
<1>4. CASE Resolve(r)
  <2>1. ASSUME NEW s \in req[r].todo, NEW refs \in SUBSET req[r].refs,
               req' = [req EXCEPT ![r].at = "fetch", ![r].on = s,
                                  ![r].todo = req[r].todo \ {s},
                                  ![r].from = Backends(Home[r], s, refs)],
               refs = req[r].refs \/ faults' = faults + 1
        PROVE  LinkInv'
    <3> DEFINE y == [req[r] EXCEPT !.at = "fetch", !.on = s, !.todo = req[r].todo \ {s},
                                   !.from = Backends(Home[r], s, refs)]
    <3>1. Home[r] \in Nodes /\ s \in Storages /\ refs \in SUBSET Projects
      BY <1>0, ConstantsAssumption DEF Request
    <3>2. /\ y \in Request /\ y.at = "fetch" /\ y.todo = req[r].todo \ {s} /\ y.on = s
          /\ y.link = req[r].link /\ y.refs = req[r].refs
          /\ y.from = Backends(Home[r], s, refs)
      BY <1>0, <3>1, BackendsType DEF Request, Steps
    <3>3. req' = [req EXCEPT ![r] = y]
      BY <1>0, <2>1
    <3> HIDE DEF y
    <3> PICK x : x = y
      OBVIOUS
    <3>4. moved \/ refs # req[r].refs => Excused'
      BY <1>0, <1>u, <2>1 DEF TypeOK, Excused
    <3>5. x.link # None => \A b \in x.from :
             IF b[2] = Own THEN Excused' ELSE <<ProjectOf[x.link], s, b[2]>> \in had'
      <4>1. At(r, "next")
        BY <1>4 DEF Resolve
      <4>2. ASSUME req[r].link # None, NEW b \in Backends(Home[r], s, refs)
            PROVE  IF b[2] = Own THEN moved \/ refs # req[r].refs
                   ELSE <<ProjectOf[req[r].link], s, b[2]>> \in had
        BY <4>1, <4>2, PlacesKnown
      <4> QED
        BY <1>u, <3>2, <3>4, <4>2 DEF projectVars
    <3>6. Knows(x)'
      <4>1. x.link \in Protected /\ x.at # "insert" => x.link \in verified'
        BY <1>0, <1>u, <1>4, <3>2 DEF Knows, Resolve, At
      <4>2. x.link # None => x.refs \subseteq {ProjectOf[x.link]}
        BY <1>0, <3>2 DEF Knows
      <4>3. ~moved' => x.todo \subseteq Usable'
        BY <1>0, <1>u, <3>2 DEF Knows, Usable
      <4>4. ~moved' /\ x.link # None => x.refs = {ProjectOf[x.link]}
        <5>1. req[r].at = "next"
          BY <1>4 DEF Resolve, At
        <5>2. ~moved /\ req[r].link # None => req[r].refs = {ProjectOf[req[r].link]}
          BY <1>0, <5>1 DEF Knows
        <5> QED BY <1>u, <3>2, <5>2
      <4> QED
        BY <3>2, <3>5, <4>1, <4>2, <4>3, <4>4 DEF Knows
    <3> QED
      BY <1>u, <3>2, <3>3, <3>6, LinkMove
  <2>2. CASE req' = [req EXCEPT ![r] = [Idle EXCEPT !.at = "failed", !.link = req[r].link]]
    <3> DEFINE x == [Idle EXCEPT !.at = "failed", !.link = req[r].link]
    <3>1. x \in Request
      BY <1>0 DEF Idle, Request, Steps, Rows, NoRow
    <3>2. Knows(x)
      BY <1>0, <1>4 DEF Knows, Resolve, At, Idle
    <3> QED
      BY <1>u, <2>2, <3>1, <3>2, LinkMove
  <2>3. \/ \E s \in req[r].todo, refs \in SUBSET req[r].refs :
              /\ req' = [req EXCEPT ![r].at = "fetch", ![r].on = s,
                                    ![r].todo = req[r].todo \ {s},
                                    ![r].from = Backends(Home[r], s, refs)]
              /\ refs = req[r].refs \/ faults' = faults + 1
        \/ req' = [req EXCEPT ![r] = [Idle EXCEPT !.at = "failed", !.link = req[r].link]]
    BY <1>4 DEF Resolve
  <2> QED
    BY <2>1, <2>2, <2>3
<1>5. CASE Fetch(r)
  <2>1. CASE Done(r)
    BY <1>u, <2>1, IdleType, KnowsIdle, LinkMove DEF Done
  <2>2. ASSUME NEW b \in req[r].from,
               req' = [req EXCEPT ![r].at = "count", ![r].from = {b},
                                  ![r].todo = {}, ![r].refs = {}]
        PROVE  LinkInv'
    <3> DEFINE x == [req[r] EXCEPT !.at = "count", !.from = {b}, !.todo = {}, !.refs = {}]
    <3>1. /\ x \in Request /\ x.at = "count" /\ x.from = {b} /\ x.todo = {} /\ x.refs = {}
          /\ x.link = req[r].link /\ x.on = req[r].on
      BY <1>0 DEF Request, Steps
    <3>2. Knows(x)
      BY <1>0, <1>5, <2>2, <3>1 DEF Knows, Fetch, At
    <3>3. req' = [req EXCEPT ![r] = x]
      BY <1>0, <2>2
    <3> QED
      BY <1>u, <3>1, <3>2, <3>3, LinkMove
  <2> QED
    BY <1>5, <2>1, <2>2 DEF Fetch
<1>6. CASE FetchFail(r)
  <2> DEFINE x == [req[r] EXCEPT !.at = "next", !.from = {}]
  <2>1. /\ x \in Request /\ x.at = "next" /\ x.from = {} /\ x.todo = req[r].todo
        /\ x.refs = req[r].refs /\ x.link = req[r].link
    BY <1>0 DEF Request, Steps
  <2>2. Knows(x)
    BY <1>0, <1>6, <2>1 DEF Knows, FetchFail, At
  <2>3. req' = [req EXCEPT ![r] = x]
    BY <1>0, <1>6 DEF FetchFail
  <2> QED
    BY <1>u, <2>1, <2>2, <2>3, LinkMove
<1>7. CASE Fail(r)
  BY <1>7, <1>u, IdleType, KnowsIdle, LinkMove DEF Fail, Done
<1> QED
  BY <1>1, <1>2, <1>3, <1>4, <1>5, <1>6, <1>7 DEF ReadStep

\* Every step of a request on a link preserves LinkInv.
LEMMA LinkKeeps ==
    ASSUME TypeInv, LinkInv, Excused => Excused', NEW r \in Requests, LinkStep(r)
    PROVE  LinkInv'
<1>0. TypeOK /\ req[r] \in Request /\ Knows(req[r])
  BY DEF TypeInv, TypeOK, LinkInv
<1>1. ASSUME NEW l \in Links, CreateLink(r, l)
      PROVE  LinkInv'
  <2> DEFINE x == [Idle EXCEPT !.at = "insert", !.link = l]
  <2>1. x \in Request /\ Knows(x)
    BY DEF Idle, Request, Steps, Rows, NoRow, Knows
  <2> QED
    BY <1>1, <2>1, LinkMove DEF CreateLink, storageVars, linkVars, fixed
<1>2. ASSUME NEW l \in Links, DownloadLink(r, l)
      PROVE  LinkInv'
  <2> DEFINE x == [Idle EXCEPT !.at = "locate", !.link = l]
  <2>1. l \in Protected => l \in verified
    BY <1>2 DEF DownloadLink, TokenAccepted, LinkInv
  <2>2. x \in Request /\ Knows(x)
    BY <2>1 DEF Idle, Request, Steps, Rows, NoRow, Knows
  <2> QED
    BY <1>2, <2>2, LinkMove DEF DownloadLink, storageVars, linkVars, fixed
<1>3. ASSUME NEW l \in Links, VerifyPassword(r, l)
      PROVE  LinkInv'
  <2>1. /\ UNCHANGED <<row, projectVars, req, count, served, objects, moved>>
        /\ verified \subseteq verified' /\ tokens' \subseteq verified'
    BY <1>3 DEF VerifyPassword, storageVars, fixed, LinkInv
  <2> QED
    BY <2>1, LinkFrame DEF projectVars, LinkInv
<1>4. CASE InsertLink(r)
  BY <1>4, IdleType, KnowsIdle, LinkMove DEF InsertLink, Done, storageVars, fixed
<1>5. CASE IncrementCount(r)
  <2> DEFINE l == req[r].link
  <2>1. /\ req'[r] = Idle /\ \A q \in Requests : q # r => req'[q] = req[q]
    BY <1>0, <1>5, IdleType, Moves DEF IncrementCount, Done
  <2>2. UNCHANGED <<row, projectVars, tokens, verified, objects, moved>>
    BY <1>5 DEF IncrementCount, storageVars, fixed
  <2>3. l \in Protected => l \in verified
    BY <1>0, <1>5 DEF IncrementCount, At, Knows
  <2>4. QuotaExact' /\ PasswordGiven'
    <3>1. /\ count \in [Links -> Nat] /\ served \in [Links -> Nat]
          /\ Limit \in [Links -> Nat \ {0}] /\ Protected \subseteq Links
          /\ QuotaExact /\ PasswordGiven
      BY <1>0, ConstantsAssumption DEF TypeOK, LinkInv
    <3>2. CASE UNCHANGED <<count, served>>
      BY <2>2, <3>1, <3>2 DEF QuotaExact, PasswordGiven
    <3>3. CASE /\ Counted(l) /\ count' = [count EXCEPT ![l] = count[l] + 1]
               /\ served' = [served EXCEPT ![l] = served[l] + 1]
      <4>1. count[l] < Limit[l]
        BY <3>3 DEF Counted, BelowLimit
      <4>2. \A k \in Links : /\ count'[k] = IF k = l THEN count[k] + 1 ELSE count[k]
                             /\ served'[k] = IF k = l THEN served[k] + 1 ELSE served[k]
        BY <3>1, <3>3
      <4>3. QuotaExact'
        BY <3>1, <4>1, <4>2 DEF QuotaExact
      <4>4. PasswordGiven'
        BY <2>2, <2>3, <3>1, <4>2 DEF PasswordGiven
      <4> QED
        BY <4>3, <4>4
    <3> QED
      BY <1>5, <3>2, <3>3 DEF IncrementCount
  <2>5. ASSUME NEW q \in Requests
        PROVE  Knows(req[q])'
    <3>1. PICK y \in Request : y = req'[q] /\ Knows(y)
      <4>1. Idle \in Request /\ Knows(Idle) /\ req[q] \in Request /\ Knows(req[q])
        BY IdleType, KnowsIdle DEF LinkInv, TypeInv, TypeOK
      <4> QED
        BY <2>1, <4>1
    <3>2. Knows(y)'
      BY <2>2, <3>1, KnowsFrame DEF projectVars
    <3> QED
      BY <3>1, <3>2 DEF Knows
  <2> QED
    BY <2>2, <2>4, <2>5 DEF LinkInv, projectVars, Synced, Usable
<1> QED
  BY <1>1, <1>2, <1>3, <1>4, <1>5 DEF LinkStep

\* A row that is written counts as a change, after which less is promised.
LEMMA PutRowKeeps ==
    ASSUME TypeInv, LinkInv, Excused => Excused', NEW r \in Requests, NEW s \in Storages, NEW new \in Rows,
           PutRow(r, s, new), UNCHANGED <<projectVars, linkVars>>
    PROVE  LinkInv'
<1> DEFINE x == [Idle EXCEPT !.at = "register", !.on = s, !.to = new]
<1>1. x \in Request /\ Knows(x)
  BY ConstantsAssumption DEF Idle, Request, Steps, Knows
<1>2. /\ req'[r] = x /\ \A q \in Requests : q # r => req'[q] = req[q]
  BY <1>1, Moves DEF PutRow, TypeInv
<1>3. moved' /\ verified' = verified /\ had' = had
  BY DEF PutRow, projectVars, linkVars
<1>4. ASSUME NEW q \in Requests
      PROVE  Knows(req[q])'
  <2>1. PICK y \in Request : y = req'[q] /\ Knows(y)
    <3>1. req[q] \in Request /\ Knows(req[q])
      BY DEF LinkInv, TypeInv, TypeOK
    <3> QED
      BY <1>1, <1>2, <3>1
  <2>2. Knows(y)'
    BY <1>3, <2>1, KnowsFrame
  <2> QED
    BY <2>1, <2>2 DEF Knows
<1> QED
  BY <1>3, <1>4 DEF LinkInv, QuotaExact, PasswordGiven, projectVars, linkVars

\* Every step of an admin's request preserves LinkInv.
LEMMA AdminKeeps ==
    ASSUME TypeInv, LinkInv, Excused => Excused', NEW r \in Requests, AdminStep(r)
    PROVE  LinkInv'
<1>0. /\ TypeOK /\ req[r] \in Request /\ \A s \in Storages : row[s] \in Rows
  BY DEF TypeInv, TypeOK
<1>1. ASSUME NEW s \in Storages, CreateStorage(r, s)
      PROVE  LinkInv'
  <2>1. PICK c \in Configs, on \in BOOLEAN : PutRow(r, s, [config |-> c, enabled |-> on])
    BY <1>1 DEF CreateStorage
  <2>2. [config |-> c, enabled |-> on] \in Rows
    BY DEF Rows
  <2> QED
    BY <1>1, <2>1, <2>2, PutRowKeeps DEF CreateStorage
<1>2. ASSUME NEW s \in Storages, FindStorage(r, s)
      PROVE  LinkInv'
  <2>1. PICK c \in Configs, on \in BOOLEAN :
             req' = [req EXCEPT ![r] = [Idle EXCEPT !.at = "write", !.on = s,
                                        !.to = [config |-> c, enabled |-> on]]]
    BY <1>2 DEF FindStorage
  <2> DEFINE x == [Idle EXCEPT !.at = "write", !.on = s, !.to = [config |-> c, enabled |-> on]]
  <2>2. x \in Request /\ Knows(x)
    BY ConstantsAssumption DEF Idle, Request, Steps, Rows, Knows
  <2> QED
    BY <1>2, <2>1, <2>2, LinkMove DEF FindStorage, storageVars, linkVars, fixed
<1>3. ASSUME NEW s \in Storages, DisableStorage(r, s)
      PROVE  LinkInv'
  <2>1. [row[s] EXCEPT !.enabled = FALSE] \in Rows
    <3>1. row[s] \in [config : Configs, enabled : BOOLEAN]
      BY <1>0, <1>3 DEF DisableStorage, Rows
    <3> QED
      BY <3>1 DEF Rows
  <2> QED
    BY <1>3, <2>1, PutRowKeeps DEF DisableStorage
<1>4. CASE UpdateStorage(r)
  <2>1. req[r].on \in Storages /\ req[r].to \in Rows
    BY <1>0, <1>4 DEF UpdateStorage, At, TypeInv, Request
  <2> QED
    BY <1>4, <2>1, PutRowKeeps DEF UpdateStorage
<1>5. CASE Register(r)
  BY <1>5, IdleType, KnowsIdle, LinkMove DEF Register, Done, linkVars, fixed
<1>6. ASSUME NEW j \in Jobs, ExportStatus(r, j)
      PROVE  LinkInv'
  <2> DEFINE x == [Idle EXCEPT !.at = "take", !.job = j]
  <2>1. x \in Request /\ Knows(x)
    BY ConstantsAssumption DEF Idle, Request, Steps, Rows, NoRow, Knows
  <2> QED
    BY <1>6, <2>1, LinkMove DEF ExportStatus, storageVars, linkVars, fixed
<1>7. ASSUME NEW j \in Jobs, NEW s \in Storages, StartExport(r, s, j)
      PROVE  LinkInv'
  <2>1. UNCHANGED <<storageVars, projectVars, linkVars, fixed, req, moved>>
    BY <1>7 DEF StartExport
  <2> QED
    BY <2>1, LinkFrame DEF storageVars, projectVars, linkVars, fixed, LinkInv
<1>8. CASE TakeArchive(r)
  BY <1>8, IdleType, KnowsIdle, LinkMove DEF TakeArchive, Done, storageVars, linkVars, fixed
<1> QED
  BY <1>1, <1>2, <1>3, <1>4, <1>5, <1>6, <1>7, <1>8 DEF AdminStep

\* Every step preserves LinkInv.
LEMMA LinkInvStep == TypeInv /\ LinkInv /\ [Next]_vars => LinkInv'
<1> SUFFICES ASSUME TypeInv, LinkInv, [Next]_vars PROVE LinkInv'
  OBVIOUS
<1>e. Excused => Excused'
  BY ExcuseStays
<1>1. CASE UNCHANGED vars
  BY <1>e, <1>1, LinkFrame DEF vars, storageVars, projectVars, linkVars, fixed, LinkInv
<1>2. ASSUME NEW r \in Requests, LinkStep(r) \/ ReadStep(r) \/ AdminStep(r)
      PROVE  LinkInv'
  BY <1>e, <1>2, LinkKeeps, ReadKeeps, AdminKeeps
<1>3. ASSUME NEW l \in Links, Expire(l) \/ DeactivateLink(l) \/ DeleteLink(l)
      PROVE  LinkInv'
  <2>1. /\ UNCHANGED <<storageVars, projectVars, count, served, verified, fixed, req, moved>>
        /\ tokens' \subseteq tokens
    BY <1>3 DEF Expire, DeactivateLink, DeleteLink
  <2> QED
    BY <1>e, <2>1, LinkFrame DEF storageVars, projectVars, fixed, LinkInv
<1>4. ASSUME NEW p \in Projects, DeleteProject(p) \/ DeleteReference(p)
      PROVE  LinkInv'
  <2>1. UNCHANGED <<container, had, linkVars, req>> /\ moved'
    BY <1>4 DEF DeleteProject, DeleteReference
  <2> QED
    BY <1>e, <2>1, LinkFrame DEF linkVars, LinkInv
<1>5. ASSUME NEW p \in Projects, NEW s \in Storages, UpdateAssignment(p, s)
      PROVE  LinkInv'
  <2>1. PICK k \in Containers :
             /\ container' = [container EXCEPT ![p][s] = k]
             /\ had' = had \cup {<<p, s, k>>}
    BY <1>5 DEF UpdateAssignment
  <2>2. container \in [Projects -> [Storages -> Containers]]
    BY DEF TypeInv, TypeOK
  <2>3. (\A q \in Projects, t \in Storages : <<q, t, container[q][t]>> \in had)'
    BY <2>1, <2>2 DEF LinkInv
  <2>4. UNCHANGED <<linkVars, req>> /\ moved'
    BY <1>5 DEF UpdateAssignment
  <2> QED
    BY <1>e, <2>1, <2>3, <2>4, LinkFrame DEF linkVars, LinkInv
<1>6. ASSUME NEW p \in Projects, UpdateProject(p)
      PROVE  LinkInv'
  <2>1. PICK k \in [Storages -> Containers] :
             /\ container' = [container EXCEPT ![p] = k]
             /\ had' = had \cup {<<p, t, k[t]>> : t \in Storages}
    BY <1>6 DEF UpdateProject
  <2>2. container \in [Projects -> [Storages -> Containers]]
    BY DEF TypeInv, TypeOK
  <2>3. (\A q \in Projects, t \in Storages : <<q, t, container[q][t]>> \in had)'
    BY <2>1, <2>2 DEF LinkInv
  <2>4. UNCHANGED <<linkVars, req>> /\ moved'
    BY <1>6 DEF UpdateProject
  <2> QED
    BY <1>e, <2>1, <2>3, <2>4, LinkFrame DEF linkVars, LinkInv
<1>7. ASSUME NEW n \in Nodes, Crash(n)
      PROVE  LinkInv'
  <2>1. UNCHANGED <<row, projectVars, linkVars, fixed, moved>>
    BY <1>7 DEF Crash
  <2>2. ASSUME NEW q \in Requests
        PROVE  Knows(req[q])'
    <3>1. PICK y \in Request : y = req'[q] /\ Knows(y)
      <4>1. req[q] \in Request /\ Knows(req[q]) /\ (req'[q] = Idle \/ req'[q] = req[q])
        BY <1>7 DEF Crash, LinkInv, TypeInv, TypeOK
      <4> QED
        BY <4>1, IdleType, KnowsIdle
    <3>2. Knows(y)'
      BY <1>e, <2>1, <3>1, KnowsFrame DEF projectVars, linkVars
    <3> QED
      BY <3>1, <3>2 DEF Knows
  <2> QED
    BY <2>1, <2>2
       DEF LinkInv, QuotaExact, PasswordGiven, projectVars, linkVars, fixed, Synced, Usable
<1>8. ASSUME NEW n \in Nodes, Start(n) \/ Listen(n)
      PROVE  LinkInv'
  <2>1. UNCHANGED <<row, projectVars, linkVars, fixed, req, moved>>
    BY <1>8 DEF Start, Listen
  <2> QED
    BY <1>e, <2>1, LinkFrame DEF projectVars, linkVars, fixed, LinkInv
<1>9. ASSUME NEW j \in Jobs, JobStep(j)
      PROVE  LinkInv'
  <2>1. UNCHANGED <<storageVars, projectVars, linkVars, fixed, req, moved>>
    BY <1>9 DEF JobStep, ExportBackend, ExportCopy, ExportDone, ExportStore
  <2> QED
    BY <1>e, <2>1, LinkFrame DEF storageVars, projectVars, linkVars, fixed, LinkInv
<1> QED
  BY <1>1, <1>2, <1>3, <1>4, <1>5, <1>6, <1>7, <1>8, <1>9 DEF Next

\* It holds at the start.
LEMMA LinkInvInit == Init => LinkInv
<1> SUFFICES ASSUME Init PROVE LinkInv
  OBVIOUS
<1>1. PICK c \in Configs \ Broken, some \in SUBSET Storages :
           row = [s \in Storages |-> IF s \in some THEN [config |-> c, enabled |-> TRUE] ELSE NoRow]
  BY DEF Init
<1>2. Synced \subseteq Usable
  <2>1. PICK stored \in SUBSET {s \in Storages : row[s] # NoRow} :
             \E at \in [stored -> {FirstContainer[p] : p \in Projects} \cup {Own}] :
                objects = {<<s, <<row[s].config, at[s]>>>> : s \in stored}
    BY DEF Init
  <2>2. Synced \subseteq stored
    BY <2>1 DEF Synced
  <2>3. \A s \in stored : row[s].config \in Configs \ Broken
    BY <1>1, <2>1 DEF NoRow
  <2> QED
    BY <2>1, <2>2, <2>3 DEF Usable
<1>3. \A p \in Projects, s \in Storages : <<p, s, container[p][s]>> \in had
  BY DEF Init
<1>4. \A r \in Requests : Knows(req[r])
  BY KnowsIdle DEF Init
<1>5. QuotaExact /\ PasswordGiven
  BY ConstantsAssumption DEF Init, QuotaExact, PasswordGiven
<1> QED
  BY <1>2, <1>3, <1>4, <1>5 DEF Init, LinkInv

\* LinkInv holds in every reachable state.
LEMMA LinksSafe == Spec => [](TypeInv /\ LinkInv)
  BY InitType, TypeStep, LinkInvInit, LinkInvStep, PTL DEF Spec

\* A link is used as often as it was counted, and never more often than
\* max_downloads says, for any number of concurrent downloads (download_via_link).
THEOREM QuotaSafe == Spec => []QuotaExact
<1>1. LinkInv => QuotaExact
  BY DEF LinkInv
<1> QED
  BY <1>1, LinksSafe, PTL

\* A protected link gives nothing out before its own password was given
\* (validate_download_token).
THEOREM PasswordSafe == Spec => []PasswordGiven
<1>1. LinkInv => PasswordGiven
  BY DEF LinkInv
<1> QED
  BY <1>1, LinksSafe, PTL

\* A download through a link stays with the containers its project has had, for
\* any number of changes of storages, projects and references, and falls back on
\* the storage's own only after such a change or a failure (download_via_link,
\* resolve_backends_for_location).
THEOREM LinkProjectSafe == Spec => []LinkStaysInProject
<1>1. LinkInv => LinkStaysInProject
  BY DEF LinkInv, LinkStaysInProject, Knows, Excused
<1> QED
  BY <1>1, LinksSafe, PTL

-----------------------------------------------------------------------------
(* The registry                                                            *)

\* What the registry should hold for a storage.
RowEntry(s) == IF row[s].enabled THEN row[s].config ELSE None

\* A process that did not miss an edit of a storage: while it starts it has read
\* the row, a registration under way is the only one and has the row, and without
\* one the registry holds the row's backend.
Current(n, s) ==
    <<n, s>> \notin behind =>
        /\ node[n] = "starting" => loaded[n][s] = RowEntry(s)
        /\ \A r \in Registering(n, s) : req[r].to = row[s] /\ Registering(n, s) = {r}
        /\ node[n] = "up" /\ Registering(n, s) = {} => registry[n][s] = RowEntry(s)

\* Besides, only a process that is up serves requests.
RegistryInv ==
    /\ \A r \in Requests : ~At(r, "idle") => Up(r)
    /\ \A n \in Nodes, s \in Storages : Current(n, s)

\* A request that moves on without a registration.
LEMMA RegistryFrame ==
    ASSUME TypeInv, RegistryInv, UNCHANGED storageVars, NEW r \in Requests, Up(r),
           \A q \in Requests : q # r => req'[q] = req[q],
           req[r].at # "register", req'[r].at # "register"
    PROVE  RegistryInv'
<1>1. ASSUME NEW n \in Nodes, NEW s \in Storages
      PROVE  Registering(n, s)' = Registering(n, s)
  BY DEF Registering, At
<1>2. ASSUME NEW n \in Nodes, NEW s \in Storages
      PROVE  \A q \in Registering(n, s) : req'[q] = req[q]
  BY DEF Registering, At
<1>3. ASSUME NEW n \in Nodes, NEW s \in Storages
      PROVE  Current(n, s)'
  BY <1>1, <1>2 DEF RegistryInv, Current, RowEntry, storageVars
<1>4. \A q \in Requests : (~At(q, "idle"))' => Up(q)'
  BY DEF RegistryInv, At, Up, storageVars
<1> QED
  BY <1>3, <1>4 DEF RegistryInv

\* A step that leaves the requests and the storages alone.
LEMMA RegistryStays ==
    ASSUME RegistryInv, UNCHANGED <<storageVars, req>>
    PROVE  RegistryInv'
  BY DEF RegistryInv, Current, RowEntry, Registering, At, Up, storageVars

\* A row is written. Another process is behind, and so is this one when it is
\* registering an older row of the storage.
LEMMA PutRowCurrent ==
    ASSUME TypeInv, RegistryInv, NEW r \in Requests, NEW s \in Storages, NEW new \in Rows,
           PutRow(r, s, new), UNCHANGED <<registry, node, loaded>>, Up(r),
           req[r].at # "register"
    PROVE  RegistryInv'
<1> DEFINE x == [Idle EXCEPT !.at = "register", !.on = s, !.to = new]
<1>0. TypeOK /\ Home[r] \in Nodes
  BY ConstantsAssumption DEF TypeInv
<1>1. x \in Request /\ x.at = "register" /\ x.on = s /\ x.to = new
  BY DEF Idle, Request, Steps
<1>2. /\ req'[r] = x /\ \A q \in Requests : q # r => req'[q] = req[q]
  BY <1>0, <1>1, Moves DEF PutRow
<1> HIDE DEF x
<1>3. /\ row'[s] = new /\ \A t \in Storages : t # s => row'[t] = row[t]
      /\ behind' = (behind \ {<<Home[r], s>>}) \cup Outdated(Home[r], s)
  BY <1>0 DEF PutRow, TypeOK
<1>4. ASSUME NEW n \in Nodes, NEW t \in Storages, t # s
      PROVE  Current(n, t)'
  <2>1. Registering(n, t)' = Registering(n, t) /\ \A q \in Registering(n, t) : req'[q] = req[q]
    BY <1>1, <1>2, <1>4 DEF Registering, At
  <2>2. <<n, t>> \in behind' <=> <<n, t>> \in behind
    BY <1>3, <1>4 DEF Outdated
  <2>3. RowEntry(t)' = RowEntry(t) /\ row'[t] = row[t]
    BY <1>3, <1>4 DEF RowEntry
  <2>4. Current(n, t)
    BY DEF RegistryInv
  <2> QED
    BY <2>1, <2>2, <2>3, <2>4 DEF Current
<1>5. ASSUME NEW n \in Nodes, n # Home[r]
      PROVE  Current(n, s)'
  <2>1. <<n, s>> \in behind'
    BY <1>3, <1>5 DEF Outdated
  <2> QED
    BY <2>1 DEF Current
<1>6. Current(Home[r], s)'
  <2>1. CASE Registering(Home[r], s) # {}
    <3>1. <<Home[r], s>> \in behind'
      BY <1>0, <1>3, <2>1 DEF Outdated
    <3> QED
      BY <3>1 DEF Current
  <2>2. CASE Registering(Home[r], s) = {}
    <3>1. Registering(Home[r], s)' = {r}
      BY <1>1, <1>2, <2>2 DEF Registering, At
    <3>2. node'[Home[r]] = "up"
      BY DEF Up
    <3> QED
      BY <1>1, <1>2, <1>3, <3>1, <3>2 DEF Current
  <2> QED
    BY <2>1, <2>2
<1>7. ASSUME NEW n \in Nodes, NEW t \in Storages
      PROVE  Current(n, t)'
  <2>1. CASE t # s
    BY <1>4, <2>1
  <2>2. CASE t = s /\ n # Home[r]
    BY <1>5, <2>2
  <2>3. CASE t = s /\ n = Home[r]
    BY <1>6, <2>3
  <2> QED
    BY <2>1, <2>2, <2>3
<1>8. \A q \in Requests : (~At(q, "idle"))' => Up(q)'
  BY <1>2 DEF RegistryInv, At, Up
<1> QED
  BY <1>7, <1>8 DEF RegistryInv

\* A row without a config is not enabled.
LEMMA RowEntryType ==
    ASSUME TypeOK, NEW s \in Storages, row[s].enabled
    PROVE  row[s].config \in Configs /\ row[s].config # None
  BY ConstantsAssumption DEF TypeOK, Rows, NoRow

\* The backend of a row is registered.
LEMMA RegisterCurrent ==
    ASSUME TypeInv, RegistryInv, NEW r \in Requests, Register(r)
    PROVE  RegistryInv'
<1> DEFINE h == Home[r]
<1>t. req[r].on \in Storages
  BY DEF TypeInv, Register, At
<1>s. PICK s \in Storages : s = req[r].on
  BY <1>t
<1>0. /\ TypeOK /\ h \in Nodes /\ req[r] \in Request /\ req[r].at = "register"
  BY ConstantsAssumption DEF TypeInv, TypeOK, Register, At
<1>1. /\ req'[r] = Idle /\ \A q \in Requests : q # r => req'[q] = req[q]
  BY <1>0, IdleType, Moves DEF Register, Done
<1>2. /\ registry'[h][s] = Entry(req[r].to, registry[h][s])
      /\ \A n \in Nodes, t \in Storages : n # h \/ t # s => registry'[n][t] = registry[n][t]
  BY <1>0, <1>s DEF Register, TypeOK
<1>3. /\ UNCHANGED <<row, node, loaded>> /\ behind \subseteq behind'
      /\ req[r].to.enabled /\ req[r].to.config \in Broken => <<h, s>> \in behind'
  BY <1>s DEF Register
<1>4. ASSUME NEW n \in Nodes, NEW t \in Storages, n # h \/ t # s
      PROVE  Current(n, t)'
  <2>1. Registering(n, t)' = Registering(n, t) /\ \A q \in Registering(n, t) : req'[q] = req[q]
    BY <1>0, <1>s, <1>1, <1>4 DEF Registering, At, Idle
  <2>2. Current(n, t) /\ RowEntry(t)' = RowEntry(t)
    BY <1>3 DEF RegistryInv, RowEntry
  <2> QED
    BY <1>2, <1>3, <1>4, <2>1, <2>2 DEF Current
<1>5. Current(h, s)'
  <2> SUFFICES ASSUME <<h, s>> \notin behind'
               PROVE  /\ (node[h] = "starting" => loaded[h][s] = RowEntry(s))'
                      /\ (\A q \in Registering(h, s) : req[q].to = row[s] /\ Registering(h, s) = {q})'
                      /\ (node[h] = "up" /\ Registering(h, s) = {} => registry[h][s] = RowEntry(s))'
    BY DEF Current
  <2>1. r \in Registering(h, s)
    BY <1>0, <1>s DEF Registering, At
  <2>2. req[r].to = row[s] /\ Registering(h, s) = {r}
    BY <1>0, <1>3, <2>1 DEF RegistryInv, Current
  <2>3. Registering(h, s)' = {}
    BY <1>0, <1>1, <2>2 DEF Registering, At, Idle
  <2>4. Up(r)
    BY <1>0 DEF RegistryInv, At
  <2>5. Entry(row[s], registry[h][s]) = RowEntry(s)
    <3>1. CASE ~row[s].enabled
      BY <3>1 DEF Entry, RowEntry
    <3>2. CASE row[s].enabled
      <4>1. row[s].config \notin Broken /\ row[s].config # None
        BY <1>0, <1>3, <2>2, <3>2, RowEntryType
      <4> QED
        BY <3>2, <4>1 DEF Entry, RowEntry, CreateBackend
    <3> QED
      BY <3>1, <3>2
  <2>6. registry'[h][s] = RowEntry(s)'
    BY <1>2, <1>3, <2>2, <2>5 DEF RowEntry
  <2> QED
    BY <1>3, <2>3, <2>4, <2>6 DEF Up
<1>6. ASSUME NEW n \in Nodes, NEW t \in Storages
      PROVE  Current(n, t)'
  <2>1. CASE n # h \/ t # s
    BY <1>4, <2>1
  <2>2. CASE n = h /\ t = s
    BY <1>5, <2>2
  <2> QED
    BY <2>1, <2>2
<1>7. \A q \in Requests : (~At(q, "idle"))' => Up(q)'
  BY <1>1, <1>3 DEF RegistryInv, At, Up, Idle
<1> QED
  BY <1>6, <1>7 DEF RegistryInv

\* A process dies, reads the rows when it starts, and registers what it has read.
LEMMA NodeCurrent ==
    ASSUME TypeInv, RegistryInv, NEW n \in Nodes, Crash(n) \/ Start(n) \/ Listen(n)
    PROVE  RegistryInv'
<1>0. TypeOK
  BY DEF TypeInv
<1>1. CASE Crash(n)
  <2>1. /\ UNCHANGED <<row, loaded, behind>>
        /\ \A m \in Nodes : node'[m] = IF m = n THEN "down" ELSE node[m]
        /\ \A m \in Nodes : m # n => registry'[m] = registry[m]
        /\ \A r \in Requests : req'[r] = IF Home[r] = n THEN Idle ELSE req[r]
    BY <1>0, <1>1 DEF Crash, TypeOK
  <2>2. ASSUME NEW m \in Nodes, NEW s \in Storages
        PROVE  Current(m, s)'
    <3>1. CASE m = n
      <4>1. Registering(m, s)' = {} /\ node'[m] = "down"
        BY <2>1, <3>1 DEF Registering, At, Idle
      <4> QED
        BY <4>1 DEF Current
    <3>2. CASE m # n
      <4>1. /\ Registering(m, s)' = Registering(m, s)
            /\ \A q \in Registering(m, s) : req'[q] = req[q]
        BY <2>1, <3>2 DEF Registering, At
      <4>2. Current(m, s) /\ RowEntry(s)' = RowEntry(s)
        BY <2>1 DEF RegistryInv, RowEntry
      <4> QED
        BY <2>1, <3>2, <4>1, <4>2 DEF Current
    <3> QED
      BY <3>1, <3>2
  <2>3. \A q \in Requests : (~At(q, "idle"))' => Up(q)'
    BY <2>1, ConstantsAssumption DEF RegistryInv, At, Up, Idle
  <2> QED
    BY <2>2, <2>3 DEF RegistryInv
<1>2. CASE Start(n)
  <2>1. /\ UNCHANGED <<row, registry, req>> /\ behind' \subseteq behind
        /\ node[n] = "down" /\ node'[n] = "starting"
        /\ \A m \in Nodes : m # n => node'[m] = node[m] /\ loaded'[m] = loaded[m]
        /\ \A s \in Storages : loaded'[n][s] = RowEntry(s)
        /\ \A m \in Nodes, s \in Storages : m # n /\ <<m, s>> \in behind => <<m, s>> \in behind'
    BY <1>0, <1>2 DEF Start, TypeOK, RowEntry
  <2>2. ASSUME NEW m \in Nodes, NEW s \in Storages
        PROVE  Current(m, s)'
    <3>1. /\ Registering(m, s)' = Registering(m, s) /\ RowEntry(s)' = RowEntry(s)
          /\ Current(m, s)
      BY <2>1 DEF Registering, At, RowEntry, RegistryInv
    <3>2. CASE m # n
      BY <2>1, <3>1, <3>2 DEF Current
    <3>3. CASE m = n
      <4>1. Registering(m, s) = {}
        BY <2>1, <3>3 DEF Registering, RegistryInv, At, Up
      <4> QED
        BY <2>1, <3>1, <3>3, <4>1 DEF Current
    <3> QED
      BY <3>2, <3>3
  <2>3. \A q \in Requests : (~At(q, "idle"))' => Up(q)'
    BY <2>1, ConstantsAssumption DEF RegistryInv, At, Up
  <2> QED
    BY <2>2, <2>3 DEF RegistryInv
<1>3. CASE Listen(n)
  <2>1. /\ UNCHANGED <<row, loaded, req>> /\ behind \subseteq behind'
        /\ node[n] = "starting" /\ node'[n] = "up"
        /\ \A m \in Nodes : m # n => node'[m] = node[m] /\ registry'[m] = registry[m]
        /\ \A s \in Storages : registry'[n][s] = CreateBackend(loaded[n][s])
        /\ \A s \in Storages : loaded[n][s] \in Broken => <<n, s>> \in behind'
    BY <1>0, <1>3 DEF Listen, TypeOK
  <2>2. ASSUME NEW m \in Nodes, NEW s \in Storages
        PROVE  Current(m, s)'
    <3>1. /\ Registering(m, s)' = Registering(m, s) /\ RowEntry(s)' = RowEntry(s)
          /\ Current(m, s)
      BY <2>1 DEF Registering, At, RowEntry, RegistryInv
    <3>2. CASE m # n
      BY <2>1, <3>1, <3>2 DEF Current
    <3>3. CASE m = n
      <4>1. Registering(m, s) = {}
        BY <2>1, <3>3 DEF Registering, RegistryInv, At, Up
      <4>2. <<m, s>> \notin behind' => registry'[n][s] = loaded[n][s]
        BY <2>1, <3>3 DEF CreateBackend
      <4> QED
        BY <2>1, <3>1, <3>3, <4>1, <4>2 DEF Current
    <3> QED
      BY <3>2, <3>3
  <2>3. \A q \in Requests : (~At(q, "idle"))' => Up(q)'
    BY <2>1, ConstantsAssumption DEF RegistryInv, At, Up
  <2> QED
    BY <2>2, <2>3 DEF RegistryInv
<1> QED
  BY <1>1, <1>2, <1>3

\* Every step of a request preserves RegistryInv.
LEMMA RequestCurrent ==
    ASSUME TypeInv, RegistryInv, NEW r \in Requests, LinkStep(r) \/ ReadStep(r) \/ AdminStep(r)
    PROVE  RegistryInv'
<1>0. TypeOK /\ req \in [Requests -> Request] /\ req[r] \in Request
  BY DEF TypeInv, TypeOK
<1>1. Up(r)
  <2>1. CASE At(r, "idle")
    BY <2>1 DEF LinkStep, CreateLink, VerifyPassword, DownloadLink, InsertLink, IncrementCount,
       ReadStep, DownloadFile, Locate, ReadRefs, Resolve, Fetch, FetchFail, Fail, AdminStep,
       CreateStorage, FindStorage, DisableStorage, UpdateStorage, Register, ExportStatus,
       StartExport, TakeArchive, Free, At
  <2> QED
    BY <2>1 DEF RegistryInv
<1>2. ASSUME NEW l \in Links, CreateLink(r, l) \/ DownloadLink(r, l)
      PROVE  RegistryInv'
  <2>1. /\ \A q \in Requests : q # r => req'[q] = req[q]
        /\ req'[r].at \in {"insert", "locate"} /\ req[r].at = "idle"
    BY <1>0, <1>2 DEF CreateLink, DownloadLink, Free, At, Idle
  <2> QED
    BY <1>1, <1>2, <2>1, RegistryFrame DEF CreateLink, DownloadLink
<1>3. ASSUME NEW l \in Links, VerifyPassword(r, l)
      PROVE  RegistryInv'
  BY <1>3, RegistryStays DEF VerifyPassword
<1>4. CASE (InsertLink(r) \/ IncrementCount(r) \/ Fail(r) \/ TakeArchive(r)) /\ Done(r)
  <2>1. /\ \A q \in Requests : q # r => req'[q] = req[q]
        /\ req'[r].at = "idle" /\ req[r].at # "register"
    BY <1>0, <1>4 DEF InsertLink, IncrementCount, Fail, TakeArchive, Done, At, Idle
  <2> QED
    BY <1>1, <1>4, <2>1, RegistryFrame DEF InsertLink, IncrementCount, Fail, TakeArchive
<1>5. CASE DownloadFile(r) \/ Locate(r) \/ ReadRefs(r) \/ FetchFail(r)
  <2>1. /\ \A q \in Requests : q # r => req'[q] = req[q]
        /\ req'[r].at \in {"locate", "failed", "refs", "next"} /\ req[r].at # "register"
    BY <1>0, <1>5 DEF DownloadFile, Locate, ReadRefs, FetchFail, Free, At, Idle, Request
  <2> QED
    BY <1>1, <1>5, <2>1, RegistryFrame DEF DownloadFile, Locate, ReadRefs, FetchFail
<1>6. CASE Resolve(r)
  <2>1. /\ \A q \in Requests : q # r => req'[q] = req[q]
        /\ req'[r].at \in {"fetch", "failed"} /\ req[r].at # "register"
    <3>1. ASSUME NEW s \in req[r].todo, NEW refs,
                 req' = [req EXCEPT ![r].at = "fetch", ![r].on = s,
                                    ![r].todo = req[r].todo \ {s},
                                    ![r].from = Backends(Home[r], s, refs)]
          PROVE  /\ \A q \in Requests : q # r => req'[q] = req[q]
                 /\ req'[r].at = "fetch"
      BY <1>0, <3>1 DEF Request
    <3>2. ASSUME req' = [req EXCEPT ![r] = [Idle EXCEPT !.at = "failed", !.link = req[r].link]]
          PROVE  \A q \in Requests : q # r => req'[q] = req[q]
      BY <1>0, <3>2
    <3>3. req[r].at # "register"
      BY <1>6 DEF Resolve, At
    <3>4. \/ \E s \in req[r].todo, refs \in SUBSET req[r].refs :
                req' = [req EXCEPT ![r].at = "fetch", ![r].on = s,
                                   ![r].todo = req[r].todo \ {s},
                                   ![r].from = Backends(Home[r], s, refs)]
          \/ req' = [req EXCEPT ![r] = [Idle EXCEPT !.at = "failed", !.link = req[r].link]]
      BY <1>6 DEF Resolve
    <3>5. \A q \in Requests : q # r => req'[q] = req[q]
      BY <3>1, <3>2, <3>4
    <3>6. req'[r].at \in {"fetch", "failed"}
      <4>1. CASE req' = [req EXCEPT ![r] = [Idle EXCEPT !.at = "failed", !.link = req[r].link]]
        BY <1>0, <4>1 DEF Idle
      <4> QED
        BY <3>1, <3>4, <4>1
    <3> QED
      BY <3>3, <3>5, <3>6
  <2> QED
    BY <1>1, <1>6, <2>1, RegistryFrame DEF Resolve
<1>7. CASE Fetch(r)
  <2>1. /\ \A q \in Requests : q # r => req'[q] = req[q]
        /\ req'[r].at \in {"count", "idle"} /\ req[r].at # "register"
    BY <1>0, <1>7 DEF Fetch, Done, At, Idle, Request
  <2> QED
    BY <1>1, <1>7, <2>1, RegistryFrame DEF Fetch
<1>8. ASSUME NEW s \in Storages, CreateStorage(r, s)
      PROVE  RegistryInv'
  <2>1. PICK c \in Configs, on \in BOOLEAN : PutRow(r, s, [config |-> c, enabled |-> on])
    BY <1>8 DEF CreateStorage
  <2>2. [config |-> c, enabled |-> on] \in Rows /\ req[r].at # "register"
    BY <1>8 DEF Rows, CreateStorage, Free, At
  <2> QED
    BY <1>1, <1>8, <2>1, <2>2, PutRowCurrent DEF CreateStorage
<1>9. ASSUME NEW s \in Storages, FindStorage(r, s)
      PROVE  RegistryInv'
  <2>1. /\ \A q \in Requests : q # r => req'[q] = req[q]
        /\ req'[r].at = "write" /\ req[r].at # "register"
    BY <1>0, <1>9 DEF FindStorage, Free, At, Idle
  <2> QED
    BY <1>1, <1>9, <2>1, RegistryFrame DEF FindStorage
<1>10. ASSUME NEW s \in Storages, DisableStorage(r, s)
       PROVE  RegistryInv'
  <2>1. [row[s] EXCEPT !.enabled = FALSE] \in Rows /\ req[r].at # "register"
    <3>1. row[s] \in [config : Configs, enabled : BOOLEAN]
      BY <1>0, <1>10 DEF DisableStorage, Rows, TypeOK
    <3> QED
      BY <1>10, <3>1 DEF Rows, DisableStorage, Free, At
  <2> QED
    BY <1>1, <1>10, <2>1, PutRowCurrent DEF DisableStorage
<1>11. CASE UpdateStorage(r)
  <2>1. req[r].on \in Storages /\ req[r].to \in Rows /\ req[r].at # "register"
    BY <1>0, <1>11 DEF UpdateStorage, At, TypeInv, Request
  <2> QED
    BY <1>1, <1>11, <2>1, PutRowCurrent DEF UpdateStorage
<1>12. CASE Register(r)
  BY <1>12, RegisterCurrent
<1>13. ASSUME NEW j \in Jobs, ExportStatus(r, j)
       PROVE  RegistryInv'
  <2>1. /\ \A q \in Requests : q # r => req'[q] = req[q]
        /\ req'[r].at = "take" /\ req[r].at # "register"
    BY <1>0, <1>13 DEF ExportStatus, Free, At, Idle
  <2> QED
    BY <1>1, <1>13, <2>1, RegistryFrame DEF ExportStatus
<1>14. ASSUME NEW j \in Jobs, NEW s \in Storages, StartExport(r, s, j)
       PROVE  RegistryInv'
  BY <1>14, RegistryStays DEF StartExport
<1>15. CASE InsertLink(r) \/ IncrementCount(r) \/ Fail(r) \/ TakeArchive(r)
  BY <1>4, <1>15 DEF InsertLink, IncrementCount, Fail, TakeArchive
<1> QED
  BY <1>2, <1>3, <1>5, <1>6, <1>7, <1>8, <1>9, <1>10, <1>11, <1>12, <1>13, <1>14, <1>15
     DEF LinkStep, ReadStep, AdminStep

\* Every step preserves RegistryInv.
LEMMA RegistryStep == TypeInv /\ RegistryInv /\ [Next]_vars => RegistryInv'
<1> SUFFICES ASSUME TypeInv, RegistryInv, [Next]_vars PROVE RegistryInv'
  OBVIOUS
<1>1. CASE UNCHANGED <<storageVars, req>>
  BY <1>1, RegistryStays
<1>2. CASE UNCHANGED vars
  BY <1>1, <1>2 DEF vars
<1>3. CASE \E l \in Links : Expire(l) \/ DeactivateLink(l) \/ DeleteLink(l)
  BY <1>1, <1>3 DEF Expire, DeactivateLink, DeleteLink
<1>4. CASE \E p \in Projects : \/ UpdateProject(p) \/ DeleteProject(p) \/ DeleteReference(p)
                               \/ \E s \in Storages : UpdateAssignment(p, s)
  BY <1>1, <1>4 DEF UpdateProject, DeleteProject, DeleteReference, UpdateAssignment
<1>5. CASE \E j \in Jobs : JobStep(j)
  BY <1>1, <1>5 DEF JobStep, ExportBackend, ExportCopy, ExportDone, ExportStore
<1> QED
  BY <1>2, <1>3, <1>4, <1>5, NodeCurrent, RequestCurrent DEF Next

\* A process holds the backend of the row of every storage unless it missed an
\* edit, for any number of processes, edits, crashes and restarts
\* (update_storage, load_backends_from_db).
THEOREM RegistrySafe == Spec => []RegistryCurrent
<1>1. Init => RegistryInv
  <2> SUFFICES ASSUME Init PROVE RegistryInv
    OBVIOUS
  <2>1. \A r \in Requests : At(r, "idle")
    BY DEF Init, At, Idle
  <2>2. \A n \in Nodes, s \in Storages : Registering(n, s) = {}
    BY <2>1 DEF Registering, At
  <2>3. \A s \in Storages : row[s].config = RowEntry(s)
    <3>1. PICK c \in Configs \ Broken, some \in SUBSET Storages :
             row = [s \in Storages |-> IF s \in some THEN [config |-> c, enabled |-> TRUE]
                                       ELSE NoRow]
      BY DEF Init
    <3> QED
      BY <3>1 DEF RowEntry, NoRow
  <2>4. \A n \in Nodes, s \in Storages : registry[n][s] = RowEntry(s) /\ loaded[n][s] = RowEntry(s)
    BY <2>3 DEF Init
  <2> QED
    BY <2>1, <2>2, <2>4 DEF RegistryInv, Current
<1>2. RegistryInv => RegistryCurrent
  BY DEF RegistryInv, RegistryCurrent, Current, RowEntry
<1> QED
  BY <1>1, <1>2, InitType, TypeStep, RegistryStep, PTL DEF Spec

-----------------------------------------------------------------------------
(* Exports                                                                 *)

\* The lock is held by the export of the process that is just completed and has
\* not stored its archive; an archive is there, or was handed out, once.
ArchiveInv ==
    \A j \in Jobs :
        /\ job[j].status \notin {"completed", "lost"} => handed[j] = 0 /\ ~job[j].data
        /\ job[j].data => job[j].status = "completed" /\ handed[j] = 0
        /\ handed[j] \in {0, 1}
        /\ \A n \in Nodes : lock[n] = j =>
              job[j].home = n /\ job[j].status = "completed" /\ ~job[j].data /\ handed[j] = 0
        /\ job[j].status = "completed" /\ (\A n \in Nodes : lock[n] # j) =>
              job[j].data \/ handed[j] = 1

\* The state of one export, with the processes whose lock it holds.
LEMMA ArchiveFrame ==
    ASSUME ArchiveInv, UNCHANGED <<job, lock, handed>>
    PROVE  ArchiveInv'
  BY DEF ArchiveInv

\* An export that goes on before it is completed.
LEMMA ArchiveMove ==
    ASSUME TypeInv, ArchiveInv, NEW j \in Jobs, NEW rec \in JobRec, SetJob(j, rec),
           job[j].status \notin {"completed", "lost"}, rec.status \notin {"completed", "lost"},
           rec.data = job[j].data, UNCHANGED <<lock, handed>>
    PROVE  ArchiveInv'
<1>1. /\ job'[j] = rec /\ \A k \in Jobs : k # j => job'[k] = job[k]
  BY DEF SetJob, TypeInv, TypeOK
<1>2. \A n \in Nodes : lock[n] # j
  BY DEF ArchiveInv
<1> QED
  BY <1>1, <1>2 DEF ArchiveInv

\* Every step preserves ArchiveInv.
LEMMA ArchiveStep == TypeInv /\ ArchiveInv /\ [Next]_vars => ArchiveInv'
<1> SUFFICES ASSUME TypeInv, ArchiveInv, [Next]_vars PROVE ArchiveInv'
  OBVIOUS
<1>0. /\ job \in [Jobs -> JobRec] /\ handed \in [Jobs -> Nat]
      /\ lock \in [Nodes -> Jobs \cup {None}]
  BY DEF TypeInv, TypeOK
<1>1. CASE UNCHANGED <<job, lock, handed>>
  BY <1>1, ArchiveFrame
<1>2. ASSUME NEW r \in Requests, NEW s \in Storages, NEW j \in Jobs, StartExport(r, s, j)
      PROVE  ArchiveInv'
  <2> DEFINE rec == [job[j] EXCEPT !.home = Home[r], !.on = s, !.status = "started"]
  <2>0. job[j] \in JobRec /\ Home[r] \in Nodes
    BY <1>0, ConstantsAssumption
  <2>1. rec \in JobRec /\ rec.status = "started" /\ rec.data = job[j].data
    BY <2>0 DEF JobRec, Statuses
  <2> QED
    BY <1>2, <2>1, ArchiveMove DEF StartExport
<1>3. ASSUME NEW j \in Jobs, ExportBackend(j)
      PROVE  ArchiveInv'
  <2> DEFINE c == registry[job[j].home][job[j].on]
  <2>1. c \in Configs \cup {None}
    BY <1>3 DEF ExportBackend, TypeInv, TypeOK
  <2>2. CASE SetJob(j, [job[j] EXCEPT !.status = "failed"])
    <3> DEFINE rec == [job[j] EXCEPT !.status = "failed"]
    <3>1. rec \in JobRec /\ rec.status = "failed" /\ rec.data = job[j].data
      BY <1>0 DEF JobRec, Statuses
    <3> QED
      BY <1>3, <2>2, <3>1, ArchiveMove DEF ExportBackend
  <2>3. CASE SetJob(j, [job[j] EXCEPT !.status = "copy", !.from = c])
    <3> DEFINE rec == [job[j] EXCEPT !.status = "copy", !.from = c]
    <3>1. rec \in JobRec /\ rec.status = "copy" /\ rec.data = job[j].data
      BY <1>0, <2>1 DEF JobRec, Statuses
    <3> QED
      BY <1>3, <2>3, <3>1, ArchiveMove DEF ExportBackend
  <2> QED
    BY <1>3, <2>2, <2>3 DEF ExportBackend
<1>4. ASSUME NEW j \in Jobs, ExportCopy(j)
      PROVE  ArchiveInv'
  <2>1. ASSUME NEW there \in BOOLEAN,
               SetJob(j, [job[j] EXCEPT !.status = "built", !.archive = there])
        PROVE  ArchiveInv'
    <3> DEFINE rec == [job[j] EXCEPT !.status = "built", !.archive = there]
    <3>1. rec \in JobRec /\ rec.status = "built" /\ rec.data = job[j].data
      BY <1>0 DEF JobRec, Statuses
    <3> QED
      BY <1>4, <2>1, <3>1, ArchiveMove DEF ExportCopy
  <2>2. CASE SetJob(j, [job[j] EXCEPT !.status = "built"])
    <3> DEFINE rec == [job[j] EXCEPT !.status = "built"]
    <3>1. rec \in JobRec /\ rec.status = "built" /\ rec.data = job[j].data
      BY <1>0 DEF JobRec, Statuses
    <3> QED
      BY <1>4, <2>2, <3>1, ArchiveMove DEF ExportCopy
  <2>3. Stored(job[j].on, <<job[j].from, Own>>) \in BOOLEAN
    BY DEF Stored
  <2> QED
    BY <1>4, <2>1, <2>2, <2>3 DEF ExportCopy
<1>5. ASSUME NEW j \in Jobs, ExportDone(j)
      PROVE  ArchiveInv'
  <2>1. /\ job'[j].status = "completed" /\ job'[j].data = job[j].data
        /\ job'[j].home = job[j].home /\ \A k \in Jobs : k # j => job'[k] = job[k]
    BY <1>0, <1>5 DEF ExportDone, SetJob, JobRec
  <2>2. job[j].home \in Nodes /\ lock[job[j].home] = None /\ job[j].status = "built"
    BY <1>5 DEF ExportDone, TypeInv
  <2>3. \A n \in Nodes : lock'[n] = IF n = job[j].home THEN j ELSE lock[n]
    BY <1>0, <1>5 DEF ExportDone
  <2>4. handed' = handed
    BY <1>5 DEF ExportDone
  <2>5. \A k \in Jobs : (\A n \in Nodes : lock'[n] # k) => \A n \in Nodes : lock[n] # k
    BY <2>2, <2>3, ConstantsAssumption
  <2> QED
    BY <2>1, <2>2, <2>3, <2>4, <2>5 DEF ArchiveInv
<1>6. ASSUME NEW j \in Jobs, ExportStore(j)
      PROVE  ArchiveInv'
  <2>1. PICK m \in Nodes : lock[m] = j /\ lock' = [lock EXCEPT ![m] = None]
    BY <1>6 DEF ExportStore
  <2>2. /\ job'[j].status = job[j].status /\ job'[j].data /\ job'[j].home = job[j].home
        /\ \A k \in Jobs : k # j => job'[k] = job[k]
    BY <1>0, <1>6 DEF ExportStore, SetJob, JobRec
  <2>3. /\ job[j].home = m /\ job[j].status = "completed" /\ handed[j] = 0
        /\ \A n \in Nodes : n # m => lock[n] # j
    BY <2>1 DEF ArchiveInv
  <2>4. \A n \in Nodes : lock'[n] = IF n = m THEN None ELSE lock[n]
    BY <1>0, <2>1
  <2>5. handed' = handed
    BY <1>6 DEF ExportStore
  <2> QED
    BY <2>1, <2>2, <2>3, <2>4, <2>5, ConstantsAssumption DEF ArchiveInv
<1>7. ASSUME NEW r \in Requests, TakeArchive(r)
      PROVE  ArchiveInv'
  <2> DEFINE j == req[r].job
  <2>1. CASE UNCHANGED <<job, handed>>
    BY <1>7, <2>1, ArchiveFrame DEF TakeArchive
  <2>2. CASE /\ j \in Jobs /\ job[j].data
             /\ SetJob(j, [job[j] EXCEPT !.data = FALSE])
             /\ handed' = [handed EXCEPT ![j] = handed[j] + 1]
    <3>1. /\ job'[j].status = job[j].status /\ ~job'[j].data /\ job'[j].home = job[j].home
          /\ \A k \in Jobs : k # j => job'[k] = job[k]
      BY <1>0, <2>2 DEF SetJob, JobRec
    <3>2. job[j].status = "completed" /\ handed[j] = 0 /\ \A n \in Nodes : lock[n] # j
      BY <2>2 DEF ArchiveInv
    <3>3. handed'[j] = 1 /\ \A k \in Jobs : k # j => handed'[k] = handed[k]
      BY <1>0, <2>2, <3>2
    <3>4. lock' = lock
      BY <1>7 DEF TakeArchive
    <3> QED
      BY <3>1, <3>2, <3>3, <3>4 DEF ArchiveInv
  <2>3. CASE /\ j \notin Jobs
             /\ SetJob(j, [job[j] EXCEPT !.data = FALSE])
             /\ handed' = [handed EXCEPT ![j] = handed[j] + 1]
    <3>1. UNCHANGED <<job, handed>>
      BY <1>0, <2>3 DEF SetJob
    <3> QED
      BY <1>7, <3>1, ArchiveFrame DEF TakeArchive
  <2> QED
    BY <1>7, <2>1, <2>2, <2>3 DEF TakeArchive
<1>8. ASSUME NEW n \in Nodes, Crash(n)
      PROVE  ArchiveInv'
  <2>1. \A k \in Jobs : job[k].home # n => job'[k] = job[k]
    BY <1>8 DEF Crash
  <2>2. ASSUME NEW k \in Jobs, job[k].home = n
        PROVE  job'[k].status = "lost" /\ ~job'[k].data
    <3>1. job'[k] = [job[k] EXCEPT !.status = "lost", !.data = FALSE]
      BY <1>8, <2>2 DEF Crash
    <3> QED
      BY <1>0, <3>1 DEF JobRec
  <2>3. \A m \in Nodes : lock'[m] = IF m = n THEN None ELSE lock[m]
    BY <1>0, <1>8 DEF Crash
  <2>4. handed' = handed
    BY <1>8 DEF Crash
  <2>5. ASSUME NEW k \in Jobs, job[k].home = n
        PROVE  \A m \in Nodes : lock'[m] # k
    BY <2>3, <2>5, ConstantsAssumption DEF ArchiveInv
  <2>6. ASSUME NEW k \in Jobs, job[k].home # n
        PROVE  \A m \in Nodes : lock'[m] = k <=> lock[m] = k
    BY <2>3, <2>6, ConstantsAssumption DEF ArchiveInv
  <2> QED
    BY <2>1, <2>2, <2>4, <2>5, <2>6 DEF ArchiveInv
<1>9. CASE \E r \in Requests : LinkStep(r) \/ ReadStep(r)
  <2>1. ASSUME NEW r \in Requests, LinkStep(r) PROVE UNCHANGED <<job, lock, handed>>
    BY <2>1 DEF LinkStep, CreateLink, VerifyPassword, DownloadLink, InsertLink, IncrementCount,
       exportVars
  <2>2. ASSUME NEW r \in Requests, ReadStep(r) PROVE UNCHANGED <<job, lock, handed>>
    BY <2>2 DEF ReadStep, DownloadFile, Locate, ReadRefs, Resolve, Fetch, FetchFail, Fail, exportVars
  <2> QED BY <1>1, <1>9, <2>1, <2>2
<1>10. CASE \E r \in Requests : \/ \E s \in Storages : CreateStorage(r, s) \/ FindStorage(r, s)
                                                         \/ DisableStorage(r, s)
                                \/ UpdateStorage(r) \/ Register(r)
                                \/ \E j \in Jobs : ExportStatus(r, j)
  BY <1>1, <1>10 DEF CreateStorage, FindStorage, DisableStorage, UpdateStorage, Register,
     ExportStatus, exportVars
<1>11. CASE \E l \in Links : Expire(l) \/ DeactivateLink(l) \/ DeleteLink(l)
  BY <1>1, <1>11 DEF Expire, DeactivateLink, DeleteLink, exportVars
<1>12. CASE \E p \in Projects : \/ UpdateProject(p) \/ DeleteProject(p) \/ DeleteReference(p)
                                \/ \E s \in Storages : UpdateAssignment(p, s)
  BY <1>1, <1>12 DEF UpdateProject, DeleteProject, DeleteReference, UpdateAssignment, exportVars
<1>13. CASE \E n \in Nodes : Start(n) \/ Listen(n)
  BY <1>1, <1>13 DEF Start, Listen, exportVars
<1>14. CASE UNCHANGED vars
  BY <1>1, <1>14 DEF vars, exportVars
<1> QED
  BY <1>2, <1>3, <1>4, <1>5, <1>6, <1>7, <1>8, <1>9, <1>10, <1>11, <1>12, <1>13, <1>14
     DEF Next, AdminStep, JobStep

\* An archive that a client sees completed is there until it is handed out, and it
\* is handed out once, for any number of exports and processes (start_export).
THEOREM ArchiveSafe == Spec => []ArchiveKept
<1>1. Init => ArchiveInv
  BY ConstantsAssumption DEF Init, ArchiveInv
<1>2. ArchiveInv => ArchiveKept
  BY DEF ArchiveInv, ArchiveKept
<1> QED
  BY <1>1, <1>2, InitType, TypeStep, ArchiveStep, PTL DEF Spec

-----------------------------------------------------------------------------
(* Why a download fails                                                    *)

\* No copy on a storage of S is in the container of a project that a download
\* of link l resolves with.
Unfound(l, S) ==
    \A o \in objects : o[1] \in S =>
       \A p \in RefsFor(l) : o[2] # <<row[o[1]].config, container[p][o[1]]>>

\* How far a download has come: every location is still to be tried, is being
\* tried with at least the backends of the projects, or does not have the file.
Sought(x) ==
    /\ x.at = "refs" => Synced \subseteq x.todo
    /\ x.at = "next" => x.refs = RefsFor(x.link) /\ Unfound(x.link, Synced \ x.todo)
    /\ x.at = "fetch" => /\ x.refs = RefsFor(x.link)
                         /\ Unfound(x.link, Synced \ (x.todo \cup {x.on}))
                         /\ ProjectPlaces(x.on, x.refs) \subseteq x.from
    /\ x.at = "failed" => Unfound(x.link, Synced)

SearchInv ==
    ~moved /\ faults = 0 => /\ \A s \in Synced : row[s].enabled
                            /\ \A r \in Requests : Sought(req[r])

\* What a download has found out does not depend on the registries.
LEMMA SoughtFrame ==
    ASSUME NEW x, Sought(x), UNCHANGED <<row, container, references, gone, objects>>
    PROVE  Sought(x)'
<1>1. Synced' = Synced /\ \A l, S : Unfound(l, S)' = Unfound(l, S)
  BY DEF Synced, Unfound, RefsFor
<1>2. \A l : RefsFor(l)' = RefsFor(l)
  BY DEF RefsFor
<1>3. \A s, refs : ProjectPlaces(s, refs)' = ProjectPlaces(s, refs)
  BY DEF ProjectPlaces
<1> QED BY <1>1, <1>2, <1>3 DEF Sought

\* A request outside the search for a location.
Elsewhere(x) == x.at \notin {"refs", "next", "fetch", "failed"}

\* A step that changes nothing a download looks at, after which each request is
\* where it was, is elsewhere, or has come as far as it says.
LEMMA SearchFrame ==
    ASSUME SearchInv,
           ~moved' /\ faults' = 0 =>
              /\ ~moved /\ faults = 0
              /\ UNCHANGED <<row, container, references, gone, objects>>
              /\ \A r \in Requests :
                    req'[r] = req[r] \/ Elsewhere(req'[r]) \/ Sought(req'[r])
    PROVE  SearchInv'
<1> SUFFICES ASSUME ~moved', faults' = 0
             PROVE  (\A s \in Synced : row[s].enabled)' /\ \A r \in Requests : Sought(req[r])'
  BY DEF SearchInv
<1>1. UNCHANGED <<row, container, references, gone, objects>>
  OBVIOUS
<1>2. (\A s \in Synced : row[s].enabled)'
  BY <1>1 DEF SearchInv, Synced
<1>3. ASSUME NEW r \in Requests PROVE Sought(req[r])'
  <2>1. Sought(req[r])
    BY DEF SearchInv
  <2>2. PICK x : x = req'[r] /\ Sought(x)
    <3>1. Elsewhere(req'[r]) => Sought(req'[r])
      BY DEF Elsewhere, Sought
    <3> QED BY <2>1, <3>1
  <2>3. Sought(x)'
    BY <1>1, <2>2, SoughtFrame
  <2> QED BY <2>2, <2>3 DEF Sought
<1> QED BY <1>2, <1>3

\* A request that moves on.
LEMMA SearchMove ==
    ASSUME TypeInv, SearchInv, NEW r \in Requests, NEW x \in Request,
           req' = [req EXCEPT ![r] = x],
           ~moved /\ faults = 0 => Elsewhere(x) \/ Sought(x),
           UNCHANGED <<row, projectVars, objects, faults, moved>>
    PROVE  SearchInv'
<1>1. req'[r] = x /\ \A q \in Requests : q # r => req'[q] = req[q]
  BY Moves DEF TypeInv
<1> QED BY <1>1, SearchFrame DEF projectVars

\* The backend of a project that refers to the file is one that is tried.
LEMMA ProjectTried ==
    ASSUME TypeInv, LinkInv, ~moved, NEW s \in Synced, NEW refs \in SUBSET Projects, NEW p \in refs
    PROVE  <<row[s].config, container[p][s]>> \in ProjectPlaces(s, refs)
<1>1. row[s].config \in Configs \ Broken /\ gone = {}
  BY DEF LinkInv, Usable
<1>2. CreateBackend(row[s].config) # None
  BY <1>1, ConstantsAssumption DEF CreateBackend
<1> QED BY <1>1, <1>2 DEF ProjectPlaces

\* Every step of a download leaves its account of the locations right.
LEMMA ReadSearch ==
    ASSUME TypeInv, LinkInv, SearchInv, NEW r \in Requests, ReadStep(r)
    PROVE  SearchInv'
<1>0. TypeOK /\ req[r] \in Request
  BY DEF TypeInv, TypeOK
<1>s. ~moved /\ faults = 0 => Sought(req[r])
  BY DEF SearchInv
<1>1. CASE DownloadFile(r)
  <2> DEFINE x == [Idle EXCEPT !.at = "locate"]
  <2>1. x \in Request /\ Elsewhere(x)
    BY ConstantsAssumption DEF Idle, Request, Steps, Rows, NoRow, Elsewhere
  <2> QED BY <1>1, <2>1, SearchMove DEF DownloadFile, storageVars, fixed
<1>2. CASE Locate(r)
  <2> DEFINE x == [req[r] EXCEPT !.at = IF Locations = {} THEN "failed" ELSE "refs",
                                 !.todo = Locations]
  <2>1. Locations \subseteq Storages
    BY <1>0 DEF Locations, Synced, TypeOK
  <2>2. /\ x \in Request /\ x.todo = Locations /\ x.link = req[r].link
        /\ x.at = IF Locations = {} THEN "failed" ELSE "refs"
    BY <1>0, <2>1 DEF Request, Steps
  <2>3. req' = [req EXCEPT ![r] = x]
    BY <1>0, <1>2 DEF Locate
  <2> HIDE DEF x
  <2>4. ASSUME ~moved, faults = 0 PROVE Sought(x)
    <3>1. Locations = Synced
      BY <2>4 DEF SearchInv, Locations
    <3>2. Synced = {} => \A l : Unfound(l, Synced)
      BY DEF Unfound
    <3> QED BY <2>2, <3>1, <3>2 DEF Sought
  <2> QED BY <1>2, <2>2, <2>3, <2>4, SearchMove DEF Locate, storageVars, fixed
<1>3. CASE ReadRefs(r)
  <2> DEFINE x == [req[r] EXCEPT !.at = "next", !.refs = RefsFor(req[r].link)]
  <2>1. RefsFor(req[r].link) \subseteq Projects
    BY <1>0 DEF RefsFor, TypeOK
  <2>2. /\ x \in Request /\ x.at = "next" /\ x.todo = req[r].todo
        /\ x.link = req[r].link /\ x.refs = RefsFor(req[r].link)
    BY <1>0, <2>1 DEF Request, Steps
  <2>3. req' = [req EXCEPT ![r] = x]
    BY <1>0, <1>3 DEF ReadRefs
  <2> HIDE DEF x
  <2>4. ASSUME ~moved, faults = 0 PROVE Sought(x)
    <3>1. Synced \ x.todo = {}
      BY <1>s, <1>3, <2>2, <2>4 DEF Sought, ReadRefs, At
    <3>2. Unfound(x.link, Synced \ x.todo)
      BY <3>1 DEF Unfound
    <3> QED BY <2>2, <3>2 DEF Sought
  <2> QED BY <1>3, <2>2, <2>3, <2>4, SearchMove DEF ReadRefs, storageVars, fixed
<1>4. CASE Resolve(r)
  <2>0. CASE faults' = faults + 1
    <3>1. faults' # 0
      BY <1>0, <2>0 DEF TypeOK
    <3> QED BY <3>1 DEF SearchInv
  <2>1. ASSUME NEW s \in req[r].todo, UNCHANGED faults,
               req' = [req EXCEPT ![r].at = "fetch", ![r].on = s,
                                  ![r].todo = req[r].todo \ {s},
                                  ![r].from = Backends(Home[r], s, req[r].refs)]
        PROVE  SearchInv'
    <3> DEFINE x == [req[r] EXCEPT !.at = "fetch", !.on = s, !.todo = req[r].todo \ {s},
                                   !.from = Backends(Home[r], s, req[r].refs)]
    <3>1. Home[r] \in Nodes /\ s \in Storages /\ req[r].refs \in SUBSET Projects
      BY <1>0, ConstantsAssumption DEF Request
    <3>2. /\ x \in Request /\ x.at = "fetch" /\ x.todo = req[r].todo \ {s} /\ x.on = s
          /\ x.link = req[r].link /\ x.refs = req[r].refs
          /\ x.from = Backends(Home[r], s, req[r].refs)
      BY <1>0, <3>1, BackendsType DEF Request, Steps
    <3>3. req' = [req EXCEPT ![r] = x]
      BY <1>0, <2>1
    <3> HIDE DEF x
    <3>4. ProjectPlaces(x.on, x.refs) \subseteq x.from
      BY <3>2 DEF Backends
    <3>5. x.todo \cup {x.on} = req[r].todo
      BY <3>2
    <3>6. ASSUME ~moved, faults = 0 PROVE Sought(x)
      BY <1>s, <1>4, <3>2, <3>4, <3>5, <3>6 DEF Sought, Resolve, At
    <3> QED BY <1>4, <2>1, <3>2, <3>3, <3>6, SearchMove DEF Resolve, storageVars, fixed
  <2>2. CASE /\ req[r].todo = {} /\ UNCHANGED faults
             /\ req' = [req EXCEPT ![r] = [Idle EXCEPT !.at = "failed", !.link = req[r].link]]
    <3> DEFINE x == [Idle EXCEPT !.at = "failed", !.link = req[r].link]
    <3>1. x \in Request /\ x.at = "failed" /\ x.link = req[r].link
      BY <1>0 DEF Idle, Request, Steps, Rows, NoRow
    <3> HIDE DEF x
    <3>2. Synced \ req[r].todo = Synced
      BY <2>2
    <3>3. ASSUME ~moved, faults = 0 PROVE Sought(x)
      BY <1>s, <1>4, <3>1, <3>2, <3>3 DEF Sought, Resolve, At
    <3>4. req' = [req EXCEPT ![r] = x]
      BY <2>2 DEF x
    <3> QED BY <1>4, <2>2, <3>1, <3>3, <3>4, SearchMove DEF Resolve, storageVars, fixed
  <2> QED BY <1>4, <2>0, <2>1, <2>2 DEF Resolve
<1>5. CASE Fetch(r)
  <2>1. UNCHANGED <<row, projectVars, objects, faults, moved>>
    BY <1>5 DEF Fetch, storageVars, fixed
  <2>2. CASE Done(r)
    <3>1. Elsewhere(Idle)
      BY DEF Elsewhere, Idle
    <3> QED BY <2>1, <2>2, <3>1, IdleType, SearchMove DEF Done
  <2>3. ASSUME NEW b \in req[r].from,
               req' = [req EXCEPT ![r].at = "count", ![r].from = {b},
                                  ![r].todo = {}, ![r].refs = {}]
        PROVE  SearchInv'
    <3> DEFINE x == [req[r] EXCEPT !.at = "count", !.from = {b}, !.todo = {}, !.refs = {}]
    <3>1. x \in Request /\ x.at = "count"
      BY <1>0 DEF Request, Steps
    <3>2. req' = [req EXCEPT ![r] = x]
      BY <1>0, <2>3
    <3> HIDE DEF x
    <3> QED BY <2>1, <3>1, <3>2, SearchMove DEF Elsewhere
  <2> QED BY <1>5, <2>2, <2>3 DEF Fetch
<1>6. CASE FetchFail(r)
  <2> DEFINE x == [req[r] EXCEPT !.at = "next", !.from = {}]
  <2>0. faults \in Nat /\ UNCHANGED <<row, projectVars, objects, moved>>
    BY <1>0, <1>6 DEF TypeOK, FetchFail, storageVars, fixed
  <2>1. /\ x \in Request /\ x.at = "next" /\ x.todo = req[r].todo
        /\ x.refs = req[r].refs /\ x.link = req[r].link
    BY <1>0 DEF Request, Steps
  <2>2. req' = [req EXCEPT ![r] = x]
    BY <1>0, <1>6 DEF FetchFail
  <2> HIDE DEF x
  <2>3. CASE faults' = faults + 1
    <3>1. faults' # 0
      BY <2>0, <2>3
    <3> QED BY <3>1 DEF SearchInv
  <2>4. CASE (\A b \in req[r].from : ~Stored(req[r].on, b)) /\ UNCHANGED faults
    <3>1. ASSUME ~moved, faults = 0 PROVE Sought(x)
      <4>1. /\ req[r].refs = RefsFor(req[r].link) /\ req[r].refs \in SUBSET Projects
            /\ Unfound(req[r].link, Synced \ (req[r].todo \cup {req[r].on}))
            /\ ProjectPlaces(req[r].on, req[r].refs) \subseteq req[r].from
        BY <1>0, <1>s, <1>6, <3>1 DEF Sought, FetchFail, At, Request
      <4>2. ASSUME NEW o \in objects, o[1] = req[r].on, NEW p \in RefsFor(req[r].link)
            PROVE  o[2] # <<row[o[1]].config, container[p][o[1]]>>
        <5>1. o[1] \in Synced /\ o = <<o[1], o[2]>>
          BY <1>0 DEF Synced, TypeOK
        <5>2. <<row[o[1]].config, container[p][o[1]]>> \in ProjectPlaces(o[1], req[r].refs)
          BY <3>1, <4>1, <5>1, ProjectTried
        <5> QED BY <2>4, <4>1, <4>2, <5>1, <5>2 DEF Stored
      <4>3. Unfound(req[r].link, Synced \ req[r].todo)
        BY <4>1, <4>2 DEF Unfound
      <4> QED BY <2>1, <4>1, <4>3 DEF Sought
    <3> QED BY <2>0, <2>1, <2>2, <2>4, <3>1, SearchMove
  <2> QED BY <1>6, <2>3, <2>4 DEF FetchFail
<1>7. CASE Fail(r)
  <2>1. Elsewhere(Idle)
    BY DEF Elsewhere, Idle
  <2> QED BY <1>7, <2>1, IdleType, SearchMove DEF Fail, Done, storageVars, fixed
<1> QED BY <1>1, <1>2, <1>3, <1>4, <1>5, <1>6, <1>7 DEF ReadStep

\* A request that is not a download, or not one that looks for a location.
LEMMA RequestSearch ==
    ASSUME TypeInv, LinkInv, SearchInv, NEW r \in Requests, LinkStep(r) \/ AdminStep(r)
    PROVE  SearchInv'
<1>0. req \in [Requests -> Request] /\ Elsewhere(Idle)
  BY DEF TypeInv, TypeOK, Elsewhere, Idle
<1>1. CASE moved'
  BY <1>1 DEF SearchInv
<1>2. ASSUME NEW at \in {"insert", "locate", "write", "take"}, NEW x, req' = [req EXCEPT ![r] = x],
             x.at = at, UNCHANGED <<row, projectVars, objects, faults, moved>>
      PROVE  SearchInv'
  <2>1. req'[r] = x /\ Elsewhere(x) /\ \A q \in Requests : q # r => req'[q] = req[q]
    BY <1>0, <1>2 DEF Elsewhere
  <2> QED BY <1>2, <2>1, SearchFrame DEF projectVars
<1>3. ASSUME Done(r), UNCHANGED <<row, projectVars, objects, faults, moved>>
      PROVE  SearchInv'
  BY <1>0, <1>3, IdleType, SearchMove DEF Done
<1>4. ASSUME UNCHANGED <<req, row, projectVars, objects, faults, moved>>
      PROVE  SearchInv'
  BY <1>4, SearchFrame DEF projectVars
<1>5. ASSUME NEW l \in Links, CreateLink(r, l) \/ DownloadLink(r, l) PROVE SearchInv'
  <2>1. UNCHANGED <<row, projectVars, objects, faults, moved>>
    BY <1>5 DEF CreateLink, DownloadLink, storageVars, fixed
  <2>2. PICK at \in {"insert", "locate"} : req' = [req EXCEPT ![r] = [Idle EXCEPT !.at = at, !.link = l]]
    BY <1>5 DEF CreateLink, DownloadLink
  <2>3. [Idle EXCEPT !.at = at, !.link = l].at = at
    BY DEF Idle
  <2> QED BY <1>2, <2>1, <2>2, <2>3
<1>6. ASSUME NEW l \in Links, VerifyPassword(r, l) PROVE SearchInv'
  BY <1>4, <1>6 DEF VerifyPassword, storageVars, fixed
<1>7. CASE InsertLink(r) \/ IncrementCount(r)
  BY <1>3, <1>7 DEF InsertLink, IncrementCount, storageVars, fixed
<1>8. ASSUME NEW s \in Storages, CreateStorage(r, s) \/ DisableStorage(r, s) PROVE SearchInv'
  BY <1>1, <1>8 DEF CreateStorage, DisableStorage, PutRow
<1>9. CASE UpdateStorage(r)
  BY <1>1, <1>9 DEF UpdateStorage, PutRow
<1>10. ASSUME NEW s \in Storages, FindStorage(r, s) PROVE SearchInv'
  <2>1. UNCHANGED <<row, projectVars, objects, faults, moved>>
    BY <1>10 DEF FindStorage, storageVars, fixed
  <2>2. PICK to : req' = [req EXCEPT ![r] = [Idle EXCEPT !.at = "write", !.on = s, !.to = to]]
    BY <1>10 DEF FindStorage
  <2>3. [Idle EXCEPT !.at = "write", !.on = s, !.to = to].at = "write"
    BY DEF Idle
  <2> QED BY <1>2, <2>1, <2>2, <2>3
<1>11. CASE Register(r) \/ TakeArchive(r)
  BY <1>3, <1>11 DEF Register, TakeArchive, storageVars, fixed
<1>12. ASSUME NEW j \in Jobs, ExportStatus(r, j) PROVE SearchInv'
  <2>1. UNCHANGED <<row, projectVars, objects, faults, moved>>
    BY <1>12 DEF ExportStatus, storageVars, fixed
  <2>2. req' = [req EXCEPT ![r] = [Idle EXCEPT !.at = "take", !.job = j]]
    BY <1>12 DEF ExportStatus
  <2>3. [Idle EXCEPT !.at = "take", !.job = j].at = "take"
    BY DEF Idle
  <2> QED BY <1>2, <2>1, <2>2, <2>3
<1>13. ASSUME NEW j \in Jobs, NEW s \in Storages, StartExport(r, s, j) PROVE SearchInv'
  BY <1>4, <1>13 DEF StartExport, storageVars, fixed
<1> QED BY <1>5, <1>6, <1>7, <1>8, <1>9, <1>10, <1>11, <1>12, <1>13 DEF LinkStep, AdminStep

\* Every step preserves SearchInv.
LEMMA SearchStep == TypeInv /\ LinkInv /\ SearchInv /\ [Next]_vars => SearchInv'
<1> SUFFICES ASSUME TypeInv, LinkInv, SearchInv, [Next]_vars PROVE SearchInv'
  OBVIOUS
<1>1. CASE moved'
  BY <1>1 DEF SearchInv
<1>2. ASSUME UNCHANGED <<row, projectVars, objects, req, faults, moved>> PROVE SearchInv'
  BY <1>2, SearchFrame DEF projectVars
<1>3. CASE UNCHANGED vars
  BY <1>2, <1>3 DEF vars, storageVars, fixed
<1>4. ASSUME NEW r \in Requests, LinkStep(r) \/ ReadStep(r) \/ AdminStep(r) PROVE SearchInv'
  BY <1>4, ReadSearch, RequestSearch
<1>5. ASSUME NEW l \in Links, Expire(l) \/ DeactivateLink(l) \/ DeleteLink(l) PROVE SearchInv'
  BY <1>2, <1>5 DEF Expire, DeactivateLink, DeleteLink, storageVars, fixed
<1>6. ASSUME NEW p \in Projects, UpdateProject(p) \/ DeleteProject(p) \/ DeleteReference(p)
      PROVE  SearchInv'
  BY <1>1, <1>6 DEF UpdateProject, DeleteProject, DeleteReference
<1>7. ASSUME NEW p \in Projects, NEW s \in Storages, UpdateAssignment(p, s) PROVE SearchInv'
  BY <1>1, <1>7 DEF UpdateAssignment
<1>8. ASSUME NEW n \in Nodes, Crash(n) PROVE SearchInv'
  <2>1. UNCHANGED <<row, projectVars, objects, faults, moved>>
    BY <1>8 DEF Crash, fixed
  <2>2. \A r \in Requests : req'[r] = req[r] \/ Elsewhere(req'[r])
    BY <1>8 DEF Crash, Elsewhere, Idle
  <2> QED BY <2>1, <2>2, SearchFrame DEF projectVars
<1>9. ASSUME NEW n \in Nodes, Start(n) \/ Listen(n) PROVE SearchInv'
  BY <1>2, <1>9 DEF Start, Listen, fixed
<1>10. ASSUME NEW j \in Jobs, JobStep(j) PROVE SearchInv'
  <2>1. UNCHANGED <<row, projectVars, objects, req, moved>>
    BY <1>10 DEF JobStep, ExportBackend, ExportCopy, ExportDone, ExportStore, storageVars, fixed
  <2>2. faults' \in {faults, faults + 1} /\ faults \in Nat
    BY <1>10 DEF JobStep, ExportBackend, ExportCopy, ExportDone, ExportStore, TypeInv, TypeOK
  <2>3. faults' = 0 => faults = 0
    BY <2>2
  <2> QED BY <2>1, <2>3, SearchFrame DEF projectVars
<1> QED BY <1>3, <1>4, <1>5, <1>6, <1>7, <1>8, <1>9, <1>10 DEF Next

\* A download that fails without a failing backend call or resolution, and before a storage, a
\* container, a project or a reference was changed, had no copy in a container of
\* a project it resolves with: it has tried every location, with the backend of
\* every such project (resolve_backends_for_location).
THEOREM FailuresExplained == Spec => []FailureExplained
<1>1. Init => SearchInv
  <2> SUFFICES ASSUME Init PROVE (\A s \in Synced : row[s].enabled) /\ \A r \in Requests : Sought(req[r])
    BY DEF SearchInv
  <2>1. \A r \in Requests : Sought(req[r])
    BY DEF Init, Sought, Idle
  <2>2. PICK c \in Configs, some \in SUBSET Storages :
             row = [s \in Storages |-> IF s \in some THEN [config |-> c, enabled |-> TRUE] ELSE NoRow]
    BY DEF Init
  <2>3. PICK stored \in SUBSET {s \in Storages : row[s] # NoRow} :
             \E at \in [stored -> {FirstContainer[p] : p \in Projects} \cup {Own}] :
                objects = {<<s, <<row[s].config, at[s]>>>> : s \in stored}
    BY DEF Init
  <2>4. Synced \subseteq stored /\ \A s \in stored : row[s].enabled
    BY <2>2, <2>3 DEF Synced
  <2> QED BY <2>1, <2>4
<1>2. TypeInv /\ SearchInv => FailureExplained
  <2> SUFFICES ASSUME TypeInv, SearchInv, NEW r \in Requests, At(r, "failed"), ~moved, faults = 0,
                      NEW o \in objects, NEW p \in RefsFor(req[r].link)
               PROVE  o[2] # <<row[o[1]].config, container[p][o[1]]>>
    BY DEF FailureExplained
  <2>1. Unfound(req[r].link, Synced)
    BY DEF SearchInv, Sought, At
  <2>2. o[1] \in Synced
    BY DEF Synced
  <2> QED BY <2>1, <2>2 DEF Unfound
<1> QED BY <1>1, <1>2, InitType, TypeStep, LinkInvInit, LinkInvStep, SearchStep, PTL DEF Spec

-----------------------------------------------------------------------------
(* Revoked links                                                           *)

\* A link that is to be inserted is not there yet, and no other request has it.
NewInv ==
    \A r \in Requests : At(r, "insert") =>
        /\ req[r].link \in Links /\ link[req[r].link] = "none"
        /\ \A q \in Requests : q # r => req[q].link # req[r].link

\* A link that was deactivated or deleted stays so, and no download of it begins
\* (validate_link_accessible, deactivate_link, delete_by_user): the part of
\* RevocationHolds that needs no fairness.
RevokedForGood ==
    [][\A l \in Links : Revoked(l) =>
          Revoked(l)' /\ \A r \in Requests : req'[r].link = l => req[r].link = l]_vars

\* An idle request has no link, and one whose download is to be counted has.
Ready(x) == /\ x.at = "idle" => x.link = None
            /\ x.at = "count" => x.link # None

\* A step that takes no link into a request and changes none.
LinkQuiet ==
    /\ link' = link
    /\ \A r \in Requests :
          \/ req'[r] = req[r]
          \/ /\ req'[r].at # "insert" /\ Ready(req'[r])
             /\ req'[r].link = None \/ (req'[r].link = req[r].link /\ ~At(r, "insert"))

\* A request that goes on with the link it has, or ends.
LEMMA LinkGoesOn ==
    ASSUME TypeInv, NEW r \in Requests, NEW x, req' = [req EXCEPT ![r] = x], link' = link,
           x.at # "insert", Ready(x), x.link = None \/ (x.link = req[r].link /\ ~At(r, "insert"))
    PROVE  LinkQuiet
<1>1. req'[r] = x /\ \A q \in Requests : q # r => req'[q] = req[q]
  BY DEF TypeInv, TypeOK
<1> QED BY <1>1 DEF LinkQuiet

LEMMA ReadQuiet ==
    ASSUME TypeInv, NEW r \in Requests, ReadStep(r)
    PROVE  LinkQuiet
<1>0. req[r] \in Request /\ link' = link /\ Idle.at = "idle" /\ Idle.link = None
  BY DEF TypeInv, TypeOK, Idle, ReadStep, DownloadFile, Locate, ReadRefs, Resolve, Fetch, FetchFail,
     Fail, linkVars
<1>1. CASE Done(r)
  BY <1>0, <1>1, LinkGoesOn DEF Done, Ready
<1>2. CASE DownloadFile(r)
  <2> DEFINE x == [Idle EXCEPT !.at = "locate"]
  <2>1. x.at = "locate" /\ x.link = None /\ req' = [req EXCEPT ![r] = x]
    BY <1>2 DEF Idle, DownloadFile
  <2> HIDE DEF x
  <2> QED BY <1>0, <2>1, LinkGoesOn DEF Ready
<1>3. ASSUME NEW x, req' = [req EXCEPT ![r] = x], x.at \in {"failed", "refs", "next", "fetch", "count"},
             x.link = req[r].link, x.at = "count" => x.link # None, ~At(r, "insert")
      PROVE  LinkQuiet
  BY <1>0, <1>3, LinkGoesOn DEF Ready
<1>4. CASE Locate(r)
  <2> DEFINE x == [req[r] EXCEPT !.at = IF Locations = {} THEN "failed" ELSE "refs",
                                 !.todo = Locations]
  <2>1. x.at \in {"failed", "refs"} /\ x.link = req[r].link /\ req' = [req EXCEPT ![r] = x]
    BY <1>0, <1>4 DEF Request, Locate, TypeInv, TypeOK
  <2> HIDE DEF x
  <2> QED BY <1>3, <1>4, <2>1 DEF At, Locate
<1>5. CASE ReadRefs(r)
  <2> DEFINE x == [req[r] EXCEPT !.at = "next", !.refs = RefsFor(req[r].link)]
  <2>1. x.at = "next" /\ x.link = req[r].link /\ req' = [req EXCEPT ![r] = x]
    BY <1>0, <1>5 DEF Request, ReadRefs, TypeInv, TypeOK
  <2> HIDE DEF x
  <2> QED BY <1>3, <1>5, <2>1 DEF At, ReadRefs
<1>6. CASE Resolve(r)
  <2>1. ASSUME NEW s, NEW refs,
               req' = [req EXCEPT ![r].at = "fetch", ![r].on = s, ![r].todo = req[r].todo \ {s},
                                  ![r].from = Backends(Home[r], s, refs)]
        PROVE  LinkQuiet
    <3> DEFINE x == [req[r] EXCEPT !.at = "fetch", !.on = s, !.todo = req[r].todo \ {s},
                                   !.from = Backends(Home[r], s, refs)]
    <3>1. x.at = "fetch" /\ x.link = req[r].link /\ req' = [req EXCEPT ![r] = x]
      BY <1>0, <2>1 DEF Request, TypeInv, TypeOK
    <3> HIDE DEF x
    <3> QED BY <1>3, <1>6, <3>1 DEF At, Resolve
  <2>2. CASE req' = [req EXCEPT ![r] = [Idle EXCEPT !.at = "failed", !.link = req[r].link]]
    <3> DEFINE x == [Idle EXCEPT !.at = "failed", !.link = req[r].link]
    <3>1. x.at = "failed" /\ x.link = req[r].link /\ req' = [req EXCEPT ![r] = x]
      BY <2>2 DEF Idle
    <3> HIDE DEF x
    <3> QED BY <1>3, <1>6, <3>1 DEF At, Resolve
  <2> QED BY <1>6, <2>1, <2>2 DEF Resolve
<1>7. CASE Fetch(r)
  <2>1. ASSUME NEW b, req[r].link # None,
               req' = [req EXCEPT ![r].at = "count", ![r].from = {b}, ![r].todo = {}, ![r].refs = {}]
        PROVE  LinkQuiet
    <3> DEFINE x == [req[r] EXCEPT !.at = "count", !.from = {b}, !.todo = {}, !.refs = {}]
    <3>1. /\ x.at = "count" /\ x.link = req[r].link /\ x.link # None
          /\ req' = [req EXCEPT ![r] = x]
      BY <1>0, <2>1 DEF Request, TypeInv, TypeOK
    <3> HIDE DEF x
    <3> QED BY <1>3, <1>7, <3>1 DEF At, Fetch
  <2> QED BY <1>1, <1>7, <2>1 DEF Fetch
<1>8. CASE FetchFail(r)
  <2> DEFINE x == [req[r] EXCEPT !.at = "next", !.from = {}]
  <2>1. x.at = "next" /\ x.link = req[r].link /\ req' = [req EXCEPT ![r] = x]
    BY <1>0, <1>8 DEF Request, FetchFail, TypeInv, TypeOK
  <2> HIDE DEF x
  <2> QED BY <1>3, <1>8, <2>1 DEF At, FetchFail
<1> QED BY <1>1, <1>2, <1>4, <1>5, <1>6, <1>7, <1>8 DEF ReadStep, Fail

LEMMA AdminQuiet ==
    ASSUME TypeInv, NEW r \in Requests, AdminStep(r)
    PROVE  LinkQuiet
<1>0. link' = link /\ Idle.at = "idle" /\ Idle.link = None
  BY DEF Idle, AdminStep, CreateStorage, FindStorage, DisableStorage, UpdateStorage, Register, ExportStatus,
     StartExport, TakeArchive, linkVars
<1>1. CASE Done(r)
  BY <1>0, <1>1, LinkGoesOn DEF Done, Ready
<1>2. ASSUME NEW x, req' = [req EXCEPT ![r] = x], x.at \in {"register", "write", "take"}, x.link = None
      PROVE  LinkQuiet
  BY <1>0, <1>2, LinkGoesOn DEF Ready
<1>3. ASSUME NEW s, NEW new, PutRow(r, s, new) PROVE LinkQuiet
  <2> DEFINE x == [Idle EXCEPT !.at = "register", !.on = s, !.to = new]
  <2>1. x.at = "register" /\ x.link = None /\ req' = [req EXCEPT ![r] = x]
    BY <1>3 DEF Idle, PutRow
  <2> HIDE DEF x
  <2> QED BY <1>2, <2>1
<1>4. ASSUME NEW s \in Storages, CreateStorage(r, s) \/ DisableStorage(r, s) PROVE LinkQuiet
  BY <1>3, <1>4 DEF CreateStorage, DisableStorage
<1>5. CASE UpdateStorage(r)
  BY <1>3, <1>5 DEF UpdateStorage
<1>6. ASSUME NEW s \in Storages, FindStorage(r, s) PROVE LinkQuiet
  <2>1. PICK to : req' = [req EXCEPT ![r] = [Idle EXCEPT !.at = "write", !.on = s, !.to = to]]
    BY <1>6 DEF FindStorage
  <2> DEFINE x == [Idle EXCEPT !.at = "write", !.on = s, !.to = to]
  <2>2. x.at = "write" /\ x.link = None /\ req' = [req EXCEPT ![r] = x]
    BY <2>1 DEF Idle
  <2> HIDE DEF x
  <2> QED BY <1>2, <2>2
<1>7. ASSUME NEW j \in Jobs, ExportStatus(r, j) PROVE LinkQuiet
  <2> DEFINE x == [Idle EXCEPT !.at = "take", !.job = j]
  <2>1. x.at = "take" /\ x.link = None /\ req' = [req EXCEPT ![r] = x]
    BY <1>7 DEF Idle, ExportStatus
  <2> HIDE DEF x
  <2> QED BY <1>2, <2>1
<1>8. ASSUME NEW j \in Jobs, NEW s \in Storages, StartExport(r, s, j) PROVE LinkQuiet
  BY <1>0, <1>8 DEF StartExport, LinkQuiet
<1> QED BY <1>1, <1>4, <1>5, <1>6, <1>7, <1>8 DEF AdminStep, Register, TakeArchive

\* The steps that are about a link; all others leave the links alone.
LEMMA LinkSteps ==
    ASSUME TypeInv, [Next]_vars
    PROVE  \/ LinkQuiet /\ UNCHANGED linkVars
           \/ \E r \in Requests : LinkStep(r)
           \/ \E l \in Links : Expire(l) \/ DeactivateLink(l) \/ DeleteLink(l)
<1>1. CASE UNCHANGED <<linkVars, req>>
  BY <1>1 DEF LinkQuiet, linkVars
<1>2. CASE UNCHANGED vars
  BY <1>1, <1>2 DEF vars
<1>3. ASSUME NEW r \in Requests, ReadStep(r) PROVE LinkQuiet /\ UNCHANGED linkVars
  BY <1>3, ReadQuiet DEF ReadStep, DownloadFile, Locate, ReadRefs, Resolve, Fetch, FetchFail, Fail
<1>4. ASSUME NEW r \in Requests, AdminStep(r) PROVE LinkQuiet /\ UNCHANGED linkVars
  BY <1>4, AdminQuiet DEF AdminStep, CreateStorage, FindStorage, DisableStorage, UpdateStorage,
     Register, ExportStatus, StartExport, TakeArchive
<1>5. ASSUME NEW n \in Nodes, Crash(n) PROVE LinkQuiet /\ UNCHANGED linkVars
  BY <1>5 DEF Crash, Idle, LinkQuiet, Ready, linkVars
<1>6. ASSUME NEW p \in Projects, UpdateProject(p) \/ DeleteProject(p) \/ DeleteReference(p)
      PROVE  UNCHANGED <<linkVars, req>>
  BY <1>6 DEF UpdateProject, DeleteProject, DeleteReference
<1>7. ASSUME NEW p \in Projects, NEW s \in Storages, UpdateAssignment(p, s)
      PROVE  UNCHANGED <<linkVars, req>>
  BY <1>7 DEF UpdateAssignment
<1>8. ASSUME NEW n \in Nodes, Start(n) \/ Listen(n) PROVE UNCHANGED <<linkVars, req>>
  BY <1>8 DEF Start, Listen
<1>9. ASSUME NEW j \in Jobs, JobStep(j) PROVE UNCHANGED <<linkVars, req>>
  BY <1>9 DEF JobStep, ExportBackend, ExportCopy, ExportDone, ExportStore
<1> QED BY <1>1, <1>2, <1>3, <1>4, <1>5, <1>6, <1>7, <1>8, <1>9 DEF Next

\* The steps that change a link or take one into a request.
LEMMA LinkCases ==
    ASSUME TypeInv, [Next]_vars
    PROVE  \/ LinkQuiet
           \/ \E r \in Requests : InsertLink(r) \/ \E l \in Links : CreateLink(r, l) \/ DownloadLink(r, l)
           \/ \E l \in Links : DeactivateLink(l) \/ DeleteLink(l)
<1>1. CASE UNCHANGED <<link, req>>
  BY <1>1 DEF LinkQuiet
<1>2. ASSUME NEW r \in Requests, IncrementCount(r) PROVE LinkQuiet
  <2>1. Idle.at = "idle" /\ Idle.link = None /\ req' = [req EXCEPT ![r] = Idle] /\ link' = link
    BY <1>2 DEF Idle, IncrementCount, Done
  <2> QED BY <2>1, LinkGoesOn DEF Ready
<1>3. ASSUME NEW r \in Requests, NEW l \in Links, VerifyPassword(r, l) PROVE UNCHANGED <<link, req>>
  BY <1>3 DEF VerifyPassword
<1>4. ASSUME NEW l \in Links, Expire(l) PROVE UNCHANGED <<link, req>>
  BY <1>4 DEF Expire
<1> QED BY <1>1, <1>2, <1>3, <1>4, LinkSteps DEF LinkStep

\* One step keeps NewInv, and keeps what was revoked revoked.
LEMMA RevokedStep ==
    ASSUME TypeInv, NewInv, [Next]_vars
    PROVE  /\ NewInv'
           /\ \A l \in Links : Revoked(l) =>
                Revoked(l)' /\ \A r \in Requests : req'[r].link = l => req[r].link = l
<1> DEFINE Goal == /\ NewInv'
                   /\ \A l \in Links : Revoked(l) =>
                        Revoked(l)' /\ \A r \in Requests : req'[r].link = l => req[r].link = l
<1>0. /\ req \in [Requests -> Request] /\ link \in [Links -> {"none", "active", "inactive", "deleted"}]
      /\ None \notin Links
  BY ConstantsAssumption DEF TypeInv, TypeOK
<1>1. CASE LinkQuiet
  <2>1. NewInv'
    <3> SUFFICES ASSUME NEW r \in Requests, req'[r].at = "insert"
                 PROVE  /\ req'[r].link \in Links /\ link'[req'[r].link] = "none"
                        /\ \A q \in Requests : q # r => req'[q].link # req'[r].link
      BY DEF NewInv, At
    <3>1. req'[r] = req[r] /\ link' = link
      BY <1>1 DEF LinkQuiet
    <3>2. \A q \in Requests : req'[q].link \in {None, req[q].link}
      BY <1>1 DEF LinkQuiet
    <3> QED BY <1>0, <3>1, <3>2 DEF NewInv, At
  <2>2. \A l \in Links : Revoked(l) =>
           Revoked(l)' /\ \A r \in Requests : req'[r].link = l => req[r].link = l
    BY <1>0, <1>1 DEF LinkQuiet, Revoked
  <2> QED BY <2>1, <2>2
<1>2. ASSUME NEW r \in Requests, InsertLink(r) PROVE Goal
  <2>1. /\ req'[r] = Idle /\ \A q \in Requests : q # r => req'[q] = req[q]
        /\ link' = [link EXCEPT ![req[r].link] = "active"] /\ At(r, "insert")
    BY <1>0, <1>2 DEF InsertLink, Done
  <2>2. Idle.at = "idle" /\ Idle.link = None
    BY DEF Idle
  <2>3. /\ req[r].link \in Links /\ link[req[r].link] = "none"
        /\ \A q \in Requests : q # r => req[q].link # req[r].link
    BY <2>1 DEF NewInv
  <2>4. \A l \in Links : l # req[r].link => link'[l] = link[l]
    BY <1>0, <2>1
  <2>5. NewInv'
    BY <1>0, <2>1, <2>2, <2>3, <2>4 DEF NewInv, At
  <2>6. \A l \in Links : Revoked(l) => Revoked(l)'
    BY <2>3, <2>4 DEF Revoked
  <2> QED BY <1>0, <2>1, <2>2, <2>5, <2>6
<1>3. ASSUME NEW r \in Requests, NEW l \in Links, NEW step \in {"insert", "locate"},
             req' = [req EXCEPT ![r] = [Idle EXCEPT !.at = step, !.link = l]], link' = link,
             At(r, "idle"), link[l] \in {"none", "active"},
             step = "insert" => link[l] = "none" /\ \A q \in Requests : req[q].link # l,
             step = "locate" => link[l] = "active"
      PROVE  Goal
  <2>1. /\ req'[r].at = step /\ req'[r].link = l
        /\ \A q \in Requests : q # r => req'[q] = req[q]
    BY <1>0, <1>3 DEF Idle
  <2>2. NewInv'
    BY <1>0, <1>3, <2>1 DEF NewInv, At
  <2>3. \A k \in Links : Revoked(k) => Revoked(k)' /\ k # l
    BY <1>3 DEF Revoked
  <2> QED BY <2>1, <2>2, <2>3
<1>4. ASSUME NEW r \in Requests, NEW l \in Links, CreateLink(r, l) PROVE Goal
  BY <1>3, <1>4 DEF CreateLink, Free, linkVars
<1>5. ASSUME NEW r \in Requests, NEW l \in Links, DownloadLink(r, l) PROVE Goal
  BY <1>3, <1>5 DEF DownloadLink, Free, Accessible, linkVars
<1>6. ASSUME NEW l \in Links, DeactivateLink(l) \/ DeleteLink(l) PROVE Goal
  <2>1. /\ req' = req /\ link[l] \in {"active", "inactive"} /\ link'[l] \in {"inactive", "deleted"}
        /\ \A k \in Links : k # l => link'[k] = link[k]
    BY <1>0, <1>6 DEF DeactivateLink, DeleteLink
  <2>2. NewInv'
    BY <2>1 DEF NewInv, At
  <2>3. \A k \in Links : Revoked(k) => Revoked(k)'
    BY <2>1 DEF Revoked
  <2> QED BY <2>1, <2>2, <2>3
<1> QED BY <1>1, <1>2, <1>4, <1>5, <1>6, LinkCases

\* A revoked link stays revoked and no download of it begins, however a link that
\* was being created, a deactivation and a download interleave
\* (validate_link_accessible).
THEOREM RevocationSafe == Spec => RevokedForGood
<1>1. Init => NewInv
  BY DEF Init, NewInv, At, Idle
<1>2. TypeInv /\ NewInv /\ [Next]_vars => NewInv'
  BY RevokedStep
<1>3. TypeInv /\ NewInv /\ [Next]_vars =>
        [\A l \in Links : Revoked(l) =>
            Revoked(l)' /\ \A r \in Requests : req'[r].link = l => req[r].link = l]_vars
  BY RevokedStep
<1> QED BY <1>1, <1>2, <1>3, InitType, TypeStep, PTL DEF Spec, RevokedForGood

-----------------------------------------------------------------------------
(* The contract of a shared link                                           *)

\* Besides NewInv: only a link that exists has expired, an idle request has no
\* link, and one that is about to be counted has.
ContractInv ==
    /\ NewInv
    /\ \A l \in expired : link[l] # "none"
    /\ \A r \in Requests : Ready(req[r])

\* Every step preserves it.
LEMMA ContractInvStep == TypeInv /\ ContractInv /\ [Next]_vars => ContractInv'
<1> SUFFICES ASSUME TypeInv, ContractInv, [Next]_vars PROVE ContractInv'
  OBVIOUS
<1>0. /\ req \in [Requests -> Request] /\ link \in [Links -> {"none", "active", "inactive", "deleted"}]
      /\ expired \subseteq Links /\ Idle.at = "idle" /\ Idle.link = None
  BY DEF TypeInv, TypeOK, Idle
<1>1. NewInv'
  BY RevokedStep DEF ContractInv
<1>2. \A r \in Requests : Ready(req[r])'
  <2>1. CASE LinkQuiet
    BY <2>1 DEF LinkQuiet, ContractInv
  <2>2. ASSUME NEW r \in Requests, NEW x, req' = [req EXCEPT ![r] = x], Ready(x)
        PROVE  \A q \in Requests : Ready(req'[q])
    BY <1>0, <2>2 DEF ContractInv
  <2>3. ASSUME NEW r \in Requests, InsertLink(r) PROVE \A q \in Requests : Ready(req'[q])
    BY <1>0, <2>2, <2>3 DEF InsertLink, Done, Ready
  <2>4. ASSUME NEW r \in Requests, NEW l \in Links, NEW step \in {"insert", "locate"},
               req' = [req EXCEPT ![r] = [Idle EXCEPT !.at = step, !.link = l]]
        PROVE  \A q \in Requests : Ready(req'[q])
    <3>1. Ready([Idle EXCEPT !.at = step, !.link = l])
      BY DEF Ready, Idle
    <3> QED BY <2>2, <2>4, <3>1
  <2>5. ASSUME NEW l \in Links, DeactivateLink(l) \/ DeleteLink(l)
        PROVE  \A q \in Requests : Ready(req'[q])
    BY <2>5 DEF DeactivateLink, DeleteLink, ContractInv
  <2> QED BY <2>1, <2>3, <2>4, <2>5, LinkCases DEF CreateLink, DownloadLink
<1>3. \A l \in Links : link[l] # "none" => link'[l] # "none"
  BY <1>0, LinkCases DEF LinkQuiet, InsertLink, CreateLink, DownloadLink, DeactivateLink, DeleteLink,
     linkVars
<1>4. \A l \in expired' : l \in expired \/ (l \in Links /\ link[l] # "none")
  BY <1>0, LinkSteps DEF LinkStep, InsertLink, CreateLink, VerifyPassword, DownloadLink,
     IncrementCount, Expire, DeactivateLink, DeleteLink, linkVars
<1>5. (\A l \in expired : link[l] # "none")'
  BY <1>0, <1>3, <1>4 DEF ContractInv
<1> QED BY <1>1, <1>2, <1>5 DEF ContractInv

\* The contract's view of the state.
states == [l \in Links |-> State(l)]
downloads == [r \in Requests |-> DownloadOf(r)]

\* A step that leaves the links alone ends some downloads, or none.
LEMMA QuietDrops ==
    ASSUME TypeInv, ContractInv, LinkQuiet, UNCHANGED linkVars
    PROVE  Contract!Next
<1> DEFINE some == {r \in Requests : downloads'[r] = None}
<1>1. \A r \in Requests : downloads'[r] \in {None, downloads[r]}
  BY DEF downloads, DownloadOf, LinkQuiet, At
<1>2. downloads' = [r \in Requests |-> IF r \in some THEN None ELSE downloads[r]]
  BY <1>1 DEF downloads
<1>3. states' = states
  BY DEF states, State, Accessible, linkVars
<1>4. Contract!Drop(some)
  BY <1>2, <1>3 DEF Contract!Drop, states, downloads, linkVars
<1> QED BY <1>4 DEF Contract!Next

\* A request that takes a link in, or ends, changes no other download.
LEMMA OneDownload ==
    ASSUME TypeInv, NEW r \in Requests, NEW x, req' = [req EXCEPT ![r] = x]
    PROVE  downloads' = [downloads EXCEPT ![r] = IF x.at = "insert" THEN None ELSE x.link]
<1>1. req'[r] = x /\ \A q \in Requests : q # r => req'[q] = req[q]
  BY DEF TypeInv, TypeOK
<1>2. downloads' = [q \in Requests |-> IF req'[q].at = "insert" THEN None ELSE req'[q].link]
  BY DEF downloads, DownloadOf, At
<1>3. downloads = [q \in Requests |-> IF req[q].at = "insert" THEN None ELSE req[q].link]
  BY DEF downloads, DownloadOf, At
<1> QED BY <1>1, <1>2, <1>3

\* A step that changes the state of one link.
LEMMA OneLink ==
    ASSUME NEW l \in Links, \A k \in Links : k # l => link'[k] = link[k] /\ (k \in expired' <=> k \in expired)
    PROVE  states' = [states EXCEPT ![l] = State(l)']
  BY DEF states, State, Accessible

\* What every step of a link does in the contract.
LEMMA LinkStepKeeps ==
    ASSUME TypeInv, LinkInv, ContractInv, NEW r \in Requests, LinkStep(r)
    PROVE  Contract!Next \/ UNCHANGED Contract!vars
<1>0. /\ req \in [Requests -> Request] /\ link \in [Links -> {"none", "active", "inactive", "deleted"}]
      /\ expired \subseteq Links /\ Idle.at = "idle" /\ Idle.link = None /\ None \notin Links
      /\ req[r] \in Request /\ Ready(req[r])
  BY ConstantsAssumption DEF TypeInv, TypeOK, Idle, ContractInv
<1>1. ASSUME NEW l \in Links, CreateLink(r, l) PROVE UNCHANGED Contract!vars
  <2> DEFINE x == [Idle EXCEPT !.at = "insert", !.link = l]
  <2>1. x.at = "insert" /\ req' = [req EXCEPT ![r] = x]
    BY <1>1 DEF CreateLink, Idle
  <2>2. downloads[r] = None
    BY <1>0, <1>1 DEF CreateLink, Free, At, Ready, downloads, DownloadOf
  <2> HIDE DEF x
  <2>3. downloads' = downloads
    <3>1. downloads' = [downloads EXCEPT ![r] = None]
      BY <2>1, OneDownload
    <3>2. downloads = [q \in Requests |-> downloads[q]]
      BY DEF downloads
    <3> HIDE DEF downloads
    <3> QED BY <2>2, <3>1, <3>2
  <2>4. states' = states /\ UNCHANGED <<verified, served>>
    BY <1>1 DEF CreateLink, states, State, Accessible, linkVars
  <2> QED BY <2>3, <2>4 DEF Contract!vars, states, downloads
<1>2. ASSUME NEW l \in Links, VerifyPassword(r, l) PROVE Contract!Next
  <2>1. downloads' = downloads /\ states' = states
    BY <1>2 DEF VerifyPassword, downloads, DownloadOf, At, states, State, Accessible
  <2>2. states[l] = "open"
    BY <1>2 DEF VerifyPassword, states, State
  <2>3. Contract!GivePassword(l)
    BY <1>2, <2>1, <2>2 DEF VerifyPassword, Contract!GivePassword, states, downloads
  <2> QED BY <2>3 DEF Contract!Next
<1>3. ASSUME NEW l \in Links, DownloadLink(r, l) PROVE Contract!Next
  <2> DEFINE x == [Idle EXCEPT !.at = "locate", !.link = l]
  <2>1. x.at = "locate" /\ x.link = l /\ req' = [req EXCEPT ![r] = x]
    BY <1>3 DEF DownloadLink, Idle
  <2>2. downloads[r] = None /\ states[l] = "open"
    BY <1>0, <1>3 DEF DownloadLink, Free, At, Ready, downloads, DownloadOf, states, State
  <2> HIDE DEF x
  <2>3. downloads' = [downloads EXCEPT ![r] = l]
    BY <2>1, OneDownload
  <2>4. states' = states /\ UNCHANGED <<verified, served>>
    BY <1>3 DEF DownloadLink, states, State, Accessible, linkVars
  <2>5. served[l] < Limit[l] /\ (l \in Protected => l \in verified)
    BY <1>3 DEF DownloadLink, BelowLimit, TokenAccepted, LinkInv, QuotaExact
  <2>6. Contract!Admit(r, l)
    BY <2>2, <2>3, <2>4, <2>5 DEF Contract!Admit, states, downloads
  <2> QED BY <2>6 DEF Contract!Next
<1>4. CASE InsertLink(r)
  <2>1. PICK l \in Links : l = req[r].link /\ link[l] = "none" /\ l \notin expired
    BY <1>0, <1>4 DEF InsertLink, ContractInv, NewInv
  <2>2. link' = [link EXCEPT ![l] = "active"] /\ expired' = expired /\ UNCHANGED <<verified, served>>
    BY <1>4, <2>1 DEF InsertLink
  <2>3. State(l)' = "open" /\ states[l] = "none"
    BY <1>0, <2>1, <2>2 DEF State, Accessible, states
  <2>4. states' = [states EXCEPT ![l] = "open"]
    BY <1>0, <2>2, <2>3, OneLink
  <2>5. downloads[r] = None
    BY <1>4 DEF InsertLink, downloads, DownloadOf
  <2>6. downloads' = downloads
    <3>1. downloads' = [downloads EXCEPT ![r] = None]
      BY <1>0, <1>4, OneDownload DEF InsertLink, Done
    <3> QED BY <2>5, <3>1 DEF downloads
  <2>7. Contract!Create(l)
    BY <2>2, <2>3, <2>4, <2>6 DEF Contract!Create, Contract!Becomes, states, downloads
  <2> QED BY <2>7 DEF Contract!Next
<1>5. CASE IncrementCount(r)
  <2>1. PICK l \in Links : l = req[r].link
    BY <1>0, <1>5 DEF IncrementCount, At, Ready, Request
  <2>2. downloads' = [downloads EXCEPT ![r] = None] /\ downloads[r] = l
    BY <1>0, <1>5, <2>1, OneDownload DEF IncrementCount, Done, downloads, DownloadOf, At
  <2>3. states' = states /\ verified' = verified
    BY <1>5 DEF IncrementCount, states, State, Accessible
  <2>4. CASE Counted(l) /\ served' = [served EXCEPT ![l] = served[l] + 1]
    <3>1. served[l] < Limit[l] /\ states[l] # "deleted"
      BY <2>4 DEF Counted, BelowLimit, LinkInv, QuotaExact, states, State, Accessible
    <3>2. Contract!Serve(r, l)
      BY <2>2, <2>3, <2>4, <3>1 DEF Contract!Serve, states, downloads
    <3> QED BY <3>2 DEF Contract!Next
  <2>5. CASE served' = served
    <3>1. downloads' = [q \in Requests |-> IF q \in {r} THEN None ELSE downloads[q]]
      BY <2>2 DEF downloads
    <3>2. Contract!Drop({r})
      BY <2>3, <2>5, <3>1 DEF Contract!Drop, states, downloads
    <3> QED BY <3>2 DEF Contract!Next
  <2> QED BY <1>5, <2>1, <2>4, <2>5 DEF IncrementCount
<1> QED BY <1>1, <1>2, <1>3, <1>4, <1>5 DEF LinkStep

\* What revoking a link, or its expiry, does in the contract.
LEMMA RevokeKeeps ==
    ASSUME TypeInv, ContractInv, NEW l \in Links, Expire(l) \/ DeactivateLink(l) \/ DeleteLink(l)
    PROVE  Contract!Next \/ UNCHANGED Contract!vars
<1>0. /\ link \in [Links -> {"none", "active", "inactive", "deleted"}] /\ expired \subseteq Links
      /\ UNCHANGED <<verified, served, req>>
  BY DEF TypeInv, TypeOK, Expire, DeactivateLink, DeleteLink
<1>1. downloads' = downloads
  BY <1>0 DEF downloads, DownloadOf, At
<1>2. states' = [states EXCEPT ![l] = State(l)']
  <2>1. \A k \in Links : k # l => link'[k] = link[k] /\ (k \in expired' <=> k \in expired)
    BY <1>0 DEF Expire, DeactivateLink, DeleteLink
  <2> QED BY <2>1, OneLink
<1>3. states[l] = State(l)
  BY DEF states
<1>4. CASE State(l)' = State(l)
  BY <1>0, <1>1, <1>2, <1>3, <1>4 DEF Contract!vars, states, downloads
<1>5. CASE State(l) = "open" /\ State(l)' = "closed"
  <2>1. Contract!Close(l)
    BY <1>0, <1>1, <1>2, <1>3, <1>5 DEF Contract!Close, Contract!Becomes, states, downloads
  <2> QED BY <2>1 DEF Contract!Next
<1>6. CASE State(l) \in {"open", "closed"} /\ State(l)' = "deleted"
  <2>1. Contract!Delete(l)
    BY <1>0, <1>1, <1>2, <1>3, <1>6 DEF Contract!Delete, Contract!Becomes, states, downloads
  <2> QED BY <2>1 DEF Contract!Next
<1>7. \/ State(l)' = State(l)
      \/ State(l) = "open" /\ State(l)' = "closed"
      \/ State(l) \in {"open", "closed"} /\ State(l)' = "deleted"
  <2>1. CASE Expire(l)
    BY <1>0, <2>1 DEF Expire, State, Accessible, ContractInv
  <2>2. CASE DeactivateLink(l)
    BY <1>0, <2>2 DEF DeactivateLink, State, Accessible
  <2>3. CASE DeleteLink(l)
    BY <1>0, <2>3 DEF DeleteLink, State, Accessible
  <2> QED BY <2>1, <2>2, <2>3
<1> QED BY <1>4, <1>5, <1>6, <1>7

\* Handing out links implements what SharedLink promises, for any number of
\* links, requests and processes, and whatever is done to storages, projects and
\* exports at the same time (create_link, verify_password, download_via_link,
\* deactivate_link, delete_by_user).
THEOREM ContractKept == Spec => KeepsContract
<1>1. Init => Contract!Init
  <2> SUFFICES ASSUME Init PROVE Contract!Init
    OBVIOUS
  <2>1. states = [l \in Links |-> "none"]
    BY DEF Init, states, State, Accessible
  <2>2. downloads = [r \in Requests |-> None]
    BY DEF Init, downloads, DownloadOf, At, Idle
  <2> QED BY <2>1, <2>2 DEF Init, Contract!Init, states, downloads
<1>2. Init => ContractInv
  BY DEF Init, ContractInv, NewInv, At, Idle, Ready
<1>3. TypeInv /\ LinkInv /\ ContractInv /\ [Next]_vars => [Contract!Next]_(Contract!vars)
  BY LinkSteps, QuietDrops, LinkStepKeeps, RevokeKeeps
<1> QED BY <1>1, <1>2, <1>3, InitType, TypeStep, LinkInvInit, LinkInvStep, ContractInvStep, PTL
        DEF Spec, KeepsContract, Contract!Spec

-----------------------------------------------------------------------------
(* Permissions                                                             *)

PermInv == PermissionsTypeOK /\ WritesEntitled

LEMMA WriteRecord ==
    /\ \A what \in {"upload", "session", "link", "delete"}, u \in Callers, p \in Spaces :
         [what |-> what, by |-> u, space |-> p, late |-> FALSE] \in Writes
    /\ \A w \in Writes, b \in BOOLEAN : /\ [w EXCEPT !.late = b] \in Writes
                                        /\ [w EXCEPT !.late = b].late = b
                                        /\ [w EXCEPT !.late = b].by = w.by
                                        /\ [w EXCEPT !.late = b].space = w.space
    /\ \A w \in Writes : w.late \in BOOLEAN /\ w.space \in Spaces /\ w.by \in Callers
  BY DEF Writes

\* A step that changes no member, no project and no storage.
LEMMA WriteFrame ==
    ASSUME PermInv, UNCHANGED <<memberVars, diskVars, copies, topic, changes>>,
           filed' \subseteq Spaces, call' \in [Calls -> Writes \cup {NoWrite}],
           \A c \in Calls : call'[c] # NoWrite =>
              call'[c] = call[c] \/ call'[c].late \/ Entitled(call'[c].by, call'[c].space),
           sessions' \subseteq Writes,
           \A s \in sessions' : s \in sessions \/ s.late \/ Entitled(s.by, s.space)
    PROVE  PermInv'
<1>1. PermissionsTypeOK'
  BY DEF PermInv, PermissionsTypeOK, memberVars, diskVars
<1>2. \A u, p : Entitled(u, p)' = Entitled(u, p)
  BY DEF Entitled, MayWrite, memberVars
<1>3. WritesEntitled'
  BY <1>2 DEF PermInv, WritesEntitled, Idles
<1> QED BY <1>1, <1>3 DEF PermInv

LEMMA BeginKeeps ==
    ASSUME PermInv, NEW c \in Calls, NEW u \in Callers, NEW p \in Spaces,
           NEW what \in {"upload", "session", "link", "delete"},
           Begin(c, what, u, p), Entitled(u, p)
    PROVE  PermInv'
<1> DEFINE w == [what |-> what, by |-> u, space |-> p, late |-> FALSE]
<1>1. w \in Writes /\ w.by = u /\ w.space = p
  BY WriteRecord
<1>2. call \in [Calls -> Writes \cup {NoWrite}] /\ filed \subseteq Spaces /\ sessions \subseteq Writes
  BY DEF PermInv, PermissionsTypeOK
<1>3. call' = [call EXCEPT ![c] = w]
      /\ UNCHANGED <<memberVars, diskVars, filed, sessions, copies, topic, changes>>
  BY DEF Begin
<1>4. call' \in [Calls -> Writes \cup {NoWrite}]
  BY <1>1, <1>2, <1>3
<1>5. \A d \in Calls : call'[d] = call[d] \/ Entitled(call'[d].by, call'[d].space)
  BY <1>1, <1>2, <1>3
<1> QED BY <1>2, <1>3, <1>4, <1>5, WriteFrame

LEMMA WriteKeeps ==
    ASSUME PermInv, NEW u \in Callers, WriteStep(u) \/ \E c \in Calls : Write(c) \/ WriteFails(c)
    PROVE  PermInv'
<1>1. call \in [Calls -> Writes \cup {NoWrite}] /\ filed \subseteq Spaces /\ sessions \subseteq Writes
  BY DEF PermInv, PermissionsTypeOK
<1>2. ASSUME NEW c \in Calls, NEW p \in Spaces,
             \/ UploadFile(c, u, p) \/ CreateSession(c, u, p)
             \/ CreateSharedLink(c, u, p) \/ DeleteFileReference(c, u, p)
      PROVE  PermInv'
  <2>1. Entitled(u, p)
    BY <1>2 DEF UploadFile, CreateSession, CreateSharedLink, DeleteFileReference,
       RequireProjectWriteAccess, RequireLinkWriteAccess, FindProject, IsAdmin, IsOwner, GetRole,
       Entitled, MayWrite
  <2> QED BY <1>2, <2>1, BeginKeeps
         DEF UploadFile, CreateSession, CreateSharedLink, DeleteFileReference
<1>3. ASSUME NEW s \in sessions, FinishSession(u, s) \/ TerminateSession(u, s)
      PROVE  PermInv'
  <2>1. /\ UNCHANGED <<memberVars, diskVars, call, copies, topic, changes>>
        /\ sessions' \subseteq sessions /\ filed' \subseteq Spaces
    BY <1>1, <1>3, WriteRecord DEF FinishSession, TerminateSession
  <2> QED BY <1>1, <2>1, WriteFrame
<1>4. ASSUME NEW c \in Calls, Write(c) \/ WriteFails(c)
      PROVE  PermInv'
  <2>1. call[c] \in Writes /\ (call[c].late \/ Entitled(call[c].by, call[c].space))
    BY <1>1, <1>4 DEF Write, WriteFails, Idles, PermInv, WritesEntitled
  <2>2. /\ UNCHANGED <<memberVars, diskVars, copies, topic, changes>>
        /\ call' = [call EXCEPT ![c] = NoWrite]
        /\ sessions' \in {sessions, sessions \cup {call[c]}}
    BY <1>4 DEF Write, WriteFails, Ends
  <2>3. filed' \subseteq Spaces
    BY <1>1, <1>4, <2>1, WriteRecord DEF Write, WriteFails
  <2>4. call' \in [Calls -> Writes \cup {NoWrite}] /\ \A d \in Calls : call'[d] # NoWrite => call'[d] = call[d]
    BY <1>1, <2>2
  <2>5. sessions' \subseteq Writes
        /\ \A s \in sessions' : s \in sessions \/ s.late \/ Entitled(s.by, s.space)
    BY <1>1, <2>1, <2>2
  <2> QED BY <2>2, <2>3, <2>4, <2>5, WriteFrame
<1> QED BY <1>2, <1>3, <1>4 DEF WriteStep

\* A change of members or projects notes the writes it takes the right from.
LEMMA MembersKeep ==
    ASSUME PermInv, ChangeMembers,
           ownerOf' \in [Spaces -> Callers \cup {"nobody"}], removed' \subseteq Spaces,
           member' \in [Callers -> [Spaces -> MemberRoles]]
    PROVE  PermInv'
<1>1. call \in [Calls -> Writes \cup {NoWrite}] /\ sessions \subseteq Writes
  BY DEF PermInv, PermissionsTypeOK
<1>2. \A w \in Writes : /\ Noted(w) \in Writes /\ Noted(w).by = w.by /\ Noted(w).space = w.space
                        /\ Noted(w).late \/ Entitled(w.by, w.space)'
  <2> SUFFICES ASSUME NEW w \in Writes
               PROVE  /\ Noted(w) \in Writes /\ Noted(w).by = w.by /\ Noted(w).space = w.space
                      /\ Noted(w).late \/ Entitled(w.by, w.space)'
    OBVIOUS
  <2> DEFINE b == w.late \/ ~MayWrite(ownerOf', removed', member', w.by, w.space)
  <2>1. b \in BOOLEAN
    OBVIOUS
  <2>2. Noted(w) = [w EXCEPT !.late = b]
    BY DEF Noted, Writes
  <2>3. b \/ Entitled(w.by, w.space)'
    BY DEF Entitled
  <2> HIDE DEF b
  <2> QED BY <2>1, <2>2, <2>3, WriteRecord
<1> DEFINE N == [w \in Writes |-> Noted(w)]
           Now(u, p) == MayWrite(ownerOf', removed', member', u, p)
<1>3. \A w \in Writes : /\ N[w] \in Writes
                        /\ N[w].late \/ Now(N[w].by, N[w].space)
  BY <1>2 DEF Entitled
<1>4. \A c \in Calls : call'[c] = IF call[c] = NoWrite THEN NoWrite ELSE N[call[c]]
  BY <1>1 DEF ChangeMembers, Idles
<1>5. sessions' = {N[s] : s \in sessions}
  BY <1>1 DEF ChangeMembers
<1>6. DOMAIN call' = Calls /\ call' = [c \in Calls |-> call'[c]]
  BY DEF ChangeMembers
<1> HIDE DEF N
<1>7. \A c \in Calls : /\ call'[c] \in Writes \cup {NoWrite}
                       /\ call'[c] # NoWrite => call'[c].late \/ Now(call'[c].by, call'[c].space)
  BY <1>1, <1>3, <1>4
<1>8. /\ sessions' \subseteq Writes
      /\ \A s \in sessions' : s.late \/ Now(s.by, s.space)
  BY <1>1, <1>3, <1>5
<1>9. changes' \in 0 .. MaxChanges
  BY PermissionsAssumption DEF ChangeMembers, Change, PermInv, PermissionsTypeOK
<1>10. PermissionsTypeOK'
  <2>1. call' \in [Calls -> Writes \cup {NoWrite}]
    BY <1>6, <1>7
  <2>2. UNCHANGED <<diskVars, filed, copies, topic>>
    BY DEF ChangeMembers
  <2> QED BY <1>8, <1>9, <2>1, <2>2 DEF PermInv, PermissionsTypeOK, diskVars
<1>11. WritesEntitled'
  BY <1>7, <1>8 DEF WritesEntitled, Idles, Entitled
<1> QED BY <1>10, <1>11 DEF PermInv

LEMMA ProjectKeeps ==
    ASSUME PermInv, NEW u \in Callers, ProjectStep(u)
    PROVE  PermInv'
<1>1. /\ ownerOf \in [Spaces -> Callers \cup {"nobody"}] /\ removed \subseteq Spaces
      /\ member \in [Callers -> [Spaces -> MemberRoles]]
  BY DEF PermInv, PermissionsTypeOK
<1>2. PICK p \in Spaces :
        \/ NewProject(u, p) \/ RemoveProject(u, p)
        \/ \E v \in Callers : \/ RemoveProjectMember(u, v, p)
                              \/ \E role \in {"member", "writer", "owner"} :
                                   \/ AddProjectMember(u, v, p, role)
                                   \/ UpdateProjectMember(u, v, p, role)
  BY DEF ProjectStep
<1>3. CASE NewProject(u, p)
  BY <1>1, <1>3, MembersKeep DEF NewProject
<1>4. CASE RemoveProject(u, p)
  BY <1>1, <1>4, MembersKeep DEF RemoveProject
<1>5. ASSUME NEW v \in Callers, NEW role \in MemberRoles,
             member' = [member EXCEPT ![v][p] = role], UNCHANGED <<ownerOf, removed>>, ChangeMembers
      PROVE  PermInv'
  BY <1>1, <1>5, MembersKeep
<1>6. ASSUME NEW v \in Callers, RemoveProjectMember(u, v, p)
      PROVE  PermInv'
  BY <1>5, <1>6 DEF RemoveProjectMember, MemberRoles
<1>7. ASSUME NEW v \in Callers, NEW role,
             AddProjectMember(u, v, p, role) \/ UpdateProjectMember(u, v, p, role)
      PROVE  PermInv'
  BY <1>5, <1>7 DEF AddProjectMember, UpdateProjectMember, UpdateRole, ValidateMemberRole, MemberRoles
<1> QED BY <1>2, <1>3, <1>4, <1>6, <1>7

LEMMA DiskKeeps ==
    ASSUME PermInv, NEW u \in Callers, DiskStep(u)
    PROVE  PermInv'
<1>1. /\ keeper \subseteq Callers \X Disks /\ enabled \subseteq Disks
      /\ assigned \in [Spaces -> [Disks -> {"none", "active", "inactive"}]]
  BY DEF PermInv, PermissionsTypeOK
<1>2. ASSUME ChangeDisks, keeper' \subseteq Callers \X Disks, enabled' \subseteq Disks,
             assigned' \in [Spaces -> [Disks -> {"none", "active", "inactive"}]]
      PROVE  PermInv'
  <2>1. changes' \in 0 .. MaxChanges
    BY <1>2, PermissionsAssumption DEF ChangeDisks, Change, PermInv, PermissionsTypeOK
  <2>2. UNCHANGED <<memberVars, writeVars, copies, topic>>
    BY <1>2 DEF ChangeDisks
  <2>3. PermissionsTypeOK'
    BY <1>2, <2>1, <2>2 DEF PermInv, PermissionsTypeOK, memberVars, writeVars
  <2>4. WritesEntitled'
    BY <2>2 DEF PermInv, WritesEntitled, Idles, Entitled, MayWrite, memberVars, writeVars
  <2> QED BY <2>3, <2>4 DEF PermInv
<1>3. ASSUME NEW d \in Disks, UpdateEnabled(u, d)
      PROVE  PermInv'
  BY <1>1, <1>2, <1>3 DEF UpdateEnabled
<1>4. ASSUME NEW d \in Disks, NEW v \in Callers, AddStorageMember(u, v, d) \/ RemoveStorageMember(u, v, d)
      PROVE  PermInv'
  <2>1. keeper' \subseteq Callers \X Disks
    BY <1>1, <1>4 DEF AddStorageMember, RemoveStorageMember, InsertKeeper, DeleteKeeper
  <2> QED BY <1>1, <1>2, <1>4, <2>1 DEF AddStorageMember, RemoveStorageMember
<1>5. ASSUME NEW d \in Disks, NEW p \in Spaces, NEW to \in {"none", "active", "inactive"},
             assigned' = [assigned EXCEPT ![p][d] = to], UNCHANGED <<keeper, enabled>>, ChangeDisks
      PROVE  PermInv'
  BY <1>1, <1>2, <1>5
<1>6. ASSUME NEW d \in Disks, NEW p \in Spaces,
             \/ AssignStorage(u, p, d) \/ RemoveStorageAssignment(u, p, d)
             \/ \E to \in {"active", "inactive"} : UpdateProjectStorage(u, p, d, to)
      PROVE  PermInv'
  BY <1>5, <1>6 DEF AssignStorage, InsertAssignment, RemoveStorageAssignment, UpdateProjectStorage
<1> QED BY <1>3, <1>4, <1>6 DEF DiskStep

LEMMA PermInitial == PermInit => PermInv
<1> SUFFICES ASSUME PermInit PROVE PermInv
  OBVIOUS
<1>1. 0 \in 0 .. MaxChanges
  BY PermissionsAssumption
<1>2. ownerOf \in [Spaces -> Callers \cup {"nobody"}]
  BY DEF PermInit
<1>3. PermissionsTypeOK
  BY <1>1, <1>2 DEF PermInit, PermissionsTypeOK, MemberRoles
<1>4. WritesEntitled
  BY DEF PermInit, WritesEntitled, Idles
<1> QED BY <1>3, <1>4 DEF PermInv

LEMMA PermStep == PermInv /\ [PermNext]_permVars => PermInv'
<1> SUFFICES ASSUME PermInv, [PermNext]_permVars PROVE PermInv'
  OBVIOUS
<1>1. ASSUME NEW u \in Callers, WriteStep(u) \/ ProjectStep(u) \/ DiskStep(u)
      PROVE  PermInv'
  BY <1>1, WriteKeeps, ProjectKeeps, DiskKeeps
<1>2. ASSUME NEW c \in Calls, Write(c) \/ WriteFails(c)
      PROVE  PermInv'
  <2>1. call[c] \in Writes
    BY <1>2 DEF Write, WriteFails, Idles, PermInv, PermissionsTypeOK
  <2>2. call[c].by \in Callers
    BY <2>1, WriteRecord
  <2> QED BY <1>2, <2>2, WriteKeeps
<1>3. CASE UNCHANGED permVars
  BY <1>3 DEF permVars, memberVars, diskVars, writeVars, PermInv, PermissionsTypeOK, WritesEntitled,
     Idles, Entitled, MayWrite
<1> QED BY <1>1, <1>2, <1>3 DEF PermNext

\* The tables of members, users of storages and assignments keep their types.
THEOREM PermissionsTypeCorrect == PermSpec => []PermissionsTypeOK
<1>1. PermInv => PermissionsTypeOK
  BY DEF PermInv
<1> QED BY <1>1, PermInitial, PermStep, PTL DEF PermSpec

\* A write under way is one its caller was entitled to when it was checked, and
\* still is unless members or the project were changed meanwhile.
THEOREM WritesSafe == PermSpec => []WritesEntitled
<1>1. PermInv => WritesEntitled
  BY DEF PermInv
<1> QED BY <1>1, PermInitial, PermStep, PTL DEF PermSpec

\* A project that refers to the file, or that a write is under way for, exists
\* or has existed: a project never loses its owner.
ProjectsExist ==
    /\ \A p \in filed : ownerOf[p] # "nobody"
    /\ \A c \in Calls : ~Idles(c) => ownerOf[call[c].space] # "nobody"
    /\ \A s \in sessions : ownerOf[s.space] # "nobody"

\* Nothing is filed, and no write begins, but for a project with an owner.
LEMMA ExistFrame ==
    ASSUME ProjectsExist, PermissionsTypeOK,
           \A p \in Spaces : ownerOf[p] # "nobody" => ownerOf'[p] # "nobody",
           \A p \in filed' : p \in Spaces /\ ownerOf[p] # "nobody",
           \A c \in Calls : call'[c] # NoWrite =>
              call'[c].space \in Spaces /\ ownerOf[call'[c].space] # "nobody",
           \A s \in sessions' : s.space \in Spaces /\ ownerOf[s.space] # "nobody"
    PROVE  ProjectsExist'
  BY DEF ProjectsExist, Idles

LEMMA ExistStep == PermInv /\ ProjectsExist /\ [PermNext]_permVars => ProjectsExist'
<1> SUFFICES ASSUME PermInv, ProjectsExist, [PermNext]_permVars PROVE ProjectsExist'
  OBVIOUS
<1>0. /\ PermissionsTypeOK /\ call \in [Calls -> Writes \cup {NoWrite}] /\ sessions \subseteq Writes
      /\ filed \subseteq Spaces
  BY DEF PermInv, PermissionsTypeOK
<1>c. \A c \in Calls : call[c] # NoWrite => call[c] \in Writes /\ call[c].space \in Spaces
                                            /\ ownerOf[call[c].space] # "nobody"
  BY <1>0, WriteRecord DEF ProjectsExist, Idles
<1>f. \A p \in filed : p \in Spaces /\ ownerOf[p] # "nobody"
  BY <1>0 DEF ProjectsExist
<1>s. \A s \in sessions : s \in Writes /\ s.space \in Spaces /\ ownerOf[s.space] # "nobody"
  BY <1>0, WriteRecord DEF ProjectsExist
<1>1. CASE UNCHANGED permVars
  BY <1>0, <1>1, <1>c, <1>f, <1>s, ExistFrame DEF permVars, memberVars, writeVars
<1>2. ASSUME NEW u \in Callers, NEW c \in Calls, NEW p \in Spaces,
             \/ UploadFile(c, u, p) \/ CreateSession(c, u, p)
             \/ CreateSharedLink(c, u, p) \/ DeleteFileReference(c, u, p)
      PROVE  ProjectsExist'
  <2>1. ownerOf[p] # "nobody"
    BY <1>2 DEF UploadFile, CreateSession, CreateSharedLink, DeleteFileReference,
       RequireProjectWriteAccess, RequireLinkWriteAccess, FindProject
  <2>2. PICK what \in {"upload", "session", "link", "delete"} : Begin(c, what, u, p)
    BY <1>2 DEF UploadFile, CreateSession, CreateSharedLink, DeleteFileReference
  <2> DEFINE w == [what |-> what, by |-> u, space |-> p, late |-> FALSE]
  <2>3. w.space = p /\ call' = [call EXCEPT ![c] = w] /\ UNCHANGED <<ownerOf, filed, sessions>>
    BY <2>2 DEF Begin, memberVars
  <2>4. \A d \in Calls : call'[d] = IF d = c THEN w ELSE call[d]
    BY <1>0, <2>3
  <2> HIDE DEF w
  <2> QED BY <1>0, <1>c, <1>f, <1>s, <2>1, <2>3, <2>4, ExistFrame
<1>3. ASSUME NEW u \in Callers, NEW s \in sessions, FinishSession(u, s) \/ TerminateSession(u, s)
      PROVE  ProjectsExist'
  <2>1. UNCHANGED <<ownerOf, call>> /\ sessions' \subseteq sessions /\ filed' \subseteq filed \cup {s.space}
    BY <1>3 DEF FinishSession, TerminateSession, memberVars
  <2> QED BY <1>0, <1>c, <1>f, <1>s, <2>1, ExistFrame
<1>4. ASSUME NEW c \in Calls, Write(c) \/ WriteFails(c) PROVE ProjectsExist'
  <2>1. call[c] # NoWrite
    BY <1>4 DEF Write, WriteFails, Idles
  <2>2. /\ UNCHANGED ownerOf /\ filed' \subseteq filed \cup {call[c].space}
        /\ sessions' \subseteq sessions \cup {call[c]} /\ call' = [call EXCEPT ![c] = NoWrite]
    BY <1>4 DEF Write, WriteFails, Ends, memberVars
  <2>3. \A d \in Calls : call'[d] # NoWrite => call'[d] = call[d]
    BY <1>0, <2>2
  <2> QED BY <1>0, <1>c, <1>f, <1>s, <2>1, <2>2, <2>3, ExistFrame
<1>5. ASSUME NEW u \in Callers, ProjectStep(u) PROVE ProjectsExist'
  <2>1. ChangeMembers
    BY <1>5 DEF ProjectStep, NewProject, RemoveProject, RemoveProjectMember, AddProjectMember,
       UpdateProjectMember
  <2>2. \A p \in Spaces : ownerOf[p] # "nobody" => ownerOf'[p] = ownerOf[p]
    BY <1>0, <1>5 DEF ProjectStep, NewProject, RemoveProject, RemoveProjectMember, AddProjectMember,
       UpdateProjectMember, PermissionsTypeOK
  <2>3. \A w \in Writes : Noted(w).space = w.space
    <3> SUFFICES ASSUME NEW w \in Writes PROVE Noted(w).space = w.space
      OBVIOUS
    <3> DEFINE b == w.late \/ ~MayWrite(ownerOf', removed', member', w.by, w.space)
    <3>1. Noted(w) = [w EXCEPT !.late = b]
      BY DEF Noted, Writes
    <3>2. b \in BOOLEAN
      OBVIOUS
    <3> HIDE DEF b
    <3> QED BY <3>1, <3>2, WriteRecord
  <2>4. ASSUME NEW d \in Calls, call'[d] # NoWrite PROVE call[d] # NoWrite /\ call'[d] = Noted(call[d])
    BY <2>1, <2>4 DEF ChangeMembers, Idles
  <2>5. \A s \in sessions' : \E t \in sessions : s = Noted(t)
    BY <2>1 DEF ChangeMembers
  <2>6. filed' = filed
    BY <2>1 DEF ChangeMembers
  <2>7. \A d \in Calls : call'[d] # NoWrite =>
           call'[d].space \in Spaces /\ ownerOf[call'[d].space] # "nobody"
    BY <1>c, <2>3, <2>4
  <2>8. \A s \in sessions' : s.space \in Spaces /\ ownerOf[s.space] # "nobody"
    BY <1>s, <2>3, <2>5
  <2> QED BY <1>0, <1>f, <2>2, <2>6, <2>7, <2>8, ExistFrame
<1>6. ASSUME NEW u \in Callers, DiskStep(u) PROVE ProjectsExist'
  <2>1. UNCHANGED <<ownerOf, filed, call, sessions>>
    BY <1>6 DEF DiskStep, UpdateEnabled, AddStorageMember, RemoveStorageMember, AssignStorage,
       RemoveStorageAssignment, UpdateProjectStorage, ChangeDisks, memberVars, writeVars
  <2> QED BY <1>0, <1>c, <1>f, <1>s, <2>1, ExistFrame
<1> QED BY <1>1, <1>2, <1>3, <1>4, <1>5, <1>6 DEF PermNext, WriteStep

\* What the lists show is what the checks let through.
LEMMA ListsSame ==
    ASSUME PermissionsTypeOK, ProjectsExist
    PROVE  ListsAgree
<1>1. ASSUME NEW u \in Callers
      PROVE  /\ ListProjects(u) = {p \in Spaces : GetProject(u, p)}
             /\ \A p \in Spaces : CheckProjectAccess(u, p) = GetProject(u, p)
             /\ CheckFileAccess(u) <=> IsAdmin(u) \/ ListProjects(u) \cap filed # {}
             /\ AssignedTo(u) = {p \in Spaces \ removed : u \in ListMembers(p)}
             /\ ListStorages(u) = {d \in Disks : GetStorage(u, d)}
             /\ \A d \in DisksOf(u) : u \in UsersOfDisk(d)
  <2>1. ListProjects(u) = {p \in Spaces : GetProject(u, p)}
    BY DEF ListProjects, ProjectList, ListAccessible, GetProject, FindProject, IsOwner, IsMember
  <2>2. \A p \in Spaces : CheckProjectAccess(u, p) = GetProject(u, p)
    BY DEF CheckProjectAccess, GetProject, RequireOwnerOrAdmin
  <2>3. filed \subseteq Spaces /\ \A p \in filed : ownerOf[p] # "nobody"
    BY DEF PermissionsTypeOK, ProjectsExist
  <2>4. CheckFileAccess(u) <=> IsAdmin(u) \/ ListProjects(u) \cap filed # {}
    <3>1. CASE IsAdmin(u)
      BY <3>1 DEF CheckFileAccess
    <3>2. CASE ~IsAdmin(u)
      <4>1. ListProjects(u) = ListAccessible(u)
        BY <3>2 DEF ListProjects
      <4>2. \A p : p \in ListAccessible(u) \cap filed <=>
                     p \in filed \ removed /\ (ownerOf[p] = u \/ member[u][p] # "none")
        BY <2>3 DEF ListAccessible
      <4> QED BY <3>2, <4>1, <4>2 DEF CheckFileAccess
    <3> QED BY <3>1, <3>2
  <2>5. AssignedTo(u) = {p \in Spaces \ removed : u \in ListMembers(p)}
    BY DEF AssignedTo, ListMembers
  <2>6. ListStorages(u) = {d \in Disks : GetStorage(u, d)}
    BY DEF ListStorages, GetStorage, KeepsDisk, DisksOf
  <2>7. \A d \in DisksOf(u) : u \in UsersOfDisk(d)
    BY DEF DisksOf, UsersOfDisk
  <2> QED BY <2>1, <2>2, <2>4, <2>5, <2>6, <2>7
<1>2. ASSUME NEW p \in Spaces
      PROVE  /\ ListAvailable(p) \cap ListAssignments(p) = {}
             /\ enabled \subseteq ListAvailable(p) \cup ListAssignments(p)
             /\ StoragesOf(p) \subseteq ListAssignments(p)
  BY DEF ListAvailable, ListAssignments, StoragesOf, PermissionsTypeOK
<1> QED BY <1>1, <1>2 DEF ListsAgree

\* The checks before a write let nobody through that those before a read stop.
LEMMA WritersRead ==
    ASSUME PermissionsTypeOK, ProjectsExist
    PROVE  WriteIsRead
<1> SUFFICES ASSUME NEW u \in Callers
             PROVE  /\ \A p \in Spaces :
                         /\ RequireProjectWriteAccess(u, p) => GetProject(u, p)
                         /\ RequireLinkWriteAccess(u, p) = RequireProjectWriteAccess(u, p)
                    /\ CheckFileWriteAccess(u) => CheckFileAccess(u)
                    /\ CheckFileWriteAccess(u) <=>
                         IsAdmin(u) \/ \E p \in filed : RequireProjectWriteAccess(u, p)
  BY DEF WriteIsRead
<1>1. filed \subseteq Spaces /\ \A p \in filed : ownerOf[p] # "nobody"
  BY DEF PermissionsTypeOK, ProjectsExist
<1>2. \A p \in Spaces : RequireProjectWriteAccess(u, p) => GetProject(u, p)
  BY DEF RequireProjectWriteAccess, GetProject, GetRole, IsMember
<1>3. \A p \in Spaces : RequireLinkWriteAccess(u, p) = RequireProjectWriteAccess(u, p)
  BY DEF RequireLinkWriteAccess, RequireProjectWriteAccess
<1>4. CheckFileWriteAccess(u) => CheckFileAccess(u)
  BY DEF CheckFileWriteAccess, CheckFileAccess
<1>5. CheckFileWriteAccess(u) <=> IsAdmin(u) \/ \E p \in filed : RequireProjectWriteAccess(u, p)
  BY <1>1 DEF CheckFileWriteAccess, RequireProjectWriteAccess, FindProject, IsOwner, GetRole
<1> QED BY <1>2, <1>3, <1>4, <1>5

\* The two counts behind the status of a file tell whether every storage of the
\* project, some, or none has a synced copy.
LEMMA StatusMeans ==
    ASSUME PermissionsTypeOK
    PROVE  StatusHonest
<1> SUFFICES ASSUME NEW p \in Spaces
             PROVE  LET good(d) == assigned[p][d] = "active" /\ d \in enabled /\ copies[d] = "synced"
                    IN  /\ SyncStatus(p) = "synced" =>
                              /\ \E d \in Disks : good(d)
                              /\ \A d \in enabled : assigned[p][d] = "active" => good(d)
                        /\ SyncStatus(p) \in {"pending", "no_storage"} => ~\E d \in Disks : good(d)
                        /\ SyncStatus(p) = "partial" => \E d \in Disks : good(d)
  BY DEF StatusHonest
<1> DEFINE S == StoragesOf(p)
           G == {d \in S : copies[d] = "synced"}
           total == Cardinality(S)
           synced == Cardinality(G)
<1>1. /\ \A d : d \in S <=> d \in enabled /\ assigned[p][d] = "active"
      /\ S \subseteq Disks /\ G \subseteq S
  BY DEF StoragesOf, PermissionsTypeOK
<1>2. \A d : d \in G <=> assigned[p][d] = "active" /\ d \in enabled /\ copies[d] = "synced"
  BY <1>1
<1>3. SyncStatus(p) = IF total = 0 THEN "no_storage"
                      ELSE IF synced >= total THEN "synced"
                      ELSE IF synced > 0 THEN "partial" ELSE "pending"
  BY DEF SyncStatus
<1> HIDE DEF S, G
<1>4. IsFiniteSet(S) /\ IsFiniteSet(G)
  BY <1>1, FS_Subset, PermissionsAssumption
<1>5. total \in Nat /\ synced \in Nat /\ (total = 0 <=> S = {}) /\ (synced = 0 <=> G = {})
  BY <1>4, FS_CardinalityType, FS_EmptySet
<1>6. synced <= total /\ (synced = total => G = S)
  BY <1>1, <1>4, FS_Subset
<1> HIDE DEF total, synced
<1>7. SyncStatus(p) = "synced" => S # {} /\ G = S
  BY <1>3, <1>5, <1>6
<1>8. SyncStatus(p) \in {"pending", "no_storage"} => G = {}
  BY <1>1, <1>3, <1>5
<1>9. SyncStatus(p) = "partial" => G # {}
  BY <1>3, <1>5
<1> QED BY <1>1, <1>2, <1>7, <1>8, <1>9

\* Every list shows what the checks let through, who may write may read, and the
\* status of a file is right, for any number of accounts, projects and storages
\* and after any changes. The file checks rest on ProjectsExist: a reference is to
\* a project that was created, so the row they join with it is there
\* (list_projects, check_file_access, enrich_file_references).
THEOREM ChecksSafe == PermSpec => []ChecksAgree
<1>1. PermInit => ProjectsExist
  BY DEF PermInit, ProjectsExist, Idles
<1>2. PermInv /\ ProjectsExist => ChecksAgree
  BY ListsSame, WritersRead, StatusMeans DEF PermInv, ChecksAgree
<1> QED BY <1>1, <1>2, PermInitial, PermStep, ExistStep, PTL DEF PermSpec

-----------------------------------------------------------------------------
(* Answers: induction, and what the recursive functions compute            *)

\* Induction over the numbers, for a set of them in place of a predicate: the
\* least number that is not in the set would be the successor of one that is.
LEMMA NatSetInduction ==
    ASSUME NEW S, 0 \in S, \A k \in Nat : k \in S => k + 1 \in S
    PROVE  \A k \in Nat : k \in S
<1> DEFINE R == {ss \in Nat \X Nat : ss[1] < ss[2]}
<1> DEFINE T == Nat \ S
<1>1. IsWellFoundedOn(R, Nat)
  BY NatLessThanWellFounded DEF OpToRel
<1>2. SUFFICES ASSUME T # {} PROVE FALSE
  OBVIOUS
<1>3. T \subseteq Nat
  OBVIOUS
<1>4. PICK x \in T : \A y \in T : ~(<<y, x>> \in R)
  <2> HIDE DEF R, T
  <2> QED BY <1>1, <1>2, <1>3, WFMin
<1>5. x \in Nat /\ x # 0 /\ x \notin S
  OBVIOUS
<1>6. x - 1 \in Nat /\ x - 1 < x /\ x - 1 + 1 = x
  BY <1>5
<1>7. x - 1 \in T
  BY <1>5, <1>6
<1>8. <<x - 1, x>> \in R
  BY <1>5, <1>6
<1> QED BY <1>4, <1>7, <1>8

\* The filters of each level: a function exists that satisfies the recursive
\* definition, by induction on its domain.
LEMMA FilterOfDef ==
    ASSUME NEW n \in 0 .. Levels
    PROVE  FilterOf[n] = IF n = 0 THEN {} ELSE Deeper(FilterOf[n - 1])
<1> DEFINE Def(h, i) == IF i = 0 THEN {} ELSE Deeper(h[i - 1])
           S == {k \in Nat : \E h : h = [i \in 0 .. k |-> Def(h, i)]}
<1>1. 0 \in S
  <2> DEFINE h == [i \in 0 .. 0 |-> {}]
  <2>1. h = [i \in 0 .. 0 |-> Def(h, i)]
    OBVIOUS
  <2> QED BY <2>1
<1>2. ASSUME NEW k \in Nat, k \in S
      PROVE  k + 1 \in S
  <2>1. PICK h : h = [i \in 0 .. k |-> Def(h, i)]
    BY <1>2
  <2> DEFINE g == [i \in 0 .. k + 1 |-> Def(h, i)]
  <2>2. \A i \in 0 .. k : g[i] = h[i]
    <3> HIDE DEF Def
    <3>1. \A i \in 0 .. k : h[i] = Def(h, i)
      BY <2>1
    <3> QED BY <3>1
  <2>3. \A i \in 0 .. k + 1 : i # 0 => i - 1 \in 0 .. k
    OBVIOUS
  <2>4. \A i \in 0 .. k + 1 : Def(g, i) = Def(h, i)
    <3> HIDE DEF g
    <3> QED BY <2>2, <2>3
  <2>5. g = [i \in 0 .. k + 1 |-> Def(g, i)]
    <3> HIDE DEF Def
    <3> QED BY <2>4
  <2>6. k + 1 \in Nat
    OBVIOUS
  <2> QED
    <3> HIDE DEF Def, g
    <3> QED BY <2>5, <2>6
<1>3. Levels \in S
  <2> HIDE DEF S
  <2> QED BY <1>1, <1>2, NatSetInduction, SearchAssumption
<1>4. FilterOf = [i \in 0 .. Levels |-> Def(FilterOf, i)]
  BY <1>3 DEF FilterOf
<1> QED BY <1>4

\* The rows that the filters of each level describe.
LEMMA MeansDef ==
    ASSUME NEW n \in 0 .. Levels
    PROVE  Means[n] = IF n = 0 THEN <<>> ELSE [f \in FilterOf[n] |-> Meaning(Means[n - 1], f)]
<1> DEFINE Def(h, i) == IF i = 0 THEN <<>> ELSE [f \in FilterOf[i] |-> Meaning(h[i - 1], f)]
           S == {k \in Nat : \E h : h = [i \in 0 .. k |-> Def(h, i)]}
<1>1. 0 \in S
  <2> DEFINE h == [i \in 0 .. 0 |-> <<>>]
  <2>1. h = [i \in 0 .. 0 |-> Def(h, i)]
    OBVIOUS
  <2> QED BY <2>1
<1>2. ASSUME NEW k \in Nat, k \in S
      PROVE  k + 1 \in S
  <2>1. PICK h : h = [i \in 0 .. k |-> Def(h, i)]
    BY <1>2
  <2> DEFINE g == [i \in 0 .. k + 1 |-> Def(h, i)]
  <2>2. \A i \in 0 .. k : g[i] = h[i]
    <3> HIDE DEF Def
    <3>1. \A i \in 0 .. k : h[i] = Def(h, i)
      BY <2>1
    <3> QED BY <3>1
  <2>3. \A i \in 0 .. k + 1 : i # 0 => i - 1 \in 0 .. k
    OBVIOUS
  <2>4. \A i \in 0 .. k + 1 : Def(g, i) = Def(h, i)
    <3> HIDE DEF g
    <3> QED BY <2>2, <2>3
  <2>5. g = [i \in 0 .. k + 1 |-> Def(g, i)]
    <3> HIDE DEF Def
    <3> QED BY <2>4
  <2>6. k + 1 \in Nat
    OBVIOUS
  <2> QED
    <3> HIDE DEF Def, g
    <3> QED BY <2>5, <2>6
<1>3. Levels \in S
  <2> HIDE DEF S
  <2> QED BY <1>1, <1>2, NatSetInduction, SearchAssumption
<1>4. Means = [i \in 0 .. Levels |-> Def(Means, i)]
  BY <1>3 DEF Means
<1> QED BY <1>4

\* The clauses that the filters of each level are compiled to.
LEMMA CompileInnerDef ==
    ASSUME NEW n \in 0 .. Levels
    PROVE  CompileInner[n] =
           IF n = 0 THEN <<>>
           ELSE [x \in FilterOf[n] \X Nat \X Nat |->
                   CompileNode(CompileInner[n - 1], x[1], x[2], x[3])]
<1> DEFINE Def(h, i) == IF i = 0 THEN <<>>
                        ELSE [x \in FilterOf[i] \X Nat \X Nat |->
                                CompileNode(h[i - 1], x[1], x[2], x[3])]
           S == {k \in Nat : \E h : h = [i \in 0 .. k |-> Def(h, i)]}
<1>1. 0 \in S
  <2> DEFINE h == [i \in 0 .. 0 |-> <<>>]
  <2>1. h = [i \in 0 .. 0 |-> Def(h, i)]
    OBVIOUS
  <2> QED BY <2>1
<1>2. ASSUME NEW k \in Nat, k \in S
      PROVE  k + 1 \in S
  <2>1. PICK h : h = [i \in 0 .. k |-> Def(h, i)]
    BY <1>2
  <2> DEFINE g == [i \in 0 .. k + 1 |-> Def(h, i)]
  <2>2. \A i \in 0 .. k : g[i] = h[i]
    <3> HIDE DEF Def
    <3>1. \A i \in 0 .. k : h[i] = Def(h, i)
      BY <2>1
    <3> QED BY <3>1
  <2>3. \A i \in 0 .. k + 1 : i # 0 => i - 1 \in 0 .. k
    OBVIOUS
  <2>4. \A i \in 0 .. k + 1 : Def(g, i) = Def(h, i)
    <3> HIDE DEF g
    <3> QED BY <2>2, <2>3
  <2>5. g = [i \in 0 .. k + 1 |-> Def(g, i)]
    <3> HIDE DEF Def
    <3> QED BY <2>4
  <2>6. k + 1 \in Nat
    OBVIOUS
  <2> QED
    <3> HIDE DEF Def, g
    <3> QED BY <2>5, <2>6
<1>3. Levels \in S
  <2> HIDE DEF S
  <2> QED BY <1>1, <1>2, NatSetInduction, SearchAssumption
<1>4. CompileInner = [i \in 0 .. Levels |-> Def(CompileInner, i)]
  BY <1>3 DEF CompileInner
<1> QED BY <1>4

\* The clauses and parameters of a list of filters, one after the other.
LEMMA PartsDef ==
    ASSUME NEW compile, NEW fs, NEW next, NEW depth, Len(fs) \in Nat
    PROVE  \E h : /\ \A i \in 0 .. Len(fs) :
                        h[i] = IF i = 0 THEN [sql |-> <<>>, params |-> <<>>]
                        ELSE AddPart(compile, fs[i], h[i - 1], next, depth)
                  /\ CompileParts(compile, fs, next, depth) = h[Len(fs)]
<1> DEFINE Def(h, i) == IF i = 0 THEN [sql |-> <<>>, params |-> <<>>]
                        ELSE AddPart(compile, fs[i], h[i - 1], next, depth)
           S == {k \in Nat : \E h : h = [i \in 0 .. k |-> Def(h, i)]}
<1>1. 0 \in S
  <2> DEFINE h == [i \in 0 .. 0 |-> [sql |-> <<>>, params |-> <<>>]]
  <2>1. h = [i \in 0 .. 0 |-> Def(h, i)]
    OBVIOUS
  <2> QED BY <2>1
<1>2. ASSUME NEW k \in Nat, k \in S
      PROVE  k + 1 \in S
  <2>1. PICK h : h = [i \in 0 .. k |-> Def(h, i)]
    BY <1>2
  <2> DEFINE g == [i \in 0 .. k + 1 |-> Def(h, i)]
  <2>2. \A i \in 0 .. k : g[i] = h[i]
    <3> HIDE DEF Def
    <3>1. \A i \in 0 .. k : h[i] = Def(h, i)
      BY <2>1
    <3> QED BY <3>1
  <2>3. \A i \in 0 .. k + 1 : i # 0 => i - 1 \in 0 .. k
    OBVIOUS
  <2>4. \A i \in 0 .. k + 1 : Def(g, i) = Def(h, i)
    <3> HIDE DEF g
    <3> QED BY <2>2, <2>3
  <2>5. g = [i \in 0 .. k + 1 |-> Def(g, i)]
    <3> HIDE DEF Def
    <3> QED BY <2>4
  <2>6. k + 1 \in Nat
    OBVIOUS
  <2> QED
    <3> HIDE DEF Def, g
    <3> QED BY <2>5, <2>6
<1>3. Len(fs) \in S
  <2> HIDE DEF S
  <2> QED BY <1>1, <1>2, NatSetInduction
<1>4. PICK f : f = [i \in 0 .. Len(fs) |-> Def(f, i)]
  BY <1>3
<1> DEFINE c == CHOOSE h : h = [i \in 0 .. Len(fs) |-> Def(h, i)]
<1>5. c = [i \in 0 .. Len(fs) |-> Def(c, i)]
  <2> HIDE DEF Def
  <2> QED BY <1>4
<1>6. CompileParts(compile, fs, next, depth) = c[Len(fs)]
  BY DEF CompileParts
<1> QED
  <2>1. \A i \in 0 .. Len(fs) : c[i] = Def(c, i)
    <3> HIDE DEF Def, c
    <3> QED BY <1>5
  <2> HIDE DEF c
  <2> QED BY <2>1, <1>6

\* The elements at some positions of a list, one after the other.
LEMMA SelectDef ==
    ASSUME NEW s, NEW at, Len(s) \in Nat
    PROVE  \E h : /\ \A i \in 0 .. Len(s) :
                        h[i] = IF i = 0 THEN <<>>
                        ELSE IF i \in at THEN Append(h[i - 1], s[i]) ELSE h[i - 1]
                  /\ SelectAt(s, at) = h[Len(s)]
<1> DEFINE Def(h, i) == IF i = 0 THEN <<>>
                        ELSE IF i \in at THEN Append(h[i - 1], s[i]) ELSE h[i - 1]
           S == {k \in Nat : \E h : h = [i \in 0 .. k |-> Def(h, i)]}
<1>1. 0 \in S
  <2> DEFINE h == [i \in 0 .. 0 |-> <<>>]
  <2>1. h = [i \in 0 .. 0 |-> Def(h, i)]
    OBVIOUS
  <2> QED BY <2>1
<1>2. ASSUME NEW k \in Nat, k \in S
      PROVE  k + 1 \in S
  <2>1. PICK h : h = [i \in 0 .. k |-> Def(h, i)]
    BY <1>2
  <2> DEFINE g == [i \in 0 .. k + 1 |-> Def(h, i)]
  <2>2. \A i \in 0 .. k : g[i] = h[i]
    <3> HIDE DEF Def
    <3>1. \A i \in 0 .. k : h[i] = Def(h, i)
      BY <2>1
    <3> QED BY <3>1
  <2>3. \A i \in 0 .. k + 1 : i # 0 => i - 1 \in 0 .. k
    OBVIOUS
  <2>4. \A i \in 0 .. k + 1 : Def(g, i) = Def(h, i)
    <3> HIDE DEF g
    <3> QED BY <2>2, <2>3
  <2>5. g = [i \in 0 .. k + 1 |-> Def(g, i)]
    <3> HIDE DEF Def
    <3> QED BY <2>4
  <2>6. k + 1 \in Nat
    OBVIOUS
  <2> QED
    <3> HIDE DEF Def, g
    <3> QED BY <2>5, <2>6
<1>3. Len(s) \in S
  <2> HIDE DEF S
  <2> QED BY <1>1, <1>2, NatSetInduction
<1>4. PICK f : f = [i \in 0 .. Len(s) |-> Def(f, i)]
  BY <1>3
<1> DEFINE c == CHOOSE h : h = [i \in 0 .. Len(s) |-> Def(h, i)]
<1>5. c = [i \in 0 .. Len(s) |-> Def(c, i)]
  <2> HIDE DEF Def
  <2> QED BY <1>4
<1>6. SelectAt(s, at) = c[Len(s)]
  BY DEF SelectAt
<1> QED
  <2>1. \A i \in 0 .. Len(s) : c[i] = Def(c, i)
    <3> HIDE DEF Def, c
    <3> QED BY <1>5
  <2> HIDE DEF c
  <2> QED BY <2>1, <1>6


-----------------------------------------------------------------------------
(* Answers: the clause of a filter                                         *)

\* The arguments from next on are the ones of params.
Bound(args, next, params) ==
    \A i \in 1 .. Len(params) : /\ next + i - 1 \in 1 .. Len(args)
                                /\ args[next + i - 1] = params[i]

\* The clauses: the rows each holds for, by its arguments.
Clauses == [Seq(Args) -> SUBSET Refs]

\* A clause that holds for the rows in m whenever its arguments are bound.
Says(sql, next, params, m) ==
    \A args \in Seq(Args) : Bound(args, next, params) => sql[args] = m

\* A compiled filter: not refused, and a clause that says m.
Compiled(c, next, m) ==
    /\ c # Refused /\ c.params \in Seq(Params) /\ c.sql \in Clauses
    /\ Says(c.sql, next, c.params, m)

\* The filters of n levels are compiled to what they mean, at this depth; the ones
\* that are too deep for it are refused.
CompilesTo(n, depth) ==
    \A f \in FilterOf[n], next \in Nat :
       IF f \in FilterOf[MaxDepth - depth]
       THEN Compiled(CompileInner[n][<<f, next, depth>>], next, Means[n][f])
       ELSE CompileInner[n][<<f, next, depth>>] = Refused

\* A clause with its parameters is not a refusal.
LEMMA NotRefused ==
    ASSUME NEW c, NEW x, NEW y, c = [sql |-> x, params |-> y]
    PROVE  c # Refused /\ c.sql = x /\ c.params = y
  BY DEF Refused

\* Parameters of two parts, one after the other, are bound for each part.
LEMMA BoundSplit ==
    ASSUME NEW args, NEW next \in Nat, NEW p \in Seq(Params), NEW q \in Seq(Params),
           Bound(args, next, p \o q)
    PROVE  Bound(args, next, p) /\ Bound(args, next + Len(p), q)
<1>1. Len(p \o q) = Len(p) + Len(q) /\ Len(p) \in Nat /\ Len(q) \in Nat
  OBVIOUS
<1>2. ASSUME NEW i \in 1 .. Len(p)
      PROVE  next + i - 1 \in 1 .. Len(args) /\ args[next + i - 1] = p[i]
  <2>1. i \in 1 .. Len(p \o q) /\ (p \o q)[i] = p[i]
    BY <1>1
  <2> QED BY <2>1 DEF Bound
<1>3. ASSUME NEW i \in 1 .. Len(q)
      PROVE  next + Len(p) + i - 1 \in 1 .. Len(args) /\ args[next + Len(p) + i - 1] = q[i]
  <2>1. Len(p) + i \in 1 .. Len(p \o q) /\ (p \o q)[Len(p) + i] = q[i]
    BY <1>1
  <2>2. next + (Len(p) + i) - 1 = next + Len(p) + i - 1
    BY <1>1
  <2> QED BY <2>1, <2>2 DEF Bound
<1> QED BY <1>2, <1>3 DEF Bound

\* A leaf holds for the rows with its key and value.
LEMMA MetaContainsSays ==
    ASSUME NEW next \in Nat, NEW k \in Keys, NEW v \in Values
    PROVE  /\ MetaContains(next) \in Clauses
           /\ <<Json(k, v)>> \in Seq(Params)
           /\ Says(MetaContains(next), next, <<Json(k, v)>>, {ref \in Refs : ref.meta[k] = v})
<1>1. Json(k, v) \in Params
  BY DEF Json, Params
<1>2. ASSUME NEW args \in Seq(Args), Bound(args, next, <<Json(k, v)>>)
      PROVE  MetaContains(next)[args] = {ref \in Refs : ref.meta[k] = v}
  <2>1. next \in 1 .. Len(args) /\ args[next] = Json(k, v)
    <3>1. 1 \in 1 .. Len(<<Json(k, v)>>) /\ next + 1 - 1 = next /\ <<Json(k, v)>>[1] = Json(k, v)
      OBVIOUS
    <3> QED BY <1>2, <3>1 DEF Bound
  <2>2. Is(args, next, "json") /\ args[next].key = k /\ args[next].value = v
    BY <2>1 DEF Is, Json
  <2> QED BY <2>2 DEF MetaContains
<1> QED BY <1>1, <1>2 DEF MetaContains, Clauses, Says

\* Clauses that are joined are a clause.
LEMMA JoinedClause ==
    ASSUME NEW kind, NEW parts
    PROVE  Joined(kind, parts) \in Clauses
  BY DEF Joined, Clauses

\* The parts of a filter are compiled each to what it means, all for the same
\* arguments, since each starts its parameters where the one before it ended;
\* one part that is too deep refuses them all.
LEMMA PartsCompiled ==
    ASSUME NEW n \in 0 .. Levels, NEW depth \in 0 .. MaxDepth, CompilesTo(n, depth),
           NEW fs \in Seq(FilterOf[n]), NEW next \in Nat
    PROVE  LET parts == CompileParts(CompileInner[n], fs, next, depth) IN
           IF \A i \in 1 .. Len(fs) : fs[i] \in FilterOf[MaxDepth - depth]
           THEN /\ parts # Refused /\ parts.params \in Seq(Params) /\ parts.sql \in Seq(Clauses)
                /\ Len(parts.sql) = Len(fs)
                /\ \A i \in 1 .. Len(fs) :
                      Says(parts.sql[i], next, parts.params, Means[n][fs[i]])
           ELSE parts = Refused
<1> DEFINE Def(h, i) == IF i = 0 THEN [sql |-> <<>>, params |-> <<>>]
                        ELSE AddPart(CompileInner[n], fs[i], h[i - 1], next, depth)
           Accept(k) == \A i \in 1 .. k : fs[i] \in FilterOf[MaxDepth - depth]
           Good(p, k) == /\ p # Refused /\ p.params \in Seq(Params) /\ p.sql \in Seq(Clauses)
                         /\ Len(p.sql) = k
                         /\ \A i \in 1 .. k : Says(p.sql[i], next, p.params, Means[n][fs[i]])
<1>2. Len(fs) \in Nat
  OBVIOUS
<1>1. PICK h : /\ \A i \in 0 .. Len(fs) : h[i] = Def(h, i)
               /\ CompileParts(CompileInner[n], fs, next, depth) = h[Len(fs)]
  BY <1>2, PartsDef
<1> DEFINE S == {k \in Nat : k <= Len(fs) => IF Accept(k) THEN Good(h[k], k) ELSE h[k] = Refused}
<1>3. \A i \in 0 .. Len(fs) : h[i] = Def(h, i)
  BY <1>1
<1>4. 0 \in S
  <2>1. h[0] = [sql |-> <<>>, params |-> <<>>]
    BY <1>2, <1>3
  <2>2. Accept(0)
    OBVIOUS
  <2>3. Good(h[0], 0)
    <3>1. h[0] # Refused /\ h[0].sql = <<>> /\ h[0].params = <<>>
      BY <2>1, NotRefused
    <3> QED BY <3>1
  <2> HIDE DEF Accept, Good
  <2> QED BY <2>2, <2>3
<1>5. ASSUME NEW k \in Nat, k \in S
      PROVE  k + 1 \in S
  <2>1. SUFFICES ASSUME k + 1 <= Len(fs)
                 PROVE  IF Accept(k + 1) THEN Good(h[k + 1], k + 1) ELSE h[k + 1] = Refused
    OBVIOUS
  <2>2. IF Accept(k) THEN Good(h[k], k) ELSE h[k] = Refused
    BY <1>5, <2>1, <1>2
  <2>3. h[k + 1] = AddPart(CompileInner[n], fs[k + 1], h[k], next, depth)
    <3>1. k + 1 \in 0 .. Len(fs) /\ k + 1 # 0 /\ k + 1 - 1 = k
      BY <2>1, <1>2
    <3>2. h[k + 1] = Def(h, k + 1)
      <4> HIDE DEF Def
      <4> QED BY ONLY <3>1, <1>3
    <3>3. Def(h, k + 1) = AddPart(CompileInner[n], fs[k + 1], h[k], next, depth)
      BY ONLY <3>1
    <3> HIDE DEF Def
    <3> QED BY <3>2, <3>3
  <2>4. Accept(k + 1) <=> Accept(k) /\ fs[k + 1] \in FilterOf[MaxDepth - depth]
    <3>1. 1 .. k + 1 = (1 .. k) \cup {k + 1}
      OBVIOUS
    <3> QED BY <3>1
  <2>5. fs[k + 1] \in FilterOf[n]
    BY <2>1, <1>2
  <2> HIDE DEF Accept
  <2>6. CASE ~Accept(k)
    BY <2>2, <2>3, <2>4, <2>6 DEF AddPart
  <2>7. CASE Accept(k)
    <3> DEFINE at == next + Len(h[k].params)
               part == CompileInner[n][<<fs[k + 1], at, depth>>]
    <3>1. Good(h[k], k)
      BY <2>2, <2>7
    <3>2. at \in Nat
      BY <3>1
    <3> HIDE DEF at
    <3>3. IF fs[k + 1] \in FilterOf[MaxDepth - depth]
          THEN Compiled(part, at, Means[n][fs[k + 1]]) ELSE part = Refused
      BY <2>5, <3>2 DEF CompilesTo
    <3>4. h[k + 1] = IF part = Refused THEN Refused
                     ELSE [sql |-> Append(h[k].sql, part.sql), params |-> h[k].params \o part.params]
      BY <2>3, <3>1 DEF AddPart, at
    <3> HIDE DEF part
    <3>5. CASE ~(fs[k + 1] \in FilterOf[MaxDepth - depth])
      BY <3>3, <3>4, <3>5, <2>4
    <3>6. CASE fs[k + 1] \in FilterOf[MaxDepth - depth]
      <4>1. /\ part # Refused /\ part.params \in Seq(Params) /\ part.sql \in Clauses
            /\ Says(part.sql, at, part.params, Means[n][fs[k + 1]])
        BY <3>3, <3>6 DEF Compiled
      <4>2. /\ h[k].params \in Seq(Params) /\ h[k].sql \in Seq(Clauses) /\ Len(h[k].sql) = k
            /\ \A i \in 1 .. k : Says(h[k].sql[i], next, h[k].params, Means[n][fs[i]])
        BY <3>1
      <4>3. /\ h[k + 1] # Refused /\ h[k + 1].sql = Append(h[k].sql, part.sql)
            /\ h[k + 1].params = h[k].params \o part.params
        <5>1. h[k + 1] = [sql |-> Append(h[k].sql, part.sql), params |-> h[k].params \o part.params]
          BY <3>4, <4>1
        <5> DEFINE x == Append(h[k].sql, part.sql)
                   y == h[k].params \o part.params
        <5>2. h[k + 1] = [sql |-> x, params |-> y]
          BY <5>1
        <5> HIDE DEF x, y
        <5>3. h[k + 1] # Refused /\ h[k + 1].sql = x /\ h[k + 1].params = y
          BY <5>2, NotRefused
        <5> QED BY <5>3 DEF x, y
      <4>4. h[k + 1].params \in Seq(Params) /\ h[k + 1].sql \in Seq(Clauses) /\ Len(h[k + 1].sql) = k + 1
        BY <4>1, <4>2, <4>3
      <4>5. ASSUME NEW i \in 1 .. k + 1, NEW args \in Seq(Args), Bound(args, next, h[k + 1].params)
            PROVE  h[k + 1].sql[i][args] = Means[n][fs[i]]
        <5>1. Bound(args, next, h[k].params) /\ Bound(args, at, part.params)
          BY <4>1, <4>2, <4>3, <4>5, BoundSplit DEF at
        <5>2. CASE i = k + 1
          <6>1. h[k + 1].sql[i] = part.sql
            BY <4>1, <4>2, <4>3, <5>2
          <6> QED BY <6>1, <5>1, <5>2, <4>1 DEF Says
        <5>3. CASE i # k + 1
          <6>1. i \in 1 .. k
            BY <5>3
          <6>2. h[k + 1].sql[i] = h[k].sql[i]
            BY <4>1, <4>2, <4>3, <6>1
          <6> QED BY <6>1, <6>2, <5>1, <4>2 DEF Says
        <5> QED BY <5>2, <5>3
      <4>6. Good(h[k + 1], k + 1)
        BY <4>3, <4>4, <4>5 DEF Says
      <4> QED BY <4>6, <3>6, <2>4, <2>7
    <3> QED BY <3>5, <3>6
  <2> QED BY <2>6, <2>7
<1>6. Len(fs) \in S
  <2> HIDE DEF S
  <2> QED BY <1>2, <1>4, <1>5, NatSetInduction
<1>7. IF Accept(Len(fs)) THEN Good(h[Len(fs)], Len(fs)) ELSE h[Len(fs)] = Refused
  <2> HIDE DEF Accept, Good
  <2> QED BY <1>2, <1>6
<1> QED BY <1>1, <1>7

\* A filter is a leaf, or joins filters of one level less.
LEMMA FilterShape ==
    ASSUME NEW n \in 1 .. Levels, NEW f \in FilterOf[n]
    PROVE  /\ n - 1 \in 0 .. Levels
           /\ \/ f.kind = "leaf" /\ f.key \in Keys /\ f.value \in Values
              \/ f.kind \in {"and", "or", "not"} /\ f.of \in Seq(FilterOf[n - 1])
           /\ f.kind = "not" => Len(f.of) = 1
<1>1. n \in 0 .. Levels /\ n # 0 /\ n - 1 \in 0 .. Levels
  BY SearchAssumption
<1>2. f \in Deeper(FilterOf[n - 1])
  BY <1>1, FilterOfDef
<1> DEFINE fs == FilterOf[n - 1]
<1> HIDE DEF fs
<1>3. f \in Deeper(fs)
  BY <1>2 DEF fs
<1>4. CASE f \in [kind : {"leaf"}, key : Keys, value : Values]
  BY <1>4, <1>1
<1>5. CASE f \in [kind : {"and", "or"}, of : Seq(fs)]
  BY <1>5, <1>1 DEF fs
<1>6. CASE f \in [kind : {"not"}, of : [1 .. 1 -> fs]]
  <2>1. f.kind = "not" /\ f.of \in [1 .. 1 -> fs]
    BY <1>6
  <2>2. f.of \in Seq(fs)
    <3>1. f.of \in UNION {[1 .. k -> fs] : k \in Nat}
      BY <2>1
    <3> QED BY <3>1, SeqDef
  <2>3. Len(f.of) = 1
    BY <2>1
  <2> QED BY <2>1, <2>2, <2>3, <1>1 DEF fs
<1> QED BY <1>3, <1>4, <1>5, <1>6 DEF Deeper

\* A filter of n levels is one of m levels when it is a leaf, or all its parts
\* are of one level less.
LEMMA FilterFits ==
    ASSUME NEW n \in 1 .. Levels, NEW m \in 1 .. Levels, NEW f \in FilterOf[n]
    PROVE  f \in FilterOf[m] <=>
             (f.kind # "leaf" => \A i \in 1 .. Len(f.of) : f.of[i] \in FilterOf[m - 1])
<1>1. /\ n \in 0 .. Levels /\ n # 0 /\ n - 1 \in 0 .. Levels
      /\ m \in 0 .. Levels /\ m # 0 /\ m - 1 \in 0 .. Levels
  BY SearchAssumption
<1> DEFINE fs == FilterOf[n - 1]
           gs == FilterOf[m - 1]
<1>2. f \in Deeper(fs)
  BY <1>1, FilterOfDef
<1>3. FilterOf[m] = Deeper(gs)
  BY <1>1, FilterOfDef
<1> HIDE DEF fs, gs
<1>4. CASE f \in [kind : {"leaf"}, key : Keys, value : Values]
  <2>1. f.kind = "leaf" /\ f \in Deeper(gs)
    BY <1>4 DEF Deeper
  <2> QED BY <2>1, <1>3
<1>5. CASE f \in [kind : {"and", "or"}, of : Seq(fs)]
  <2>1. f.kind \in {"and", "or"} /\ f.of \in Seq(fs) /\ f = [kind |-> f.kind, of |-> f.of]
    BY <1>5
  <2>2. f \in Deeper(gs) <=> f.of \in Seq(gs)
    BY <2>1 DEF Deeper
  <2>3. f.of \in Seq(gs) <=> \A i \in 1 .. Len(f.of) : f.of[i] \in gs
    BY <2>1
  <2> QED BY <2>1, <2>2, <2>3, <1>3 DEF gs
<1>6. CASE f \in [kind : {"not"}, of : [1 .. 1 -> fs]]
  <2>1. f.kind = "not" /\ f.of \in [1 .. 1 -> fs] /\ f = [kind |-> f.kind, of |-> f.of]
    BY <1>6
  <2>2. f \in Deeper(gs) <=> f.of \in [1 .. 1 -> gs]
    BY <2>1 DEF Deeper
  <2>3. f.of \in [1 .. 1 -> gs] <=> \A i \in 1 .. 1 : f.of[i] \in gs
    BY <2>1
  <2>4. Len(f.of) = 1
    BY <2>1
  <2> QED BY <2>1, <2>2, <2>3, <2>4, <1>3 DEF gs
<1> QED BY <1>2, <1>4, <1>5, <1>6 DEF Deeper

\* Joined as their filter says, the clauses of the parts say what it means.
LEMMA JoinedSays ==
    ASSUME NEW f, NEW means, NEW parts, NEW fs, NEW next, NEW params,
           f.of \in Seq(fs), f.kind \in {"and", "or", "not"}, f.kind = "not" => Len(f.of) = 1,
           parts \in Seq(Clauses), Len(parts) = Len(f.of),
           \A i \in 1 .. Len(f.of) : Says(parts[i], next, params, means[f.of[i]])
    PROVE  Says(Joined(f.kind, parts), next, params, Meaning(means, f))
<1> SUFFICES ASSUME NEW args \in Seq(Args), Bound(args, next, params)
             PROVE  Joined(f.kind, parts)[args] = Meaning(means, f)
  BY DEF Says
<1>1. DOMAIN parts = 1 .. Len(f.of) /\ DOMAIN f.of = 1 .. Len(f.of)
  OBVIOUS
<1>2. \A i \in 1 .. Len(f.of) : parts[i][args] = means[f.of[i]]
  BY DEF Says
<1>3. ASSUME f.kind = "not"
      PROVE  1 \in 1 .. Len(f.of)
  <2>1. Len(f.of) = 1
    BY <1>3
  <2> QED BY <2>1
<1>4. f.kind # "leaf"
  OBVIOUS
<1>5. ASSUME NEW ref \in Refs
      PROVE  /\ (\A i \in DOMAIN parts : ref \in parts[i][args])
                   <=> \A i \in DOMAIN f.of : ref \in means[f.of[i]]
             /\ (\E i \in DOMAIN parts : ref \in parts[i][args])
                   <=> \E i \in DOMAIN f.of : ref \in means[f.of[i]]
             /\ f.kind = "not" => (ref \in parts[1][args] <=> ref \in means[f.of[1]])
  BY <1>1, <1>2, <1>3
<1>6. Joined(f.kind, parts)[args] =
        {ref \in Refs :
            \/ f.kind = "and" /\ \A i \in DOMAIN parts : ref \in parts[i][args]
            \/ f.kind = "or" /\ \E i \in DOMAIN parts : ref \in parts[i][args]
            \/ f.kind = "not" /\ ref \notin parts[1][args]}
  BY DEF Joined
<1> QED BY <1>4, <1>5, <1>6 DEF Meaning

\* What a filter means, from what its parts mean.
LEMMA MeansStep ==
    ASSUME NEW n \in 1 .. Levels, NEW f \in FilterOf[n]
    PROVE  Means[n][f] = Meaning(Means[n - 1], f)
<1>1. n \in 0 .. Levels /\ n # 0
  BY SearchAssumption
<1>2. Means[n] = [g \in FilterOf[n] |-> Meaning(Means[n - 1], g)]
  BY <1>1, MeansDef
<1> QED BY <1>2

\* What a filter is compiled to, from what its parts are compiled to.
LEMMA CompileInnerStep ==
    ASSUME NEW n \in 1 .. Levels, NEW f \in FilterOf[n], NEW next \in Nat, NEW depth \in Nat
    PROVE  CompileInner[n][<<f, next, depth>>] = CompileNode(CompileInner[n - 1], f, next, depth)
<1>1. n \in 0 .. Levels /\ n # 0
  BY SearchAssumption
<1>2. CompileInner[n] = [x \in FilterOf[n] \X Nat \X Nat |->
                           CompileNode(CompileInner[n - 1], x[1], x[2], x[3])]
  BY <1>1, CompileInnerDef
<1>3. <<f, next, depth>> \in FilterOf[n] \X Nat \X Nat
  OBVIOUS
<1>4. <<f, next, depth>>[1] = f /\ <<f, next, depth>>[2] = next /\ <<f, next, depth>>[3] = depth
  OBVIOUS
<1> QED BY <1>2, <1>3, <1>4

\* compile_inner is right: for a filter of any level and from any first parameter,
\* the clause holds for the rows the filter means, and exactly the filters that
\* are nested deeper than MAX_DEPTH are refused; by induction on the levels.
LEMMA InnerCompiles ==
    ASSUME NEW n \in 0 .. Levels, NEW depth \in 0 .. MaxDepth
    PROVE  CompilesTo(n, depth)
<1> DEFINE S == {k \in Nat : k <= Levels => \A d \in 0 .. MaxDepth : CompilesTo(k, d)}
<1>1. 0 \in S
  <2>1. FilterOf[0] = {}
    BY FilterOfDef, SearchAssumption
  <2> QED BY <2>1 DEF CompilesTo
<1>2. ASSUME NEW k \in Nat, k \in S
      PROVE  k + 1 \in S
  <2>1. SUFFICES ASSUME k + 1 <= Levels, NEW d \in 0 .. MaxDepth,
                        NEW f \in FilterOf[k + 1], NEW next \in Nat
                 PROVE  IF f \in FilterOf[MaxDepth - d]
                        THEN Compiled(CompileInner[k + 1][<<f, next, d>>], next, Means[k + 1][f])
                        ELSE CompileInner[k + 1][<<f, next, d>>] = Refused
    BY DEF CompilesTo
  <2>2. k \in 0 .. Levels /\ k + 1 \in 0 .. Levels /\ k + 1 \in 1 .. Levels /\ k + 1 # 0 /\ k + 1 - 1 = k
    BY <2>1, SearchAssumption
  <2>3. \A e \in 0 .. MaxDepth : CompilesTo(k, e)
    BY <1>2, <2>2
  <2> DEFINE c == CompileInner[k + 1][<<f, next, d>>]
  <2>4. c = CompileNode(CompileInner[k], f, next, d)
    <3>1. d \in Nat
      BY SearchAssumption
    <3> QED BY <2>2, <3>1, CompileInnerStep
  <2>5. Means[k + 1][f] = Meaning(Means[k], f)
    BY <2>2, MeansStep
  <2> HIDE DEF c
  <2>6. CASE d = MaxDepth
    <3>1. FilterOf[MaxDepth - d] = {}
      BY <2>6, FilterOfDef, SearchAssumption
    <3>2. c = Refused
      BY <2>4, <2>6, SearchAssumption DEF CompileNode
    <3> QED BY <3>1, <3>2 DEF c
  <2>7. CASE d # MaxDepth
    <3>1. /\ d + 1 \in 0 .. MaxDepth /\ ~(d >= MaxDepth)
          /\ MaxDepth - d \in 1 .. Levels /\ MaxDepth - d - 1 = MaxDepth - (d + 1)
      <4>1. MaxDepth \in Nat /\ Levels \in Nat /\ MaxDepth <= Levels
        BY SearchAssumption
      <4> QED BY <2>7, <4>1
    <3>2. f \in FilterOf[MaxDepth - d] <=>
            (f.kind # "leaf" => \A i \in 1 .. Len(f.of) : f.of[i] \in FilterOf[MaxDepth - (d + 1)])
      <4> DEFINE m == MaxDepth - d
      <4> HIDE DEF m
      <4>1. m \in 1 .. Levels /\ m - 1 = MaxDepth - (d + 1)
        BY <3>1 DEF m
      <4>2. f \in FilterOf[m] <=>
              (f.kind # "leaf" => \A i \in 1 .. Len(f.of) : f.of[i] \in FilterOf[m - 1])
        BY <4>1, <2>2, FilterFits
      <4> QED BY <4>1, <4>2 DEF m
    <3>3. /\ \/ f.kind = "leaf" /\ f.key \in Keys /\ f.value \in Values
             \/ f.kind \in {"and", "or", "not"} /\ f.of \in Seq(FilterOf[k])
          /\ f.kind = "not" => Len(f.of) = 1
      BY <2>2, FilterShape
    <3>4. CASE f.kind = "leaf"
      <4>1. c = [sql |-> MetaContains(next), params |-> <<Json(f.key, f.value)>>]
        BY <2>4, <3>1, <3>4 DEF CompileNode
      <4>2. c # Refused /\ c.sql = MetaContains(next) /\ c.params = <<Json(f.key, f.value)>>
        <5> DEFINE y == <<Json(f.key, f.value)>>
        <5> HIDE DEF y
        <5>1. c = [sql |-> MetaContains(next), params |-> y]
          BY <4>1 DEF y
        <5>2. c # Refused /\ c.sql = MetaContains(next) /\ c.params = y
          BY <5>1, NotRefused
        <5> QED BY <5>2 DEF y
      <4>3. Meaning(Means[k], f) = {ref \in Refs : ref.meta[f.key] = f.value}
        BY <3>4 DEF Meaning
      <4>4. f.key \in Keys /\ f.value \in Values
        BY <3>3, <3>4
      <4>5. Compiled(c, next, Means[k + 1][f])
        BY <4>2, <4>3, <4>4, <2>5, MetaContainsSays DEF Compiled
      <4>6. f \in FilterOf[MaxDepth - d]
        BY <3>2, <3>4
      <4> QED BY <4>5, <4>6 DEF c
    <3>5. CASE f.kind # "leaf"
      <4> DEFINE parts == CompileParts(CompileInner[k], f.of, next, d + 1)
                 Accept == \A i \in 1 .. Len(f.of) : f.of[i] \in FilterOf[MaxDepth - (d + 1)]
      <4>1. f.kind \in {"and", "or", "not"} /\ f.of \in Seq(FilterOf[k])
        BY <3>3, <3>5
      <4>2. CompilesTo(k, d + 1)
        BY <2>3, <3>1
      <4>3. IF Accept
            THEN /\ parts # Refused /\ parts.params \in Seq(Params) /\ parts.sql \in Seq(Clauses)
                 /\ Len(parts.sql) = Len(f.of)
                 /\ \A i \in 1 .. Len(f.of) :
                       Says(parts.sql[i], next, parts.params, Means[k][f.of[i]])
            ELSE parts = Refused
        BY <2>2, <3>1, <4>1, <4>2, PartsCompiled
      <4>4. c = IF parts = Refused THEN Refused
                ELSE [sql |-> Joined(f.kind, parts.sql), params |-> parts.params]
        BY <2>4, <3>1, <3>5 DEF CompileNode
      <4> HIDE DEF parts
      <4>5. CASE Accept
        <5>1. c = [sql |-> Joined(f.kind, parts.sql), params |-> parts.params]
          BY <4>3, <4>4, <4>5
        <5>2. c # Refused /\ c.sql = Joined(f.kind, parts.sql) /\ c.params = parts.params
          BY <5>1, NotRefused
        <5>3. Says(Joined(f.kind, parts.sql), next, parts.params, Meaning(Means[k], f))
          BY <3>3, <4>1, <4>3, <4>5, JoinedSays
        <5>4. Compiled(c, next, Means[k + 1][f])
          BY <5>2, <5>3, <4>3, <4>5, <2>5, JoinedClause DEF Compiled
        <5>5. f \in FilterOf[MaxDepth - d]
          BY <3>2, <4>5
        <5> QED BY <5>4, <5>5 DEF c
      <4>6. CASE ~Accept
        <5>1. c = Refused
          BY <4>3, <4>4, <4>6
        <5>2. ~(f \in FilterOf[MaxDepth - d])
          BY <3>2, <3>5, <4>6
        <5> QED BY <5>1, <5>2 DEF c
      <4> QED BY <4>5, <4>6
    <3> QED BY <3>4, <3>5
  <2> QED BY <2>6, <2>7
<1>3. n \in S
  <2> HIDE DEF S
  <2> QED BY <1>1, <1>2, NatSetInduction
<1> QED BY <1>3

\* SelectAt has the elements at the positions, and no other.
LEMMA SelectKeeps ==
    ASSUME NEW X, NEW s \in Seq(X), NEW at
    PROVE  LET g == SelectAt(s, at) IN
           /\ g \in Seq(X) /\ Len(g) <= Len(s)
           /\ \A j \in 1 .. Len(g) : \E i \in 1 .. Len(s) : i \in at /\ g[j] = s[i]
           /\ \A i \in 1 .. Len(s) : i \in at => \E j \in 1 .. Len(g) : g[j] = s[i]
<1> DEFINE Good(g, k) ==
             /\ g \in Seq(X) /\ Len(g) <= k
             /\ \A j \in 1 .. Len(g) : \E i \in 1 .. k : i \in at /\ g[j] = s[i]
             /\ \A i \in 1 .. k : i \in at => \E j \in 1 .. Len(g) : g[j] = s[i]
<1>1. Len(s) \in Nat
  OBVIOUS
<1>2. PICK h : /\ \A i \in 0 .. Len(s) :
                     h[i] = IF i = 0 THEN <<>>
                            ELSE IF i \in at THEN Append(h[i - 1], s[i]) ELSE h[i - 1]
               /\ SelectAt(s, at) = h[Len(s)]
  BY <1>1, SelectDef
<1> DEFINE S == {k \in Nat : k <= Len(s) => Good(h[k], k)}
<1>3. 0 \in S
  <2>1. h[0] = <<>>
    BY <1>1, <1>2
  <2>2. h[0] \in Seq(X) /\ Len(h[0]) = 0
    BY <2>1
  <2>3. Good(h[0], 0)
    BY <2>2
  <2> QED BY <2>3
<1>4. ASSUME NEW k \in Nat, k \in S
      PROVE  k + 1 \in S
  <2>1. SUFFICES ASSUME k + 1 <= Len(s)
                 PROVE  Good(h[k + 1], k + 1)
    OBVIOUS
  <2>2. Good(h[k], k)
    BY <1>1, <1>4, <2>1
  <2>3. h[k + 1] = IF k + 1 \in at THEN Append(h[k], s[k + 1]) ELSE h[k]
    <3>1. k + 1 \in 0 .. Len(s) /\ k + 1 # 0 /\ k + 1 - 1 = k
      BY <1>1, <2>1
    <3> QED BY <1>2, <3>1
  <2>4. 1 .. k + 1 = (1 .. k) \cup {k + 1}
    OBVIOUS
  <2>5. CASE k + 1 \notin at
    <3>1. h[k + 1] = h[k]
      BY <2>3, <2>5
    <3> QED BY <2>2, <2>4, <2>5, <3>1
  <2>6. CASE k + 1 \in at
    <3> DEFINE g == h[k]
               e == s[k + 1]
    <3>1. /\ g \in Seq(X) /\ Len(g) <= k
          /\ \A j \in 1 .. Len(g) : \E i \in 1 .. k : i \in at /\ g[j] = s[i]
          /\ \A i \in 1 .. k : i \in at => \E j \in 1 .. Len(g) : g[j] = s[i]
      BY <2>2
    <3>2. e \in X
      BY <1>1, <2>1
    <3>3. h[k + 1] = Append(g, e)
      BY <2>3, <2>6
    <3> HIDE DEF g
    <3>4. /\ Append(g, e) \in Seq(X) /\ Len(Append(g, e)) = Len(g) + 1 /\ Len(g) \in Nat
          /\ \A j \in 1 .. Len(g) : Append(g, e)[j] = g[j]
          /\ Append(g, e)[Len(g) + 1] = e
      BY <3>1, <3>2
    <3>5. ASSUME NEW j \in 1 .. Len(g) + 1
          PROVE  \E i \in 1 .. k + 1 : i \in at /\ Append(g, e)[j] = s[i]
      <4>1. CASE j = Len(g) + 1
        BY <4>1, <3>4, <2>4, <2>6
      <4>2. CASE j # Len(g) + 1
        <5>1. j \in 1 .. Len(g)
          BY <4>2, <3>4
        <5> QED BY <5>1, <3>1, <3>4, <2>4
      <4> QED BY <4>1, <4>2
    <3>6. ASSUME NEW i \in 1 .. k + 1, i \in at
          PROVE  \E j \in 1 .. Len(g) + 1 : Append(g, e)[j] = s[i]
      <4>1. CASE i = k + 1
        <5>1. Len(g) + 1 \in 1 .. Len(g) + 1
          BY <3>4
        <5> QED BY <5>1, <4>1, <3>4
      <4>2. CASE i # k + 1
        <5>1. PICK j \in 1 .. Len(g) : g[j] = s[i]
          BY <4>2, <2>4, <3>1, <3>6
        <5>2. j \in 1 .. Len(g) + 1
          BY <3>4
        <5> QED BY <5>1, <5>2, <3>4
      <4> QED BY <4>1, <4>2
    <3> HIDE DEF e
    <3>7. h[k + 1] \in Seq(X) /\ Len(h[k + 1]) = Len(g) + 1 /\ Len(g) + 1 <= k + 1
      BY <3>1, <3>3, <3>4
    <3>8. /\ \A j \in 1 .. Len(h[k + 1]) : \E i \in 1 .. k + 1 : i \in at /\ h[k + 1][j] = s[i]
          /\ \A i \in 1 .. k + 1 : i \in at => \E j \in 1 .. Len(h[k + 1]) : h[k + 1][j] = s[i]
      BY <3>3, <3>5, <3>6, <3>7
    <3> QED BY <3>7, <3>8
  <2> QED BY <2>5, <2>6
<1>5. Len(s) \in S
  <2> HIDE DEF S
  <2> QED BY <1>1, <1>3, <1>4, NatSetInduction
<1>6. Good(h[Len(s)], Len(s))
  <2> HIDE DEF Good
  <2> QED BY <1>1, <1>5
<1> QED BY <1>2, <1>6

-----------------------------------------------------------------------------
(* Answers: searches and bulk deletes                                      *)

\* The conditions that come with a filter: each is one of the model's, and its
\* argument one of its type.
Operators == {"named", "since", "until", "earlier", "later", "atLeast", "atMost", "unused"}
Conditions == {c \in [op : Operators, type : {"text", "time", "size"},
                      value : Opt(Names) \cup Opt(Times)] :
                 c.value # NotGiven => Arg(c.type, c.value) \in Args}

\* What the conditions that are given say of a row.
AllMet(inputs, ref) ==
    \A i \in 1 .. Len(inputs) :
       inputs[i].value # NotGiven => Meets(inputs[i].op, ref, inputs[i].value)

\* The inputs that are given are the conditions there are.
LEMMA GivenConditions ==
    ASSUME NEW inputs \in Seq(Conditions)
    PROVE  /\ Given(inputs) \in Seq(Conditions)
           /\ \A i \in 1 .. Len(Given(inputs)) : Given(inputs)[i].value # NotGiven
           /\ \A ref : AllMet(inputs, ref) <=>
                 \A i \in 1 .. Len(Given(inputs)) :
                    Meets(Given(inputs)[i].op, ref, Given(inputs)[i].value)
<1> DEFINE at == {i \in DOMAIN inputs : inputs[i].value # NotGiven}
           g == SelectAt(inputs, at)
<1>1. /\ g \in Seq(Conditions)
      /\ \A j \in 1 .. Len(g) : \E i \in 1 .. Len(inputs) : i \in at /\ g[j] = inputs[i]
      /\ \A i \in 1 .. Len(inputs) : i \in at => \E j \in 1 .. Len(g) : g[j] = inputs[i]
  <2> HIDE DEF at
  <2>1. inputs \in Seq(Conditions)
    OBVIOUS
  <2> QED BY <2>1, SelectKeeps
<1>2. \A i \in 1 .. Len(inputs) : i \in at <=> inputs[i].value # NotGiven
  OBVIOUS
<1>3. Given(inputs) = g
  BY DEF Given
<1> HIDE DEF g, at
<1>4. \A i \in 1 .. Len(g) : g[i].value # NotGiven
  BY <1>1, <1>2
<1>5. ASSUME NEW ref, AllMet(inputs, ref), NEW j \in 1 .. Len(g)
      PROVE  Meets(g[j].op, ref, g[j].value)
  <2>1. PICK i \in 1 .. Len(inputs) : i \in at /\ g[j] = inputs[i]
    BY <1>1
  <2> QED BY <1>2, <1>5, <2>1 DEF AllMet
<1>6. ASSUME NEW ref, \A j \in 1 .. Len(g) : Meets(g[j].op, ref, g[j].value)
      PROVE  AllMet(inputs, ref)
  <2> SUFFICES ASSUME NEW i \in 1 .. Len(inputs), inputs[i].value # NotGiven
               PROVE  Meets(inputs[i].op, ref, inputs[i].value)
    BY DEF AllMet
  <2>1. PICK j \in 1 .. Len(g) : g[j] = inputs[i]
    BY <1>1, <1>2
  <2> QED BY <1>6, <2>1
<1> QED BY <1>1, <1>3, <1>4, <1>5, <1>6

\* What is bound last has the last numbers.
LEMMA BoundLast ==
    ASSUME NEW a \in Seq(Args), NEW p \in Seq(Args)
    PROVE  Bound(a \o p, Len(a) + 1, p)
<1>1. a \o p \in Seq(Args) /\ Len(a \o p) = Len(a) + Len(p) /\ Len(a) \in Nat /\ Len(p) \in Nat
  OBVIOUS
<1>2. ASSUME NEW i \in 1 .. Len(p)
      PROVE  /\ Len(a) + 1 + i - 1 \in 1 .. Len(a \o p)
             /\ (a \o p)[Len(a) + 1 + i - 1] = p[i]
  <2>1. Len(a) + 1 + i - 1 = Len(a) + i /\ Len(a) + i \in 1 .. Len(a \o p)
    BY <1>1
  <2>2. (a \o p)[Len(a) + i] = p[i]
    BY <1>1
  <2> QED BY <2>1, <2>2
<1> QED BY <1>2 DEF Bound

\* More arguments at the end change none that are bound.
LEMMA BoundGrows ==
    ASSUME NEW a \in Seq(Args), NEW r \in Seq(Args), NEW next, NEW p, Bound(a, next, p)
    PROVE  Bound(a \o r, next, p)
<1>1. Len(a \o r) = Len(a) + Len(r) /\ Len(a) \in Nat /\ Len(r) \in Nat
  OBVIOUS
<1>2. \A j \in 1 .. Len(a) : j \in 1 .. Len(a \o r) /\ (a \o r)[j] = a[j]
  BY <1>1
<1> QED BY <1>2 DEF Bound

\* The numbered conditions, with their arguments, say what the inputs say.
LEMMA ClauseSays ==
    ASSUME NEW inputs \in Seq(Conditions), NEW start \in Nat
    PROVE  /\ Clause(inputs, start) \in Seq(Clauses)
           /\ Len(Clause(inputs, start)) = Len(Given(inputs))
           /\ Bind(inputs) \in Seq(Args) /\ Len(Bind(inputs)) = Len(Given(inputs))
           /\ \A args \in Seq(Args), ref \in Refs : Bound(args, start, Bind(inputs)) =>
                 ((\A i \in 1 .. Len(Given(inputs)) : ref \in Clause(inputs, start)[i][args])
                     <=> AllMet(inputs, ref))
<1> DEFINE g == Given(inputs)
           n == Len(g)
<1>1. /\ g \in Seq(Conditions) /\ \A i \in 1 .. n : g[i].value # NotGiven
      /\ \A ref : AllMet(inputs, ref) <=> \A i \in 1 .. n : Meets(g[i].op, ref, g[i].value)
  BY GivenConditions
<1>2. Clause(inputs, start) = [i \in 1 .. n |-> Condition(g[i].op, g[i].type, start + i - 1)]
  BY DEF Clause
<1>3. Bind(inputs) = [i \in 1 .. n |-> Arg(g[i].type, g[i].value)]
  BY DEF Bind
<1> HIDE DEF g
<1>4. n \in Nat
  BY <1>1
<1>5. \A i \in 1 .. n : g[i] \in Conditions
  BY <1>1
<1>6. \A i \in 1 .. n : Arg(g[i].type, g[i].value) \in Args
  BY <1>1, <1>5 DEF Conditions
<1>7. ASSUME NEW op, NEW type, NEW k
      PROVE  Condition(op, type, k) \in Clauses
  BY DEF Condition, Clauses
<1> HIDE DEF n
<1>8. Bind(inputs) \in Seq(Args) /\ Len(Bind(inputs)) = n
  BY <1>3, <1>4, <1>6
<1>9. Clause(inputs, start) \in Seq(Clauses) /\ Len(Clause(inputs, start)) = n
  BY <1>2, <1>4, <1>7
<1>10. ASSUME NEW args \in Seq(Args), NEW ref \in Refs, Bound(args, start, Bind(inputs)), NEW i \in 1 .. n
       PROVE  ref \in Clause(inputs, start)[i][args] <=> Meets(g[i].op, ref, g[i].value)
  <2>1. start + i - 1 \in 1 .. Len(args) /\ args[start + i - 1] = Bind(inputs)[i]
    BY <1>8, <1>10 DEF Bound
  <2>2. Bind(inputs)[i] = [type |-> g[i].type, value |-> g[i].value]
    BY <1>3 DEF Arg
  <2> DEFINE k == start + i - 1
  <2> HIDE DEF k
  <2>3. k \in 1 .. Len(args) /\ args[k].type = g[i].type /\ args[k].value = g[i].value
    BY <2>1, <2>2 DEF k
  <2>4. Clause(inputs, start)[i] = Condition(g[i].op, g[i].type, k)
    BY <1>2 DEF k
  <2>5. Condition(g[i].op, g[i].type, k)[args] =
          {r \in Refs : Is(args, k, g[i].type) /\ Meets(g[i].op, r, args[k].value)}
    BY DEF Condition
  <2> QED BY <2>3, <2>4, <2>5 DEF Is
<1> QED BY <1>1, <1>8, <1>9, <1>10 DEF n, g

\* A filter that may be left out, from the second parameter on.
LEMMA CompileExact ==
    ASSUME NEW filter, filter = NotGiven \/ filter \in FilterOf[Levels]
    PROVE  IF filter = NotGiven \/ filter \in FilterOf[MaxDepth]
           THEN Compiled(Compile(filter, 2), 2,
                         IF filter = NotGiven THEN Refs ELSE Means[Levels][filter])
           ELSE Compile(filter, 2) = Refused
<1>1. CASE filter = NotGiven
  <2>1. Compile(filter, 2) = [sql |-> Joined("and", <<>>), params |-> <<>>]
    BY <1>1 DEF Compile, True
  <2>2. /\ Compile(filter, 2) # Refused /\ Compile(filter, 2).sql = Joined("and", <<>>)
        /\ Compile(filter, 2).params = <<>>
    BY <2>1, NotRefused
  <2>3. \A args \in Seq(Args) : Joined("and", <<>>)[args] = Refs
    BY DEF Joined
  <2>4. <<>> \in Seq(Params)
    OBVIOUS
  <2>5. Compiled(Compile(filter, 2), 2, Refs)
    BY <2>2, <2>3, <2>4, JoinedClause DEF Compiled, Says
  <2> QED BY <1>1, <2>5
<1>2. CASE filter # NotGiven
  <2>1. Compile(filter, 2) = CompileInner[Levels][<<filter, 2, 0>>]
    BY <1>2 DEF Compile
  <2>2. CompilesTo(Levels, 0)
    BY InnerCompiles, SearchAssumption
  <2>3. MaxDepth - 0 = MaxDepth /\ filter \in FilterOf[Levels] /\ 2 \in Nat
    BY <1>2, SearchAssumption
  <2>4. IF filter \in FilterOf[MaxDepth - 0]
        THEN Compiled(CompileInner[Levels][<<filter, 2, 0>>], 2, Means[Levels][filter])
        ELSE CompileInner[Levels][<<filter, 2, 0>>] = Refused
    BY <2>2, <2>3 DEF CompilesTo
  <2>5. CASE filter \in FilterOf[MaxDepth]
    BY <1>2, <2>1, <2>3, <2>4, <2>5
  <2>6. CASE ~(filter \in FilterOf[MaxDepth])
    BY <1>2, <2>1, <2>3, <2>4, <2>6
  <2> QED BY <2>5, <2>6
<1> QED BY <1>1, <1>2

\* The whole clause, with any arguments after its own (the limit and the offset),
\* matches the rows that the filter and the conditions describe.
LEMMA WhereExact ==
    ASSUME NEW filter, filter = NotGiven \/ filter \in FilterOf[Levels],
           NEW inputs \in Seq(Conditions), NEW rest \in Seq(Args)
    PROVE  IF filter = NotGiven \/ filter \in FilterOf[MaxDepth]
           THEN LET q == Where(filter, inputs) IN
                /\ q.args \in Seq(Args)
                /\ Len(q.args) = Len(Compile(filter, 2).params) + 1 + Len(Given(inputs))
                /\ Len(Compile(filter, 2).params) \in Nat
                /\ \A ref \in Refs : Matches(q.sql, q.args \o rest, ref)
                                       <=> Wanted(filter, ref) /\ AllMet(inputs, ref)
           ELSE Where(filter, inputs) = Refused
<1> DEFINE c == Compile(filter, 2)
<1>1. CASE ~(filter = NotGiven \/ filter \in FilterOf[MaxDepth])
  BY <1>1, CompileExact DEF Where
<1>2. CASE filter = NotGiven \/ filter \in FilterOf[MaxDepth]
  <2> DEFINE q == Where(filter, inputs)
             m == IF filter = NotGiven THEN Refs ELSE Means[Levels][filter]
             n == Len(c.params)
             one == <<Arg("project", Project)>>
             bind == Bind(inputs)
             args == one \o c.params \o bind
             all == args \o rest
             clause == Clause(inputs, n + 2)
  <2>1. /\ c # Refused /\ c.params \in Seq(Params) /\ c.sql \in Clauses
        /\ Says(c.sql, 2, c.params, m)
    BY <1>2, CompileExact DEF Compiled
  <2>2. q = [sql |-> Joined("and", <<c.sql>> \o clause), args |-> args]
    BY <2>1 DEF Where
  <2>3. q.sql = Joined("and", <<c.sql>> \o clause) /\ q.args = args
    BY <2>2
  <2>4. c.params \in Seq(Args) /\ n \in Nat
    BY <2>1 DEF Args
  <2>5. one \in Seq(Args) /\ Len(one) = 1 /\ one[1] = Arg("project", Project)
    <3>1. Arg("project", Project) \in Args
      BY DEF Arg, Args
    <3> QED BY <3>1
  <2> HIDE DEF c, q, one, bind, clause
  <2>6. n + 2 \in Nat
    BY <2>4
  <2> HIDE DEF n
  <2>7. /\ clause \in Seq(Clauses) /\ Len(clause) = Len(Given(inputs))
        /\ bind \in Seq(Args) /\ Len(bind) = Len(Given(inputs))
        /\ \A as \in Seq(Args), ref \in Refs : Bound(as, n + 2, bind) =>
              ((\A i \in 1 .. Len(Given(inputs)) : ref \in clause[i][as]) <=> AllMet(inputs, ref))
    BY <2>6, ClauseSays DEF clause, bind
  <2>8. /\ one \o c.params \in Seq(Args) /\ Len(one \o c.params) = n + 1
        /\ args \in Seq(Args) /\ Len(args) = n + 1 + Len(Given(inputs)) /\ all \in Seq(Args)
    <3>1. one \o c.params \in Seq(Args) /\ Len(one \o c.params) = Len(one) + Len(c.params)
      BY <2>4, <2>5, ConcatProperties
    <3>2. args \in Seq(Args) /\ Len(args) = Len(one \o c.params) + Len(bind)
      BY <3>1, <2>7, ConcatProperties
    <3>3. all \in Seq(Args)
      BY <3>2
    <3>4. Len(bind) \in Nat
      BY <2>7
    <3>5. Len(one \o c.params) = n + 1
      BY <3>1, <2>4, <2>5 DEF n
    <3> HIDE DEF args, all
    <3> QED BY <3>1, <3>2, <3>3, <3>4, <3>5, <2>7
  <2>9. all[1] = Arg("project", Project)
    <3>1. (one \o c.params)[1] = one[1]
      BY <2>4, <2>5, ConcatProperties
    <3>2. args[1] = (one \o c.params)[1]
      BY <2>4, <2>7, <2>8
    <3>3. 1 \in 1 .. Len(args)
      BY <2>4, <2>7, <2>8
    <3>4. all[1] = args[1]
      BY <2>8, <3>3
    <3> QED BY <3>1, <3>2, <3>4, <2>5
  <2>10. Bound(all, 2, c.params)
    <3>1. Bound(one \o c.params, 2, c.params)
      <4>1. Bound(one \o c.params, Len(one) + 1, c.params)
        BY <2>4, <2>5, BoundLast
      <4> QED BY <4>1, <2>5
    <3>2. Bound(args, 2, c.params)
      BY <2>7, <2>8, <3>1, BoundGrows
    <3> HIDE DEF args
    <3> QED BY <2>8, <3>2, BoundGrows
  <2>11. Bound(all, n + 2, bind)
    <3>1. Bound(args, Len(one \o c.params) + 1, bind)
      <4> DEFINE a == one \o c.params
      <4>1. a \in Seq(Args)
        BY <2>8
      <4> HIDE DEF a
      <4>2. Bound(a \o bind, Len(a) + 1, bind)
        BY <4>1, <2>7, BoundLast
      <4> QED BY <4>2 DEF a
    <3>2. Len(one \o c.params) + 1 = n + 2
      BY <2>4, <2>8
    <3> HIDE DEF args
    <3> QED BY <2>8, <3>1, <3>2, BoundGrows
  <2> HIDE DEF all, args
  <2>12. ASSUME NEW ref \in Refs
         PROVE  ref \in q.sql[all] <=> ref \in m /\ AllMet(inputs, ref)
    <3> DEFINE parts == <<c.sql>> \o clause
    <3>1. /\ DOMAIN parts = 1 .. Len(clause) + 1 /\ parts[1] = c.sql
          /\ \A i \in 1 .. Len(clause) : parts[i + 1] = clause[i]
      BY <2>1, <2>7
    <3>2. Len(clause) \in Nat
      BY <2>7
    <3> HIDE DEF parts
    <3>3. ref \in Joined("and", parts)[all] <=> \A i \in DOMAIN parts : ref \in parts[i][all]
      BY <2>8 DEF Joined
    <3>4. (\A i \in DOMAIN parts : ref \in parts[i][all])
             <=> /\ ref \in c.sql[all]
                 /\ \A i \in 1 .. Len(clause) : ref \in clause[i][all]
      <4>1. \A i \in 1 .. Len(clause) + 1 : i = 1 \/ (i - 1 \in 1 .. Len(clause) /\ i - 1 + 1 = i)
        BY <3>2
      <4>2. 1 \in DOMAIN parts /\ \A i \in 1 .. Len(clause) : i + 1 \in DOMAIN parts
        BY <3>1, <3>2
      <4>3. \A i \in DOMAIN parts : i = 1 \/ \E j \in 1 .. Len(clause) : i = j + 1
        BY <3>1, <4>1
      <4> QED BY <3>1, <4>2, <4>3
    <3>5. c.sql[all] = m
      BY <2>1, <2>8, <2>10 DEF Says
    <3>6. (\A i \in 1 .. Len(clause) : ref \in clause[i][all]) <=> AllMet(inputs, ref)
      BY <2>7, <2>8, <2>11
    <3> QED BY <2>3, <3>3, <3>4, <3>5, <3>6 DEF parts
  <2>13. ASSUME NEW ref \in Refs
         PROVE  Matches(q.sql, all, ref) <=> Wanted(filter, ref) /\ AllMet(inputs, ref)
    <3>1. all[1].value = Project
      BY <2>9 DEF Arg
    <3>2. ref \in m <=> filter = NotGiven \/ ref \in Means[Levels][filter]
      OBVIOUS
    <3> HIDE DEF m
    <3> QED BY <2>12, <3>1, <3>2 DEF Matches, Wanted
  <2> QED BY <1>2, <2>3, <2>4, <2>8, <2>13 DEF q, c, n, all
<1> QED BY <1>1, <1>2

\* An input, given or not, is a condition.
LEMMA InputCondition ==
    ASSUME NEW op \in Operators, NEW v
    PROVE  /\ v \in Opt(Names) => Input(op, "text", v) \in Conditions
           /\ v \in Opt(Times) => /\ Input(op, "time", v) \in Conditions
                                 /\ Input(op, "size", v) \in Conditions
<1>1. /\ v \in Opt(Names) /\ v # NotGiven => Arg("text", v) \in Args
      /\ v \in Opt(Times) /\ v # NotGiven => Arg("time", v) \in Args /\ Arg("size", v) \in Args
  BY DEF Arg, Args, Opt
<1>2. \A type : Input(op, type, v) = [op |-> op, type |-> type, value |-> v]
  BY DEF Input
<1>3. ASSUME NEW type \in {"text", "time", "size"}, v \in Opt(Names) \cup Opt(Times),
             v # NotGiven => Arg(type, v) \in Args
      PROVE  Input(op, type, v) \in Conditions
  BY <1>2, <1>3 DEF Conditions
<1>4. ASSUME v \in Opt(Names)
      PROVE  Input(op, "text", v) \in Conditions
  BY <1>1, <1>3, <1>4
<1>5. ASSUME v \in Opt(Times)
      PROVE  Input(op, "time", v) \in Conditions /\ Input(op, "size", v) \in Conditions
  BY <1>1, <1>3, <1>5
<1> QED BY <1>4, <1>5

\* A search, with the name read as a pattern.
LikeWith(filter, x, ref) ==
    /\ Wanted(filter, ref)
    /\ If(x.name, \E n \in LooksLike[x.name] : n \in ref.name)
    /\ If(x.after, x.after <= ref.created) /\ If(x.before, ref.created <= x.before)

LEMMA MomentsAreTimes == Opt(Moments) \subseteq Opt(Times)
  BY SearchAssumption DEF Opt

\* The conditions of a search, as its specification has them.
LEMMA ExtrasMet ==
    ASSUME NEW x \in Inputs
    PROVE  /\ Extras(x) \in Seq(Conditions)
           /\ \A filter, ref : Wanted(filter, ref) /\ AllMet(Extras(x), ref)
                                 <=> LikeWith(filter, x, ref)
<1> DEFINE a == Input("named", "text", x.name)
           b == Input("since", "time", x.after)
           c == Input("until", "time", x.before)
<1>1. x.name \in Opt(Names) /\ x.after \in Opt(Times) /\ x.before \in Opt(Times)
  BY MomentsAreTimes DEF Inputs
<1>2. a \in Conditions /\ b \in Conditions /\ c \in Conditions
  <2>1. "named" \in Operators /\ "since" \in Operators /\ "until" \in Operators
    BY DEF Operators
  <2> QED BY <1>1, <2>1, InputCondition
<1>3. /\ a.op = "named" /\ a.value = x.name /\ b.op = "since" /\ b.value = x.after
      /\ c.op = "until" /\ c.value = x.before
  BY DEF Input
<1>4. Extras(x) = <<a, b, c>>
  BY DEF Extras
<1> HIDE DEF a, b, c
<1>5. Extras(x) \in Seq(Conditions) /\ Len(Extras(x)) = 3
  BY <1>2, <1>4
<1>6. Extras(x)[1] = a /\ Extras(x)[2] = b /\ Extras(x)[3] = c
  BY <1>4
<1>7. ASSUME NEW ref
      PROVE  AllMet(Extras(x), ref) <=>
               /\ If(x.name, \E n \in LooksLike[x.name] : n \in ref.name)
               /\ If(x.after, x.after <= ref.created) /\ If(x.before, ref.created <= x.before)
  <2>1. AllMet(Extras(x), ref) <=>
          /\ a.value # NotGiven => Meets(a.op, ref, a.value)
          /\ b.value # NotGiven => Meets(b.op, ref, b.value)
          /\ c.value # NotGiven => Meets(c.op, ref, c.value)
    <3>1. 1 .. 3 = {1, 2, 3}
      OBVIOUS
    <3> QED BY <3>1, <1>5, <1>6 DEF AllMet
  <2>2. /\ Meets("named", ref, x.name) <=> \E n \in LooksLike[x.name] : n \in ref.name
        /\ Meets("since", ref, x.after) <=> x.after <= ref.created
        /\ Meets("until", ref, x.before) <=> ref.created <= x.before
    BY DEF Meets
  <2> QED BY <1>3, <2>1, <2>2 DEF If
<1> QED BY <1>5, <1>7 DEF LikeWith

\* A name without wildcards is the name; one that matches itself finds it.
LEMMA LiteralMet ==
    ASSUME NEW x \in Inputs
    PROVE  \A filter, ref :
             /\ Literal(x.name) => (Wanted(filter, ref) /\ AllMet(Extras(x), ref)
                                      <=> WantedWith(filter, x, ref))
             /\ If(x.name, x.name \in LooksLike[x.name]) /\ WantedWith(filter, x, ref)
                  => Wanted(filter, ref) /\ AllMet(Extras(x), ref)
<1>1. ASSUME NEW ref, Literal(x.name)
      PROVE  If(x.name, \E n \in LooksLike[x.name] : n \in ref.name)
                <=> If(x.name, x.name \in ref.name)
  BY <1>1 DEF Literal, If
<1>2. ASSUME NEW ref, If(x.name, x.name \in LooksLike[x.name]), If(x.name, x.name \in ref.name)
      PROVE  If(x.name, \E n \in LooksLike[x.name] : n \in ref.name)
  BY <1>2 DEF If
<1> SUFFICES ASSUME NEW filter, NEW ref
             PROVE  /\ Literal(x.name) => (LikeWith(filter, x, ref) <=> WantedWith(filter, x, ref))
                    /\ If(x.name, x.name \in LooksLike[x.name]) /\ WantedWith(filter, x, ref)
                         => LikeWith(filter, x, ref)
  BY ExtrasMet
<1> QED BY <1>1, <1>2 DEF LikeWith, WantedWith

\* The rows that a query with no more arguments matches.
LEMMA MatchingExact ==
    ASSUME NEW filter, filter = NotGiven \/ filter \in FilterOf[Levels],
           filter = NotGiven \/ filter \in FilterOf[MaxDepth],
           NEW inputs \in Seq(Conditions), NEW ref \in Refs
    PROVE  LET q == Where(filter, inputs) IN
           Matches(q.sql, q.args, ref) <=> Wanted(filter, ref) /\ AllMet(inputs, ref)
<1> DEFINE q == Where(filter, inputs)
<1>1. <<>> \in Seq(Args)
  OBVIOUS
<1>2. /\ q.args \in Seq(Args)
      /\ Matches(q.sql, q.args \o <<>>, ref) <=> Wanted(filter, ref) /\ AllMet(inputs, ref)
  BY <1>1, WhereExact
<1>3. q.args \o <<>> = q.args
  BY <1>2, ConcatEmptySeq
<1> QED BY <1>2, <1>3

\* The filters that are accepted are the ones that are not too deep.
LEMMA FilterAsked ==
    ASSUME NEW op \in {"search", "delete", "page", "summary"}, NEW filter \in Opt(Filters[op])
    PROVE  /\ filter = NotGiven \/ filter \in FilterOf[Levels]
           /\ filter \in Accepted(op) <=> filter = NotGiven \/ filter \in FilterOf[MaxDepth]
  BY SearchAssumption DEF Opt, Accepted

\* Searches find what they describe.
LEMMA SearchAnswer ==
    ASSUME asked \in Searches
    PROVE  SearchExact
<1>1. asked.op = "search" /\ asked.filter \in Opt(Filters["search"]) /\ asked.x \in Inputs
  BY DEF Searches
<1>2. PICK filter, x : filter = asked.filter /\ x = asked.x
  OBVIOUS
<1>3. /\ filter = NotGiven \/ filter \in FilterOf[Levels]
      /\ filter \in Accepted("search") <=> filter = NotGiven \/ filter \in FilterOf[MaxDepth]
  BY <1>1, <1>2, FilterAsked
<1>4. Extras(x) \in Seq(Conditions)
  BY <1>1, <1>2, ExtrasMet
<1>5. CASE filter \in Accepted("search")
  <2> DEFINE Met(ref) == Wanted(filter, ref) /\ AllMet(Extras(x), ref)
             wanted == {ref \in Table["search"] : WantedWith(filter, x, ref)}
             found == Found(filter, x, Table["search"])
  <2>1. ASSUME NEW ref \in Table["search"]
        PROVE  Matches(Where(filter, Extras(x)).sql, Where(filter, Extras(x)).args, ref) <=> Met(ref)
    <3>1. ref \in Refs
      BY SearchAssumption
    <3> QED BY <1>3, <1>4, <1>5, <3>1, MatchingExact
  <2>2. found = {ref \in Table["search"] : Met(ref)}
    <3> HIDE DEF Met
    <3> QED BY <2>1 DEF Found, Matching
  <2>3. \A ref : /\ Literal(x.name) => (Met(ref) <=> WantedWith(filter, x, ref))
                 /\ If(x.name, x.name \in LooksLike[x.name]) /\ WantedWith(filter, x, ref)
                      => Met(ref)
    BY <1>1, <1>2, LiteralMet
  <2> HIDE DEF Met, found
  <2>4. /\ Literal(x.name) => found = wanted
        /\ If(x.name, x.name \in LooksLike[x.name]) => wanted \subseteq found
    BY <2>2, <2>3
  <2> QED BY <1>2, <1>5, <2>4 DEF SearchExact, found
<1>6. CASE ~(filter \in Accepted("search"))
  <2>1. <<>> \in Seq(Args)
    OBVIOUS
  <2>2. Where(filter, Extras(x)) = Refused
    BY <1>3, <1>4, <1>6, <2>1, WhereExact
  <2> QED BY <1>2, <1>6, <2>2 DEF SearchExact
<1> QED BY <1>5, <1>6

\* The conditions of a bulk delete, as its specification has them.
LEMMA BulkMet ==
    ASSUME NEW x \in [before : Opt(Moments), after : Opt(Moments), min : Opt(Moments),
                      max : Opt(Moments), idle : Opt(Moments)]
    PROVE  /\ Bulk(x) \in Seq(Conditions)
           /\ Given(Bulk(x)) = <<>> <=> ~\E f \in DOMAIN x : x[f] # NotGiven
           /\ \A ref \in Refs : AllMet(Bulk(x), ref) <=>
                 /\ If(x.before, ref.created < x.before)
                 /\ If(x.after, x.after < ref.created)
                 /\ If(x.min, x.min <= ref.size) /\ If(x.max, ref.size <= x.max)
                 /\ If(x.idle, \A d \in ref.accessed : d \in Times /\ d < x.idle)
<1> DEFINE a == Input("earlier", "time", x.before)
           b == Input("later", "time", x.after)
           c == Input("atLeast", "size", x.min)
           d == Input("atMost", "size", x.max)
           e == Input("unused", "time", x.idle)
           s == Bulk(x)
<1>1. /\ x.before \in Opt(Times) /\ x.after \in Opt(Times) /\ x.min \in Opt(Times)
      /\ x.max \in Opt(Times) /\ x.idle \in Opt(Times)
  BY MomentsAreTimes
<1>2. a \in Conditions /\ b \in Conditions /\ c \in Conditions /\ d \in Conditions /\ e \in Conditions
  <2>1. /\ "earlier" \in Operators /\ "later" \in Operators /\ "atLeast" \in Operators
        /\ "atMost" \in Operators /\ "unused" \in Operators
    BY DEF Operators
  <2> QED BY <1>1, <2>1, InputCondition
<1>3. /\ a.op = "earlier" /\ a.value = x.before /\ b.op = "later" /\ b.value = x.after
      /\ c.op = "atLeast" /\ c.value = x.min /\ d.op = "atMost" /\ d.value = x.max
      /\ e.op = "unused" /\ e.value = x.idle
  BY DEF Input
<1>4. s = <<a, b, c, d, e>>
  BY DEF Bulk
<1> HIDE DEF a, b, c, d, e, s
<1>5. s \in Seq(Conditions) /\ Len(s) = 5
  BY <1>2, <1>4
<1>6. s[1] = a /\ s[2] = b /\ s[3] = c /\ s[4] = d /\ s[5] = e
  BY <1>4
<1>7. 1 .. 5 = {1, 2, 3, 4, 5}
  OBVIOUS
<1>8. Given(s) = <<>> <=> ~\E f \in DOMAIN x : x[f] # NotGiven
  <2> DEFINE at == {i \in DOMAIN s : s[i].value # NotGiven}
             g == SelectAt(s, at)
  <2>1. Given(s) = g
    BY DEF Given
  <2>2. /\ g \in Seq(Conditions)
        /\ \A j \in 1 .. Len(g) : \E i \in 1 .. Len(s) : i \in at /\ g[j] = s[i]
        /\ \A i \in 1 .. Len(s) : i \in at => \E j \in 1 .. Len(g) : g[j] = s[i]
    <3> HIDE DEF at
    <3>1. s \in Seq(Conditions)
      BY <1>5
    <3> QED BY <3>1, SelectKeeps
  <2>3. \A i \in 1 .. 5 : i \in at <=> s[i].value # NotGiven
    BY <1>5
  <2> HIDE DEF g, at
  <2>4. g = <<>> <=> Len(g) = 0
    BY <2>2
  <2>5. Len(g) = 0 <=> \A i \in 1 .. 5 : i \notin at
    <3>1. Len(g) = 0 \/ 1 \in 1 .. Len(g)
      BY <2>2
    <3>2. ASSUME Len(g) = 0
          PROVE  \A i \in 1 .. 5 : i \notin at
      BY <2>2, <1>5, <3>2
    <3>3. ASSUME \A i \in 1 .. 5 : i \notin at
          PROVE  Len(g) = 0
      BY <2>2, <1>5, <3>1, <3>3
    <3> QED BY <3>2, <3>3
  <2>6. (\A i \in 1 .. 5 : s[i].value = NotGiven) <=>
          /\ x.before = NotGiven /\ x.after = NotGiven /\ x.min = NotGiven
          /\ x.max = NotGiven /\ x.idle = NotGiven
    BY <1>3, <1>6, <1>7
  <2>7. (\E f \in DOMAIN x : x[f] # NotGiven) <=>
          \/ x.before # NotGiven \/ x.after # NotGiven \/ x.min # NotGiven
          \/ x.max # NotGiven \/ x.idle # NotGiven
    <3>1. DOMAIN x = {"before", "after", "min", "max", "idle"}
      OBVIOUS
    <3> QED BY <3>1
  <2> QED BY <2>1, <2>3, <2>4, <2>5, <2>6, <2>7
<1>9. ASSUME NEW ref \in Refs
      PROVE  AllMet(s, ref) <=>
                 /\ If(x.before, ref.created < x.before)
                 /\ If(x.after, x.after < ref.created)
                 /\ If(x.min, x.min <= ref.size) /\ If(x.max, ref.size <= x.max)
                 /\ If(x.idle, \A t \in ref.accessed : t \in Times /\ t < x.idle)
  <2>1. AllMet(s, ref) <=>
          /\ a.value # NotGiven => Meets(a.op, ref, a.value)
          /\ b.value # NotGiven => Meets(b.op, ref, b.value)
          /\ c.value # NotGiven => Meets(c.op, ref, c.value)
          /\ d.value # NotGiven => Meets(d.op, ref, d.value)
          /\ e.value # NotGiven => Meets(e.op, ref, e.value)
    BY <1>5, <1>6, <1>7 DEF AllMet
  <2>2. ref.created \in Nat /\ ref.size \in Nat /\ ref.accessed \subseteq Opt(Times)
    BY SearchAssumption DEF Refs
  <2>3. ASSUME x.before # NotGiven
        PROVE  Meets("earlier", ref, x.before) <=> ref.created < x.before
    BY DEF Meets
  <2>4. ASSUME x.after # NotGiven
        PROVE  Meets("later", ref, x.after) <=> x.after < ref.created
    BY DEF Meets
  <2>5. /\ Meets("atLeast", ref, x.min) <=> x.min <= ref.size
        /\ Meets("atMost", ref, x.max) <=> ref.size <= x.max
    BY DEF Meets
  <2>6. ASSUME x.idle # NotGiven
        PROVE  Meets("unused", ref, x.idle) <=> \A t \in ref.accessed : t \in Times /\ t < x.idle
    <3>1. Meets("unused", ref, x.idle) <=> ~\E t \in ref.accessed : t = NotGiven \/ t >= x.idle
      BY DEF Meets
    <3>2. x.idle \in Nat
      BY <1>1, <2>6, SearchAssumption DEF Opt
    <3>3. ASSUME NEW t \in ref.accessed
          PROVE  ~(t = NotGiven \/ t >= x.idle) <=> t \in Times /\ t < x.idle
      <4>1. t = NotGiven \/ t \in Times
        BY <2>2 DEF Opt
      <4>2. NotGiven \notin Times /\ (t \in Times => t \in Nat)
        BY SearchAssumption
      <4> QED BY <4>1, <4>2, <3>2
    <3> QED BY <3>1, <3>3
  <2> QED BY <1>3, <2>1, <2>3, <2>4, <2>5, <2>6 DEF If
<1> QED BY <1>5, <1>8, <1>9 DEF s

\* Bulk deletes take what they describe.
LEMMA BulkAnswer ==
    ASSUME asked \in BulkDeletes
    PROVE  BulkExact
<1>1. asked.op = "delete" /\ asked.filter \in Accepted("delete")
  BY DEF BulkDeletes
<1>2. asked.x \in [before : Opt(Moments), after : Opt(Moments), min : Opt(Moments),
                   max : Opt(Moments), idle : Opt(Moments)]
  BY DEF BulkDeletes
<1>3. PICK filter, x : filter = asked.filter /\ x = asked.x
  OBVIOUS
<1> DEFINE refs == Table["delete"]
           q == Where(filter, Bulk(x))
           Meant(ref) == /\ Wanted(filter, ref)
                         /\ If(x.before, ref.created < x.before)
                         /\ If(x.after, x.after < ref.created)
                         /\ If(x.min, x.min <= ref.size) /\ If(x.max, ref.size <= x.max)
                         /\ If(x.idle, \A a \in ref.accessed : a \in Times /\ a < x.idle)
           some == filter # NotGiven \/ \E f \in DOMAIN x : x[f] # NotGiven
<1>4. /\ filter = NotGiven \/ filter \in FilterOf[Levels]
      /\ filter = NotGiven \/ filter \in FilterOf[MaxDepth]
  <2>1. filter \in Opt(Filters["delete"])
    BY <1>1, <1>3 DEF Accepted, Opt
  <2> QED BY <1>1, <1>3, <2>1, FilterAsked
<1>5. Bulk(x) \in Seq(Conditions) /\ (Unfiltered(filter, x) <=> ~some)
  BY <1>2, <1>3, BulkMet DEF Unfiltered
<1>6. ASSUME NEW ref \in refs
      PROVE  Matches(q.sql, q.args, ref) <=> Meant(ref)
  <2>1. ref \in Refs
    BY SearchAssumption
  <2>2. Matches(q.sql, q.args, ref) <=> Wanted(filter, ref) /\ AllMet(Bulk(x), ref)
    BY <1>4, <1>5, <2>1, MatchingExact
  <2> QED BY <1>2, <1>3, <2>1, <2>2, BulkMet
<1>7. Deleted(filter, x, refs) = {ref \in refs : some /\ Meant(ref)}
  <2> HIDE DEF Meant, some, refs
  <2> QED BY <1>5, <1>6 DEF Deleted, Matching
<1>8. Previewed(filter, x, refs) = Cardinality(Deleted(filter, x, refs))
  <2>1. CASE some
    BY <1>5, <2>1 DEF Previewed, Deleted, Matching, Quantify
  <2>2. CASE ~some
    BY <1>5, <2>2, FS_EmptySet DEF Previewed, Deleted
  <2> QED BY <2>1, <2>2
<1> QED BY <1>3, <1>7, <1>8 DEF BulkExact

\* A later file of a name has a larger number.
LEMMA OccurrenceGrows ==
    ASSUME NEW names, NEW j \in Nat, NEW k \in Nat, 1 <= j, j < k, names[j] = names[k]
    PROVE  Occurrence(names, j) \in Nat /\ Occurrence(names, k) \in Nat
             /\ Occurrence(names, j) < Occurrence(names, k)
<1> DEFINE A == {m \in 1 .. j : names[m] = names[j]}
           B == {m \in 1 .. k : names[m] = names[k]}
<1>1. Occurrence(names, j) = Cardinality(A) /\ Occurrence(names, k) = Cardinality(B)
  BY DEF Occurrence, Quantify
<1>2. IsFiniteSet(1 .. j) /\ IsFiniteSet(1 .. k)
  BY FS_Interval
<1>3. IsFiniteSet(A) /\ IsFiniteSet(B)
  BY <1>2, FS_Subset
<1>4. A \in SUBSET B /\ k \in B /\ k \notin A
  OBVIOUS
<1> HIDE DEF A, B
<1>5. Cardinality(A) \in Nat /\ Cardinality(B) \in Nat
  BY <1>3, FS_CardinalityType
<1>6. Cardinality(A) <= Cardinality(B) /\ Cardinality(B) # Cardinality(A)
  BY <1>3, <1>4, FS_Subset
<1> QED BY <1>1, <1>5, <1>6

\* The number of a file is a number.
LEMMA OccurrenceNat ==
    ASSUME NEW names, NEW j \in Nat
    PROVE  Occurrence(names, j) \in Nat
<1>1. IsFiniteSet(1 .. j)
  BY FS_Interval
<1>2. IsFiniteSet({m \in 1 .. j : names[m] = names[j]})
  BY <1>1, FS_Subset
<1> QED BY <1>2, FS_CardinalityType DEF Occurrence, Quantify

\* The entries of an archive have names of their own.
LEMMA ArchiveAnswer ==
    ASSUME asked \in Archives
    PROVE  EntriesDistinct
<1>1. SUFFICES ASSUME ~\E i, j \in DOMAIN asked.names : asked.names[i] = Front(asked.names[j])
               PROVE  IsInjective(BulkDownload(asked.names, asked.bytes))
  BY DEF EntriesDistinct
<1>2. PICK names, bytes : names = asked.names /\ bytes = asked.bytes
  OBVIOUS
<1>3. names \in Seq(Seq(Nat))
  <2>1. names \in UNION {[1 .. m -> EntryNames] : m \in 0 .. MaxFiles + 1}
    BY <1>2 DEF Archives, BoundedSeq, SeqOf
  <2>2. PICK m \in 0 .. MaxFiles + 1 : names \in [1 .. m -> EntryNames]
    BY <2>1
  <2>3. m \in Nat /\ names \in [1 .. m -> Seq(Nat)]
    BY <2>2, SearchAssumption
  <2>4. names \in UNION {[1 .. n -> Seq(Nat)] : n \in Nat}
    BY <2>3
  <2> QED BY <2>4, SeqDef
<1>4. CASE Len(names) > MaxFiles \/ bytes > MaxBytes
  <2>1. BulkDownload(names, bytes) = <<>>
    BY <1>4 DEF BulkDownload
  <2>2. IsInjective(<<>>)
    BY DEF IsInjective
  <2> QED BY <1>2, <2>1, <2>2
<1>5. CASE ~(Len(names) > MaxFiles \/ bytes > MaxBytes)
  <2> DEFINE n == Len(names)
  <2>1. BulkDownload(names, bytes) = [i \in 1 .. n |-> EntryName(names, i)]
    BY <1>5 DEF BulkDownload
  <2>2. n \in Nat /\ \A i \in 1 .. n : names[i] \in Seq(Nat) /\ i \in Nat
    BY <1>3
  <2>3. ~\E i, j \in 1 .. n : names[i] = Front(names[j])
    BY <1>1, <1>2, <1>3
  <2> DEFINE Occ(i) == Occurrence(names, i)
  <2>4. \A i \in 1 .. n : Occ(i) \in Nat
    BY <2>2, OccurrenceNat
  <2>5. \A i, j \in 1 .. n : names[i] = names[j] /\ Occ(i) = Occ(j) => i = j
    <3> SUFFICES ASSUME NEW i \in 1 .. n, NEW j \in 1 .. n, names[i] = names[j], Occ(i) = Occ(j), i # j
                 PROVE  FALSE
      OBVIOUS
    <3>1. i \in Nat /\ j \in Nat /\ 1 <= i /\ 1 <= j /\ (i < j \/ j < i)
      BY <2>2
    <3> QED BY <3>1, OccurrenceGrows
  <2> HIDE DEF Occ
  <2>6. \A s \in Seq(Nat), e \in Nat : Front(Append(s, e)) = s
    <3> SUFFICES ASSUME NEW s \in Seq(Nat), NEW e \in Nat
                 PROVE  SubSeq(Append(s, e), 1, Len(Append(s, e)) - 1) = s
      BY DEF Front
    <3>1. Len(Append(s, e)) - 1 = Len(s) /\ \A i \in 1 .. Len(s) : Append(s, e)[i] = s[i]
      OBVIOUS
    <3> QED BY <3>1
  <2>7. ASSUME NEW i \in 1 .. n, NEW j \in 1 .. n, EntryName(names, i) = EntryName(names, j)
        PROVE  i = j
    <3>1. /\ EntryName(names, i) = IF Occ(i) = 1 THEN names[i] ELSE Append(names[i], Occ(i) - 1)
          /\ EntryName(names, j) = IF Occ(j) = 1 THEN names[j] ELSE Append(names[j], Occ(j) - 1)
      BY DEF EntryName, Occ
    <3>2. Occ(i) \in Nat /\ Occ(j) \in Nat
      BY <2>4
    <3>3. ASSUME NEW m \in 1 .. n
          PROVE  Occ(m) # 0
      <4> DEFINE A == {l \in 1 .. m : names[l] = names[m]}
      <4>1. m \in A /\ IsFiniteSet(1 .. m)
        BY <2>2, FS_Interval
      <4>2. IsFiniteSet(A)
        BY <4>1, FS_Subset
      <4>3. Occ(m) = Cardinality(A)
        BY DEF Occ, Occurrence, Quantify
      <4> HIDE DEF A
      <4> QED BY <4>1, <4>2, <4>3, FS_EmptySet
    <3>4. CASE Occ(i) = 1 /\ Occ(j) = 1
      BY <3>1, <3>4, <2>5, <2>7
    <3>5. CASE Occ(i) = 1 /\ Occ(j) # 1
      <4>1. names[i] = Append(names[j], Occ(j) - 1) /\ Occ(j) - 1 \in Nat /\ names[j] \in Seq(Nat)
        <5>1. Occ(j) - 1 \in Nat
          BY <3>2, <3>3
        <5> QED BY <3>1, <3>5, <2>2, <2>7, <5>1
      <4>2. Front(names[i]) = names[j]
        BY <4>1, <2>6
      <4> QED BY <4>2, <2>3
    <3>6. CASE Occ(i) # 1 /\ Occ(j) = 1
      <4>1. names[j] = Append(names[i], Occ(i) - 1) /\ Occ(i) - 1 \in Nat /\ names[i] \in Seq(Nat)
        <5>1. Occ(i) - 1 \in Nat
          BY <3>2, <3>3
        <5> QED BY <3>1, <3>6, <2>2, <2>7, <5>1
      <4>2. Front(names[j]) = names[i]
        BY <4>1, <2>6
      <4> QED BY <4>2, <2>3
    <3>7. CASE Occ(i) # 1 /\ Occ(j) # 1
      <4>1. /\ Append(names[i], Occ(i) - 1) = Append(names[j], Occ(j) - 1)
            /\ Occ(i) - 1 \in Nat /\ Occ(j) - 1 \in Nat
        BY <3>1, <3>2, <3>3, <3>7, <2>7
      <4>2. names[i] = names[j] /\ Occ(i) - 1 = Occ(j) - 1
        <5>1. PICK s \in Seq(Nat), t \in Seq(Nat), e \in Nat, f \in Nat :
                 s = names[i] /\ t = names[j] /\ e = Occ(i) - 1 /\ f = Occ(j) - 1
          BY <2>2, <4>1
        <5>2. Append(s, e) = Append(t, f)
          BY <4>1, <5>1
        <5>3. s = t /\ e = f
          BY <5>2, AppendInjective
        <5> QED BY <5>1, <5>3
      <4> QED BY <4>2, <3>2, <2>5
    <3> QED BY <3>4, <3>5, <3>6, <3>7
  <2> QED BY <1>2, <2>1, <2>7 DEF IsInjective
<1> QED BY <1>4, <1>5

-----------------------------------------------------------------------------
(* Answers: totals                                                         *)

\* The element that a total takes first.
AnyOf(s) == CHOOSE x \in s : TRUE

\* h adds up v over the subsets of A.
AddsUp(h, v, A) ==
    \A s \in SUBSET A : h[s] = IF s = {} THEN 0 ELSE v[AnyOf(s)] + h[s \ {AnyOf(s)}]

\* A total over a finite set, by induction on the number of its elements.
LEMMA TotalDef ==
    ASSUME NEW v, NEW A, IsFiniteSet(A)
    PROVE  \E h : AddsUp(h, v, A) /\ Total(v, A) = h[A]
<1> DEFINE any(s) == CHOOSE x \in s : TRUE
           Def(h, s) == IF s = {} THEN 0 ELSE v[any(s)] + h[s \ {any(s)}]
           Upto(k) == {s \in SUBSET A : Cardinality(s) <= k}
           S == {k \in Nat : \E h : h = [s \in Upto(k) |-> Def(h, s)]}
<1>1. \A s \in SUBSET A : IsFiniteSet(s) /\ Cardinality(s) \in Nat
  BY FS_Subset, FS_CardinalityType
<1>2. ASSUME NEW k \in Nat, NEW s \in Upto(k + 1), s # {}
      PROVE  s \ {any(s)} \in Upto(k)
  <2>1. any(s) \in s
    BY <1>2
  <2> DEFINE x == any(s)
  <2> HIDE DEF x
  <2>2. x \in s /\ s \in SUBSET A /\ Cardinality(s) <= k + 1
    BY <2>1, <1>2 DEF x
  <2>3. Cardinality(s \ {x}) = Cardinality(s) - 1
    BY <2>2, <1>1, FS_RemoveElement
  <2>4. Cardinality(s) \in Nat
    BY <2>2, <1>1
  <2>5. s \ {x} \in SUBSET A /\ Cardinality(s \ {x}) <= k
    BY <2>2, <2>3, <2>4
  <2> QED BY <2>5 DEF x
<1>3. 0 \in S
  <2> DEFINE h == [s \in Upto(0) |-> 0]
  <2>1. \A s \in Upto(0) : s = {}
    BY <1>1, FS_EmptySet
  <2>2. h = [s \in Upto(0) |-> Def(h, s)]
    <3> HIDE DEF Upto, any
    <3> QED BY <2>1
  <2> HIDE DEF Def, Upto, h
  <2> QED BY <2>2
<1>4. ASSUME NEW k \in Nat, k \in S
      PROVE  k + 1 \in S
  <2>1. PICK h : h = [s \in Upto(k) |-> Def(h, s)]
    <3> HIDE DEF Upto, Def
    <3> QED BY <1>4
  <2> DEFINE g == [s \in Upto(k + 1) |-> Def(h, s)]
  <2>2. \A s \in Upto(k) : s \in Upto(k + 1)
    BY <1>1
  <2>3. \A s \in Upto(k) : g[s] = h[s]
    <3> HIDE DEF Upto, Def
    <3>1. \A s \in Upto(k) : h[s] = Def(h, s)
      BY <2>1
    <3> QED BY <3>1, <2>2
  <2>4. \A s \in Upto(k + 1) : Def(g, s) = Def(h, s)
    <3> HIDE DEF g, Upto, any
    <3> QED BY <2>3, <1>2
  <2>5. g = [s \in Upto(k + 1) |-> Def(g, s)]
    <3> HIDE DEF Upto, Def
    <3> QED BY <2>4
  <2>6. k + 1 \in Nat
    OBVIOUS
  <2> HIDE DEF Upto, Def, g
  <2> QED BY <2>5, <2>6
<1>5. Cardinality(A) \in S
  <2>1. Cardinality(A) \in Nat
    BY FS_CardinalityType
  <2> HIDE DEF S
  <2> QED BY <1>3, <1>4, <2>1, NatSetInduction
<1>6. Upto(Cardinality(A)) = SUBSET A
  BY FS_Subset
<1>7. PICK f : f = [s \in SUBSET A |-> Def(f, s)]
  <2> HIDE DEF Upto, Def
  <2> QED BY <1>5, <1>6
<1> DEFINE c == CHOOSE h : h = [s \in SUBSET A |-> Def(h, s)]
<1>8. c = [s \in SUBSET A |-> Def(c, s)]
  <2> HIDE DEF Def
  <2> QED BY <1>7
<1>9. Total(v, A) = c[A]
  BY DEF Total, MapThenSumSet, MapThenFoldSet
<1>10. \A s \in SUBSET A : c[s] = Def(c, s)
  <2> HIDE DEF Def, c
  <2> QED BY <1>8
<1> HIDE DEF c
<1>11. AddsUp(c, v, A)
  BY <1>10 DEF AddsUp, AnyOf
<1> QED BY <1>9, <1>11

\* Two functions that add up agree where both are defined.
LEMMA SameSums ==
    ASSUME NEW v, NEW A, IsFiniteSet(A), NEW B \in SUBSET A, NEW g, NEW h,
           AddsUp(g, v, B), AddsUp(h, v, A)
    PROVE  \A s \in SUBSET B : g[s] = h[s]
<1> DEFINE S == {k \in Nat : \A s \in SUBSET B : Cardinality(s) <= k => g[s] = h[s]}
<1>1. \A s \in SUBSET B : s \in SUBSET A /\ IsFiniteSet(s) /\ Cardinality(s) \in Nat
  BY FS_Subset, FS_CardinalityType
<1>2. 0 \in S
  <2> SUFFICES ASSUME NEW s \in SUBSET B, Cardinality(s) <= 0
               PROVE  g[s] = h[s]
    OBVIOUS
  <2>1. s = {}
    BY <1>1, FS_EmptySet
  <2> QED BY <1>1, <2>1 DEF AddsUp
<1>3. ASSUME NEW k \in Nat, k \in S
      PROVE  k + 1 \in S
  <2> SUFFICES ASSUME NEW s \in SUBSET B, Cardinality(s) <= k + 1
               PROVE  g[s] = h[s]
    OBVIOUS
  <2>1. CASE s = {}
    BY <1>1, <2>1 DEF AddsUp
  <2>2. CASE s # {}
    <3>1. AnyOf(s) \in s
      BY <2>2 DEF AnyOf
    <3>2. Cardinality(s \ {AnyOf(s)}) = Cardinality(s) - 1
      BY <1>1, <3>1, FS_RemoveElement
    <3>3. s \ {AnyOf(s)} \in SUBSET B /\ Cardinality(s \ {AnyOf(s)}) <= k
      BY <1>1, <3>2
    <3>4. g[s \ {AnyOf(s)}] = h[s \ {AnyOf(s)}]
      BY <1>3, <3>3
    <3> QED BY <1>1, <2>2, <3>4 DEF AddsUp
  <2> QED BY <2>1, <2>2
<1>4. \A k \in Nat : k \in S
  <2> HIDE DEF S
  <2> QED BY <1>2, <1>3, NatSetInduction
<1>5. ASSUME NEW s \in SUBSET B
      PROVE  g[s] = h[s]
  <2>1. Cardinality(s) \in Nat /\ Cardinality(s) <= Cardinality(s)
    BY <1>1
  <2> QED BY <1>4, <2>1
<1> QED BY <1>5

\* The total of nothing.
LEMMA TotalEmpty ==
    ASSUME NEW v
    PROVE  Total(v, {}) = 0
<1>1. IsFiniteSet({})
  BY FS_EmptySet
<1>2. PICK h : AddsUp(h, v, {}) /\ Total(v, {}) = h[{}]
  BY <1>1, TotalDef
<1> QED BY <1>2 DEF AddsUp

\* The total without the element that is taken first.
LEMMA TotalAny ==
    ASSUME NEW v, NEW A, IsFiniteSet(A), A # {}
    PROVE  AnyOf(A) \in A /\ Total(v, A) = v[AnyOf(A)] + Total(v, A \ {AnyOf(A)})
<1> DEFINE B == A \ {AnyOf(A)}
<1>1. AnyOf(A) \in A
  BY DEF AnyOf
<1>2. B \in SUBSET A /\ IsFiniteSet(B)
  BY FS_Subset
<1>3. PICK h : AddsUp(h, v, A) /\ Total(v, A) = h[A]
  BY TotalDef
<1> HIDE DEF B
<1>4. PICK g : AddsUp(g, v, B) /\ Total(v, B) = g[B]
  BY <1>2, TotalDef
<1>5. g[B] = h[B]
  BY <1>2, <1>3, <1>4, SameSums
<1>6. h[A] = v[AnyOf(A)] + h[A \ {AnyOf(A)}]
  BY <1>3 DEF AddsUp
<1> QED BY <1>1, <1>3, <1>4, <1>5, <1>6 DEF B

\* A total of numbers is a number.
LEMMA TotalNat ==
    ASSUME NEW v, NEW A, IsFiniteSet(A), \A x \in A : v[x] \in Nat
    PROVE  Total(v, A) \in Nat
<1> DEFINE S == {k \in Nat : \A B \in SUBSET A : Cardinality(B) = k => Total(v, B) \in Nat}
<1>1. \A B \in SUBSET A : IsFiniteSet(B) /\ Cardinality(B) \in Nat
  BY FS_Subset, FS_CardinalityType
<1>2. 0 \in S
  BY <1>1, FS_EmptySet, TotalEmpty
<1>3. ASSUME NEW k \in Nat, k \in S
      PROVE  k + 1 \in S
  <2> SUFFICES ASSUME NEW B \in SUBSET A, Cardinality(B) = k + 1
               PROVE  Total(v, B) \in Nat
    OBVIOUS
  <2>1. B # {}
    BY FS_EmptySet
  <2>2. AnyOf(B) \in B /\ Total(v, B) = v[AnyOf(B)] + Total(v, B \ {AnyOf(B)})
    BY <1>1, <2>1, TotalAny
  <2>3. B \ {AnyOf(B)} \in SUBSET A /\ Cardinality(B \ {AnyOf(B)}) = k
    <3>1. Cardinality(B \ {AnyOf(B)}) = Cardinality(B) - 1
      BY <1>1, <2>2, FS_RemoveElement
    <3> QED BY <3>1
  <2>4. Total(v, B \ {AnyOf(B)}) \in Nat
    BY <1>3, <2>3
  <2>5. v[AnyOf(B)] \in Nat
    BY <2>2
  <2> QED BY <2>2, <2>4, <2>5
<1>4. \A k \in Nat : k \in S
  <2> HIDE DEF S
  <2> QED BY <1>2, <1>3, NatSetInduction
<1> QED BY <1>1, <1>4

\* Any element may be taken out.
LEMMA TotalWithout ==
    ASSUME NEW v, NEW A, IsFiniteSet(A), \A x \in A : v[x] \in Nat, NEW a \in A
    PROVE  Total(v, A) = v[a] + Total(v, A \ {a})
<1> DEFINE S == {k \in Nat : \A B \in SUBSET A : Cardinality(B) = k =>
                                \A x \in B : Total(v, B) = v[x] + Total(v, B \ {x})}
<1>1. \A B \in SUBSET A : IsFiniteSet(B) /\ Cardinality(B) \in Nat /\ Total(v, B) \in Nat
  BY FS_Subset, FS_CardinalityType, TotalNat
<1>2. 0 \in S
  BY <1>1, FS_EmptySet
<1>3. ASSUME NEW k \in Nat, k \in S
      PROVE  k + 1 \in S
  <2> SUFFICES ASSUME NEW B \in SUBSET A, Cardinality(B) = k + 1, NEW x \in B
               PROVE  Total(v, B) = v[x] + Total(v, B \ {x})
    OBVIOUS
  <2>1. PICK c : c = AnyOf(B)
    OBVIOUS
  <2>2. c \in B /\ Total(v, B) = v[c] + Total(v, B \ {c})
    BY <1>1, <2>1, TotalAny
  <2>3. CASE x = c
    BY <2>2, <2>3
  <2>4. CASE x # c
    <3>1. /\ B \ {c} \in SUBSET A /\ Cardinality(B \ {c}) = k /\ x \in B \ {c}
          /\ B \ {x} \in SUBSET A /\ Cardinality(B \ {x}) = k /\ c \in B \ {x}
      <4>1. Cardinality(B \ {c}) = Cardinality(B) - 1 /\ Cardinality(B \ {x}) = Cardinality(B) - 1
        BY <1>1, <2>2, FS_RemoveElement
      <4> QED BY <4>1, <2>2, <2>4
    <3>2. Total(v, B \ {c}) = v[x] + Total(v, (B \ {c}) \ {x})
      BY <1>3, <3>1
    <3>3. Total(v, B \ {x}) = v[c] + Total(v, (B \ {x}) \ {c})
      BY <1>3, <3>1
    <3>4. (B \ {c}) \ {x} = (B \ {x}) \ {c} /\ (B \ {c}) \ {x} \in SUBSET A
      OBVIOUS
    <3>5. PICK t : t = Total(v, (B \ {c}) \ {x})
      OBVIOUS
    <3>6. v[x] \in Nat /\ v[c] \in Nat /\ t \in Nat
      BY <1>1, <2>2, <3>4, <3>5
    <3>7. Total(v, B \ {x}) = v[c] + t
      BY <3>3, <3>4, <3>5
    <3>8. Total(v, B) = v[c] + (v[x] + t)
      BY <2>2, <3>2, <3>5
    <3> QED BY <3>6, <3>7, <3>8
  <2> QED BY <2>3, <2>4
<1>4. Cardinality(A) \in S
  <2>1. Cardinality(A) \in Nat
    BY FS_CardinalityType
  <2> HIDE DEF S
  <2> QED BY <1>2, <1>3, <2>1, NatSetInduction
<1> QED BY <1>4

\* Larger numbers have a larger total.
LEMMA TotalMost ==
    ASSUME NEW v, NEW w, NEW A, IsFiniteSet(A),
           \A x \in A : v[x] \in Nat /\ w[x] \in Nat /\ v[x] <= w[x]
    PROVE  Total(v, A) <= Total(w, A)
<1> DEFINE S == {k \in Nat : \A B \in SUBSET A : Cardinality(B) = k => Total(v, B) <= Total(w, B)}
<1>1. \A B \in SUBSET A : /\ IsFiniteSet(B) /\ Cardinality(B) \in Nat
                          /\ Total(v, B) \in Nat /\ Total(w, B) \in Nat
  BY FS_Subset, FS_CardinalityType, TotalNat
<1>2. 0 \in S
  BY <1>1, FS_EmptySet, TotalEmpty
<1>3. ASSUME NEW k \in Nat, k \in S
      PROVE  k + 1 \in S
  <2> SUFFICES ASSUME NEW B \in SUBSET A, Cardinality(B) = k + 1
               PROVE  Total(v, B) <= Total(w, B)
    OBVIOUS
  <2>1. PICK b : b \in B
    BY FS_EmptySet
  <2>2. Total(v, B) = v[b] + Total(v, B \ {b}) /\ Total(w, B) = w[b] + Total(w, B \ {b})
    BY <1>1, <2>1, TotalWithout
  <2>3. Cardinality(B \ {b}) = Cardinality(B) - 1
    BY <1>1, <2>1, FS_RemoveElement
  <2>4. B \ {b} \in SUBSET A /\ Cardinality(B \ {b}) = k
    BY <2>3
  <2>5. Total(v, B \ {b}) <= Total(w, B \ {b})
    BY <1>3, <2>4
  <2>6. v[b] \in Nat /\ w[b] \in Nat /\ v[b] <= w[b]
    BY <2>1
  <2> QED BY <1>1, <2>2, <2>4, <2>5, <2>6
<1>4. Cardinality(A) \in S
  <2>1. Cardinality(A) \in Nat
    BY FS_CardinalityType
  <2> HIDE DEF S
  <2> QED BY <1>2, <1>3, <2>1, NatSetInduction
<1> QED BY <1>4

\* The same numbers have the same total.
LEMMA TotalSame ==
    ASSUME NEW v, NEW w, NEW A, IsFiniteSet(A), \A x \in A : v[x] \in Nat /\ v[x] = w[x]
    PROVE  Total(v, A) = Total(w, A)
<1>1. \A x \in A : v[x] \in Nat /\ w[x] \in Nat /\ v[x] <= w[x] /\ w[x] <= v[x]
  OBVIOUS
<1>2. Total(v, A) <= Total(w, A) /\ Total(w, A) <= Total(v, A)
  BY <1>1, TotalMost
<1>3. Total(v, A) \in Nat /\ Total(w, A) \in Nat
  BY <1>1, TotalNat
<1> QED BY <1>2, <1>3

\* A total of ones is a count.
LEMMA TotalOfEqual ==
    ASSUME NEW v, NEW A, IsFiniteSet(A), NEW u \in {0, 1}, \A x \in A : v[x] = u
    PROVE  Total(v, A) = IF u = 0 THEN 0 ELSE Cardinality(A)
<1> DEFINE S == {k \in Nat : \A B \in SUBSET A : Cardinality(B) = k =>
                                Total(v, B) = IF u = 0 THEN 0 ELSE k}
<1>1. \A B \in SUBSET A : IsFiniteSet(B) /\ Cardinality(B) \in Nat
  BY FS_Subset, FS_CardinalityType
<1>2. 0 \in S
  BY <1>1, FS_EmptySet, TotalEmpty
<1>3. ASSUME NEW k \in Nat, k \in S
      PROVE  k + 1 \in S
  <2> SUFFICES ASSUME NEW B \in SUBSET A, Cardinality(B) = k + 1
               PROVE  Total(v, B) = IF u = 0 THEN 0 ELSE k + 1
    OBVIOUS
  <2>1. PICK b : b \in B
    BY FS_EmptySet
  <2>2. \A x \in B : v[x] \in Nat
    OBVIOUS
  <2>3. Total(v, B) = v[b] + Total(v, B \ {b})
    BY <1>1, <2>1, <2>2, TotalWithout
  <2>4. Cardinality(B \ {b}) = Cardinality(B) - 1
    BY <1>1, <2>1, FS_RemoveElement
  <2>5. B \ {b} \in SUBSET A /\ Cardinality(B \ {b}) = k
    BY <2>4
  <2>6. Total(v, B \ {b}) = IF u = 0 THEN 0 ELSE k
    BY <1>3, <2>5
  <2>7. v[b] = u
    BY <2>1
  <2> QED BY <2>3, <2>6, <2>7
<1>4. Cardinality(A) \in S
  <2>1. Cardinality(A) \in Nat
    BY FS_CardinalityType
  <2> HIDE DEF S
  <2> QED BY <1>2, <1>3, <2>1, NatSetInduction
<1> QED BY <1>4

\* A total is the total of the parts with the same key.
LEMMA TotalParts ==
    ASSUME NEW v, NEW A, IsFiniteSet(A), \A x \in A : v[x] \in Nat,
           NEW D, IsFiniteSet(D), NEW key, \A x \in A : key[x] \in D
    PROVE  Total(v, A) = Total([d \in D |-> Total(v, {x \in A : key[x] = d})], D)
<1> DEFINE Part(B, d) == {x \in B : key[x] = d}
           W(B) == [d \in D |-> Total(v, Part(B, d))]
           S == {k \in Nat : \A B \in SUBSET A : Cardinality(B) = k => Total(v, B) = Total(W(B), D)}
<1>1. \A B \in SUBSET A : IsFiniteSet(B) /\ Cardinality(B) \in Nat /\ Total(v, B) \in Nat
  BY FS_Subset, FS_CardinalityType, TotalNat
<1>2. \A B \in SUBSET A, d \in D : W(B)[d] = Total(v, Part(B, d)) /\ Part(B, d) \in SUBSET A
  OBVIOUS
<1>3. \A B \in SUBSET A, d \in D : W(B)[d] \in Nat
  BY <1>1, <1>2
<1>4. \A B \in SUBSET A, E \in SUBSET D : Total(W(B), E) \in Nat
  <2> SUFFICES ASSUME NEW B \in SUBSET A, NEW E \in SUBSET D
               PROVE  Total(W(B), E) \in Nat
    OBVIOUS
  <2>1. IsFiniteSet(E) /\ \A d \in E : W(B)[d] \in Nat
    BY <1>3, FS_Subset
  <2> HIDE DEF W
  <2> QED BY <2>1, TotalNat
<1>5. 0 \in S
  <2> SUFFICES ASSUME NEW B \in SUBSET A, Cardinality(B) = 0
               PROVE  Total(v, B) = Total(W(B), D)
    OBVIOUS
  <2>1. B = {}
    BY <1>1, FS_EmptySet
  <2>2. \A d \in D : W(B)[d] = 0
    <3>1. \A d \in D : Part(B, d) = {}
      BY <2>1
    <3> HIDE DEF Part
    <3> QED BY <3>1, TotalEmpty
  <2> HIDE DEF W
  <2>3. Total(W(B), D) = 0
    BY <2>2, TotalOfEqual
  <2> QED BY <2>1, <2>3, TotalEmpty
<1>6. ASSUME NEW k \in Nat, k \in S
      PROVE  k + 1 \in S
  <2> SUFFICES ASSUME NEW B \in SUBSET A, Cardinality(B) = k + 1
               PROVE  Total(v, B) = Total(W(B), D)
    OBVIOUS
  <2>1. PICK b : b \in B
    BY FS_EmptySet
  <2> DEFINE C == B \ {b}
             e == key[b]
  <2>2. Cardinality(C) = Cardinality(B) - 1
    BY <1>1, <2>1, FS_RemoveElement
  <2>3. C \in SUBSET A /\ Cardinality(C) = k /\ e \in D
    BY <2>1, <2>2
  <2>4. Total(v, C) = Total(W(C), D)
    BY <1>6, <2>3
  <2>5. Total(v, B) = v[b] + Total(v, C)
    BY <1>1, <2>1, TotalWithout
  <2>6. W(B)[e] = v[b] + W(C)[e]
    <3>1. b \in Part(B, e) /\ Part(B, e) \ {b} = Part(C, e) /\ Part(B, e) \in SUBSET A
      BY <2>1
    <3>2. IsFiniteSet(Part(B, e)) /\ \A x \in Part(B, e) : v[x] \in Nat
      BY <1>1, <3>1
    <3> HIDE DEF Part
    <3>3. Total(v, Part(B, e)) = v[b] + Total(v, Part(C, e))
      <4>1. Total(v, Part(B, e)) = v[b] + Total(v, Part(B, e) \ {b})
        BY <3>1, <3>2, TotalWithout
      <4> QED BY <3>1, <4>1
    <3> QED BY <3>3, <2>3
  <2>7. \A d \in D \ {e} : W(B)[d] = W(C)[d]
    <3>1. \A d \in D \ {e} : Part(B, d) = Part(C, d)
      BY <2>1
    <3> HIDE DEF Part
    <3> QED BY <3>1
  <2> HIDE DEF W, C, e
  <2>8. IsFiniteSet(D \ {e})
    BY FS_Subset
  <2>9. Total(W(B), D \ {e}) = Total(W(C), D \ {e})
    BY <1>3, <2>7, <2>8, TotalSame
  <2>10. /\ Total(W(B), D) = W(B)[e] + Total(W(B), D \ {e})
         /\ Total(W(C), D) = W(C)[e] + Total(W(C), D \ {e})
    BY <1>3, <2>3, TotalWithout
  <2>11. W(C)[e] \in Nat /\ v[b] \in Nat /\ Total(W(C), D \ {e}) \in Nat
    BY <1>3, <1>4, <2>1, <2>3
  <2> QED BY <2>4, <2>5, <2>6, <2>9, <2>10, <2>11
<1>7. Cardinality(A) \in S
  <2>1. Cardinality(A) \in Nat
    BY FS_CardinalityType
  <2> HIDE DEF S
  <2> QED BY <1>5, <1>6, <2>1, NatSetInduction
<1>8. Total(v, A) = Total(W(A), D)
  <2> HIDE DEF W
  <2> QED BY <1>7
<1> QED BY <1>8

\* A set has as many elements as its parts of one key each together.
LEMMA CountParts ==
    ASSUME NEW A, IsFiniteSet(A), NEW D, IsFiniteSet(D), NEW key, \A x \in A : key[x] \in D,
           NEW part, \A d \in D : \A x : x \in part[d] <=> x \in A /\ key[x] = d,
           NEW w, \A d \in D : w[d] = Cardinality(part[d])
    PROVE  Total(w, D) = Cardinality(A)
<1> DEFINE one == [x \in A |-> 1]
           Part(d) == {x \in A : key[x] = d}
           each == [d \in D |-> Total(one, Part(d))]
<1>1. \A x \in A : one[x] = 1 /\ one[x] \in Nat
  OBVIOUS
<1>2. \A d \in D : IsFiniteSet(Part(d)) /\ Part(d) \in SUBSET A
  BY FS_Subset
<1>3. \A d \in D : each[d] = Cardinality(Part(d))
  <2> SUFFICES ASSUME NEW d \in D
               PROVE  Total(one, Part(d)) = Cardinality(Part(d))
    OBVIOUS
  <2>1. IsFiniteSet(Part(d)) /\ \A x \in Part(d) : one[x] = 1
    BY <1>1, <1>2
  <2> HIDE DEF one, Part
  <2> QED BY <2>1, TotalOfEqual
<1>4. \A d \in D : Cardinality(Part(d)) \in Nat
  <2> HIDE DEF Part
  <2> QED BY <1>2, FS_CardinalityType
<1>5. Total(one, A) = Cardinality(A)
  <2> HIDE DEF one
  <2> QED BY <1>1, TotalOfEqual
<1>6. Total(one, A) = Total(each, D)
  <2> HIDE DEF one
  <2> QED BY <1>1, TotalParts
<1>7. \A d \in D : each[d] \in Nat /\ each[d] = w[d]
  <2>1. \A d \in D : part[d] = Part(d)
    OBVIOUS
  <2> HIDE DEF Part, each
  <2> QED BY <1>3, <1>4, <2>1
<1> HIDE DEF each
<1>8. Total(each, D) = Total(w, D)
  BY <1>7, TotalSame
<1> QED BY <1>5, <1>6, <1>8

\* search_all_for_filter finds the rows that are wanted.
LEMMA FoundExact ==
    ASSUME NEW filter, filter = NotGiven \/ filter \in FilterOf[Levels],
           filter = NotGiven \/ filter \in FilterOf[MaxDepth],
           NEW x \in Inputs, Literal(x.name), NEW refs \in SUBSET Refs
    PROVE  Found(filter, x, refs) = {ref \in refs : WantedWith(filter, x, ref)}
<1> DEFINE q == Where(filter, Extras(x))
<1>1. Extras(x) \in Seq(Conditions)
  BY ExtrasMet
<1>2. ASSUME NEW ref \in refs
      PROVE  Matches(q.sql, q.args, ref) <=> WantedWith(filter, x, ref)
  <2>1. Matches(q.sql, q.args, ref) <=> Wanted(filter, ref) /\ AllMet(Extras(x), ref)
    BY <1>1, MatchingExact
  <2> QED BY <2>1, LiteralMet
<1> QED BY <1>2 DEF Found, Matching

\* The days of a summary add up to its totals.
LEMMA SummaryAnswer ==
    ASSUME asked \in Summaries
    PROVE  SummaryExact
<1> SUFFICES ASSUME Literal(asked.x.name) PROVE SummaryExact
  BY DEF SummaryExact
<1>1. asked.op = "summary" /\ asked.filter \in Accepted("summary") /\ asked.x \in Inputs
  BY DEF Summaries
<1>2. PICK filter, x : filter = asked.filter /\ x = asked.x
  OBVIOUS
<1> DEFINE refs == Table["summary"]
           wanted == {ref \in refs : WantedWith(filter, x, ref)}
           found == Found(filter, x, refs)
           days == {Day(ref.created) : ref \in found}
           Of(d) == {ref \in found : Day(ref.created) = d}
           line == Timeline(filter, x, refs)
           key == [ref \in found |-> Day(ref.created)]
           size == [ref \in found |-> ref.size]
<1>3. /\ filter = NotGiven \/ filter \in FilterOf[Levels]
      /\ filter = NotGiven \/ filter \in FilterOf[MaxDepth]
  <2>1. filter \in Opt(Filters["summary"])
    BY <1>1, <1>2 DEF Accepted, Opt
  <2> QED BY <1>1, <1>2, <2>1, FilterAsked
<1>4. refs \in SUBSET Refs /\ IsFiniteSet(refs)
  BY SearchAssumption
<1>5. found = wanted
  BY <1>1, <1>2, <1>3, <1>4, FoundExact
<1>6. IsFiniteSet(found) /\ found \in SUBSET Refs
  <2>1. wanted \in SUBSET refs
    OBVIOUS
  <2> QED BY <1>4, <1>5, <2>1, FS_Subset
<1>7. line = [d \in days |-> Totals(Of(d))]
  BY DEF Timeline
<1>8. Summary(filter, x, refs).all = Totals(found) /\ Summary(filter, x, refs).days = line
  BY DEF Summary
<1>9. Totals(found).files = Cardinality(found) /\ Totals(found).size = Total(size, found)
  BY DEF Totals
<1> HIDE DEF found, line
<1>10. IsFiniteSet(days)
  <2>1. key \in [found -> days] /\ \A d \in days : \E ref \in found : key[ref] = d
    OBVIOUS
  <2>2. key \in Surjection(found, days)
    BY <2>1 DEF Surjection
  <2> HIDE DEF key, days
  <2> QED BY <1>6, <2>2, FS_Surjection
<1>11. \A ref \in found : key[ref] \in days /\ size[ref] \in Nat
  BY <1>6, SearchAssumption DEF Refs
<1>12. \A d \in days : {ref \in found : key[ref] = d} = Of(d)
  OBVIOUS
<1>13. \A d \in days : line[d].files = Cardinality(Of(d))
  BY <1>7 DEF Totals
<1>14. \A d \in days : line[d].size = Total([ref \in Of(d) |-> ref.size], Of(d))
  BY <1>7 DEF Totals
<1>15. DOMAIN line = days
  BY <1>7
<1> DEFINE files == [d \in days |-> line[d].files]
           sizes == [d \in days |-> line[d].size]
<1> HIDE DEF key, days
<1>16. Total(files, days) = Cardinality(found)
  <2> DEFINE part == [d \in days |-> Of(d)]
  <2>1. \A d \in days : /\ files[d] = Cardinality(part[d])
                        /\ \A ref : ref \in part[d] <=> ref \in found /\ key[ref] = d
    BY <1>12, <1>13
  <2>2. \A ref \in found : key[ref] \in days
    BY <1>11
  <2>3. IsFiniteSet(found) /\ IsFiniteSet(days)
    BY <1>6, <1>10
  <2> HIDE DEF files, size, part
  <2> QED BY <2>1, <2>2, <2>3, CountParts
<1>17. Total(sizes, days) = Total(size, found)
  <2> DEFINE each == [d \in days |-> Total(size, {ref \in found : key[ref] = d})]
  <2>1. Total(size, found) = Total(each, days)
    <3> HIDE DEF size
    <3> QED BY <1>6, <1>10, <1>11, TotalParts
  <2>2. ASSUME NEW d \in days
        PROVE  each[d] \in Nat /\ each[d] = sizes[d]
    <3> DEFINE own == [ref \in Of(d) |-> ref.size]
    <3>1. each[d] = Total(size, Of(d)) /\ sizes[d] = Total(own, Of(d))
      BY <1>12, <1>14
    <3>2. IsFiniteSet(Of(d))
      BY <1>6, FS_Subset
    <3>3. \A ref \in Of(d) : size[ref] \in Nat /\ size[ref] = own[ref]
      BY <1>11
    <3> HIDE DEF Of, own, size
    <3>4. Total(size, Of(d)) = Total(own, Of(d)) /\ Total(size, Of(d)) \in Nat
      BY <3>2, <3>3, TotalSame, TotalNat
    <3> QED BY <3>1, <3>4
  <2> HIDE DEF each, sizes
  <2>3. Total(each, days) = Total(sizes, days)
    BY <1>10, <2>2, TotalSame
  <2> QED BY <2>1, <2>3
<1> HIDE DEF wanted, size
<1>18. LET sum == Summary(filter, x, refs) IN
       /\ sum.all = Totals(wanted)
       /\ sum.all.files = Total([d \in DOMAIN sum.days |-> sum.days[d].files], DOMAIN sum.days)
       /\ sum.all.size = Total([d \in DOMAIN sum.days |-> sum.days[d].size], DOMAIN sum.days)
  BY <1>5, <1>8, <1>9, <1>15, <1>16, <1>17
<1> QED BY <1>1, <1>2, <1>18 DEF SummaryExact, wanted

-----------------------------------------------------------------------------
(* Answers: pages                                                          *)

\* FlattenSeq puts the lists one after the other, by induction on how many.
LEMMA FlattenDef ==
    ASSUME NEW seqs, Len(seqs) \in Nat, Len(seqs) # 0
    PROVE  \E h : /\ \A i \in 1 .. Len(seqs) :
                        h[i] = IF i = 1 THEN seqs[i] ELSE h[i - 1] \o seqs[i]
                  /\ FlattenSeq(seqs) = h[Len(seqs)]
<1> DEFINE Def(h, i) == IF i = 1 THEN seqs[i] ELSE h[i - 1] \o seqs[i]
           S == {k \in Nat : \E h : h = [i \in 1 .. k |-> Def(h, i)]}
<1>1. 0 \in S
  <2> DEFINE h == [i \in 1 .. 0 |-> seqs[i]]
  <2>1. h = [i \in 1 .. 0 |-> Def(h, i)]
    OBVIOUS
  <2> HIDE DEF h, Def
  <2> QED BY <2>1
<1>2. ASSUME NEW k \in Nat, k \in S
      PROVE  k + 1 \in S
  <2>1. PICK h : h = [i \in 1 .. k |-> Def(h, i)]
    BY <1>2
  <2> DEFINE g == [i \in 1 .. k + 1 |-> Def(h, i)]
  <2>2. \A i \in 1 .. k : g[i] = h[i]
    <3> HIDE DEF Def
    <3>1. \A i \in 1 .. k : h[i] = Def(h, i)
      BY <2>1
    <3> QED BY <3>1
  <2>3. \A i \in 1 .. k + 1 : i # 1 => i - 1 \in 1 .. k
    OBVIOUS
  <2>4. \A i \in 1 .. k + 1 : Def(g, i) = Def(h, i)
    <3> HIDE DEF g
    <3> QED BY <2>2, <2>3
  <2>5. g = [i \in 1 .. k + 1 |-> Def(g, i)]
    <3> HIDE DEF Def
    <3> QED BY <2>4
  <2>6. k + 1 \in Nat
    OBVIOUS
  <2> QED
    <3> HIDE DEF Def, g
    <3> QED BY <2>5, <2>6
<1>3. Len(seqs) \in S
  <2> HIDE DEF S
  <2> QED BY <1>1, <1>2, NatSetInduction
<1>4. PICK f : f = [i \in 1 .. Len(seqs) |-> Def(f, i)]
  BY <1>3
<1> DEFINE c == CHOOSE h : h = [i \in 1 .. Len(seqs) |-> Def(h, i)]
<1>5. c = [i \in 1 .. Len(seqs) |-> Def(c, i)]
  <2> HIDE DEF Def
  <2> QED BY <1>4
<1>6. FlattenSeq(seqs) = c[Len(seqs)]
  BY DEF FlattenSeq
<1> QED
  <2>1. \A i \in 1 .. Len(seqs) : c[i] = Def(c, i)
    <3> HIDE DEF Def, c
    <3> QED BY <1>5
  <2> HIDE DEF c
  <2> QED BY <2>1, <1>6

\* The smaller and the larger of two numbers.
LEMMA MinMax ==
    ASSUME NEW a \in Int, NEW b \in Int
    PROVE  /\ Min({a, b}) = IF a <= b THEN a ELSE b
           /\ Max({a, b}) = IF a <= b THEN b ELSE a
<1> DEFINE low == IF a <= b THEN a ELSE b
           high == IF a <= b THEN b ELSE a
<1>1. /\ low \in {a, b} /\ \A y \in {a, b} : low <= y
      /\ high \in {a, b} /\ \A y \in {a, b} : high >= y
  OBVIOUS
<1>2. Min({a, b}) \in {a, b} /\ \A y \in {a, b} : Min({a, b}) <= y
  <2> HIDE DEF low, high
  <2> QED BY <1>1 DEF Min
<1>3. Max({a, b}) \in {a, b} /\ \A y \in {a, b} : Max({a, b}) >= y
  <2> HIDE DEF low, high
  <2> QED BY <1>1 DEF Max
<1> QED BY <1>2, <1>3

\* A page before the first one is the first one.
LEMMA AtLeastOne ==
    ASSUME NEW p \in Int
    PROVE  Max({p, 1}) = IF p <= 1 THEN 1 ELSE p
<1>1. 1 \in Int
  OBVIOUS
<1> QED BY ONLY p \in Int, <1>1, MinMax

\* A page has room for a row.
LEMMA PageSizeRange ==
    ASSUME NEW perPage \in Int
    PROVE  PageSize(perPage) \in Nat /\ PageSize(perPage) >= 1
<1>1. MaxPage \in Int
  BY SearchAssumption
<1> DEFINE m == Min({perPage, MaxPage})
<1>2. m \in Int
  BY <1>1, MinMax
<1> HIDE DEF m
<1>3. Max({1, m}) = IF 1 <= m THEN m ELSE 1
  BY <1>2, MinMax
<1>4. PageSize(perPage) = Max({1, m})
  BY DEF PageSize, m
<1> QED BY <1>2, <1>3, <1>4

\* The pages of size from a list, put one after the other, are the list.
LEMMA PagesJoin ==
    ASSUME NEW X, NEW w \in Seq(X), NEW size \in Nat, size >= 1, NEW n \in Nat, n > Len(w),
           NEW pages, pages = [p \in 1 .. n |->
              SubSeq(w, (p - 1) * size + 1,
                     IF (p - 1) * size + size <= Len(w) THEN (p - 1) * size + size ELSE Len(w))]
    PROVE  FlattenSeq(pages) = w
<1> DEFINE L == Len(w)
           upto(p) == IF p * size <= L THEN p * size ELSE L
           page(f) == SubSeq(w, f + 1, IF f + size <= L THEN f + size ELSE L)
<1>0. \A p \in 1 .. n : pages[p] = page((p - 1) * size)
  OBVIOUS
<1>1. L \in Nat
  OBVIOUS
<1>2. Len(pages) = n /\ n # 0
  BY <1>1
<1>3. PICK h : /\ \A i \in 1 .. n : h[i] = IF i = 1 THEN pages[i] ELSE h[i - 1] \o pages[i]
               /\ FlattenSeq(pages) = h[n]
  BY <1>2, FlattenDef
<1>4. \A p \in Nat : p * size \in Nat /\ (p + 1) * size = p * size + size
  OBVIOUS
<1>5. \A p \in Nat : upto(p) \in 0 .. L
  BY <1>1, <1>4
<1> DEFINE S == {k \in Nat : k + 1 <= n => h[k + 1] = SubSeq(w, 1, upto(k + 1))}
<1>6. 0 \in S
  <2>1. pages[1] = SubSeq(w, 1, upto(1))
    <3>1. 1 \in 1 .. n /\ (1 - 1) * size = 0 /\ 1 * size = size /\ 0 + size = size /\ 0 + 1 = 1
      BY <1>2
    <3>2. pages[1] = page(0)
      <4> HIDE DEF page
      <4> QED BY <1>0, <3>1
    <3> QED BY <3>1, <3>2
  <2>2. h[1] = pages[1]
    BY <1>2, <1>3
  <2>3. 0 + 1 = 1
    OBVIOUS
  <2> HIDE DEF upto
  <2> QED BY <2>1, <2>2, <2>3
<1>7. ASSUME NEW k \in Nat, k \in S
      PROVE  k + 1 \in S
  <2> SUFFICES ASSUME k + 1 + 1 <= n
               PROVE  h[k + 1 + 1] = SubSeq(w, 1, upto(k + 1 + 1))
    OBVIOUS
  <2> DEFINE p == k + 1
             from == p * size
  <2>1. p \in Nat /\ p + 1 \in 1 .. n /\ p + 1 # 1 /\ p + 1 - 1 = p /\ p + 1 = k + 1 + 1 /\ p <= n
    OBVIOUS
  <2>2. h[p] = SubSeq(w, 1, upto(p))
    <3> HIDE DEF upto
    <3> QED BY <1>7, <2>1
  <2> HIDE DEF p
  <2>3. h[p + 1] = h[p] \o pages[p + 1]
    <3>1. PICK q : q = p + 1
      OBVIOUS
    <3>2. q \in 1 .. n /\ q # 1 /\ q - 1 = p
      BY <2>1, <3>1
    <3>3. h[q] = h[q - 1] \o pages[q]
      BY <1>3, <3>2
    <3> QED BY <3>1, <3>2, <3>3
  <2>4. from \in Nat /\ (p + 1) * size = from + size
    BY <1>4, <2>1
  <2>5. pages[p + 1] = SubSeq(w, from + 1, IF from + size <= L THEN from + size ELSE L)
    <3>1. pages[p + 1] = page(from)
      <4> HIDE DEF page
      <4>1. PICK q : q = p + 1
        OBVIOUS
      <4>2. q \in 1 .. n /\ q - 1 = p
        BY <2>1, <4>1
      <4>3. pages[q] = page((q - 1) * size)
        BY <1>0, <4>2
      <4> QED BY <4>1, <4>2, <4>3
    <3> QED BY <3>1
  <2> HIDE DEF from
  <2>6. upto(p + 1) = IF from + size <= L THEN from + size ELSE L
    BY <2>4
  <2>7. upto(p) = IF from <= L THEN from ELSE L
    BY DEF from
  <2> HIDE DEF upto, L
  <2>8. SubSeq(w, 1, upto(p)) \o SubSeq(w, from + 1, upto(p + 1)) = SubSeq(w, 1, upto(p + 1))
    <3>1. CASE from <= L
      <4>1. upto(p) = from /\ upto(p) \in 0 .. L /\ upto(p + 1) \in upto(p) .. L
        BY <3>1, <2>4, <2>6, <2>7, <1>1
      <4>2. 1 \in 1 .. L + 1 /\ 1 - 1 = 0
        BY <1>1
      <4> QED BY <4>1, <4>2, ConcatAdjacentSubSeq DEF L
    <3>2. CASE ~(from <= L)
      <4>1. upto(p) = L /\ upto(p + 1) = L /\ L < from + 1
        BY <3>2, <2>4, <2>6, <2>7, <1>1
      <4>2. SubSeq(w, from + 1, L) = <<>>
        BY <4>1, <2>4, <1>1, SubSeqEmpty
      <4>3. SubSeq(w, 1, L) = w
        BY SubSeqFull DEF L
      <4> QED BY <4>1, <4>2, <4>3, ConcatEmptySeq
    <3> QED BY <3>1, <3>2
  <2> QED BY <2>1, <2>2, <2>3, <2>5, <2>6, <2>8
<1>8. n - 1 \in S
  <2>1. n - 1 \in Nat
    BY <1>2
  <2> HIDE DEF S
  <2> QED BY <1>6, <1>7, <2>1, NatSetInduction
<1>9. h[n] = SubSeq(w, 1, upto(n))
  <2>1. n - 1 + 1 = n
    OBVIOUS
  <2> HIDE DEF upto
  <2> QED BY <1>8, <2>1
<1>10. upto(n) = L
  <2>1. n * size >= n
    BY <1>2
  <2> QED BY <2>1, <1>1, <1>4
<1> QED BY <1>3, <1>9, <1>10, SubSeqFull

\* The rows of a table that a search wants, in their order.
WantedRows(filter, x, rows) ==
    SelectAt(rows, {i \in DOMAIN rows : WantedWith(filter, x, rows[i])})

\* A page of the wanted rows, for any page and size asked for.
LEMMA PageExact ==
    ASSUME NEW filter, filter = NotGiven \/ filter \in FilterOf[Levels],
           filter = NotGiven \/ filter \in FilterOf[MaxDepth],
           NEW x \in Inputs, Literal(x.name), NEW rows \in Seq(Refs), NEW p \in Int,
           NEW perPage \in Int
    PROVE  LET w == WantedRows(filter, x, rows)
               from == Offset(p, perPage)
               to == from + PageSize(perPage)
               page == SearchPage(filter, x, rows, p, perPage)
           IN /\ page.results = SubSeq(w, from + 1, IF to <= Len(w) THEN to ELSE Len(w))
              /\ page.total = Len(w)
<1> DEFINE at == {i \in DOMAIN rows : WantedWith(filter, x, rows[i])}
           w == SelectAt(rows, at)
           size == PageSize(perPage)
           off == Offset(p, perPage)
           q == Where(filter, Extras(x))
           n == Len(Compile(filter, 2).params)
           rest == <<Arg("limit", size), Arg("offset", off)>>
           args == q.args \o rest
           limit == NextParam(Extras(x), n + 2)
           Match(as) == SelectAt(rows, {i \in DOMAIN rows : Matches(q.sql, as, rows[i])})
<1>1. size \in Nat
  BY PageSizeRange
<1>2. off \in Nat
  <2>1. Max({p, 1}) = IF p <= 1 THEN 1 ELSE p
    <3>1. p \in Int /\ 1 \in Int
      OBVIOUS
    <3> QED BY ONLY <3>1, MinMax
  <2>2. off = (Max({p, 1}) - 1) * size
    BY DEF Offset
  <2> HIDE DEF off, size
  <2>3. Max({p, 1}) - 1 \in Nat
    BY <2>1
  <2> QED BY <1>1, <2>2, <2>3
<1>3. rest \in Seq(Args) /\ Len(rest) = 2 /\ rest[1].value = size /\ rest[2].value = off
  <2>1. Arg("limit", size) \in Args /\ Arg("offset", off) \in Args
    BY <1>1, <1>2 DEF Arg, Args
  <2>2. Arg("limit", size).value = size /\ Arg("offset", off).value = off
    BY DEF Arg
  <2> QED BY <2>1, <2>2
<1>4. Extras(x) \in Seq(Conditions)
  BY ExtrasMet
<1> HIDE DEF rest, size, off
<1>5. /\ q.args \in Seq(Args) /\ Len(q.args) = n + 1 + Len(Given(Extras(x))) /\ n \in Nat
      /\ \A ref \in Refs : Matches(q.sql, args, ref)
                             <=> Wanted(filter, ref) /\ AllMet(Extras(x), ref)
  BY <1>3, <1>4, WhereExact
<1>6. \A ref \in Refs : Matches(q.sql, q.args, ref)
                          <=> Wanted(filter, ref) /\ AllMet(Extras(x), ref)
  BY <1>4, MatchingExact
<1> HIDE DEF q
<1>7. \A i \in DOMAIN rows : rows[i] \in Refs
  OBVIOUS
<1>8. Match(args) = w /\ Match(q.args) = w
  <2>1. {i \in DOMAIN rows : Matches(q.sql, args, rows[i])} = at
    <3> HIDE DEF args
    <3> QED BY <1>5, <1>7, LiteralMet
  <2>2. {i \in DOMAIN rows : Matches(q.sql, q.args, rows[i])} = at
    BY <1>6, <1>7, LiteralMet
  <2> QED BY <2>1, <2>2
<1>9. args[limit].value = size /\ args[limit + 1].value = off
  <2>1. Len(Given(Extras(x))) \in Nat
    BY <1>4, GivenConditions
  <2>2. limit = Len(q.args) + 1 /\ limit + 1 = Len(q.args) + 2
    BY <1>5, <2>1 DEF NextParam
  <2>3. args[Len(q.args) + 1] = rest[1] /\ args[Len(q.args) + 2] = rest[2]
    <3>1. Len(q.args) \in Nat
      BY <1>5
    <3>2. \A i \in 1 .. Len(q.args) + Len(rest) :
             args[i] = IF i <= Len(q.args) THEN q.args[i] ELSE rest[i - Len(q.args)]
      <4>1. PICK a : a = q.args
        OBVIOUS
      <4>2. a \in Seq(Args)
        BY <1>5, <4>1
      <4>3. \A i \in 1 .. Len(a) + Len(rest) :
               (a \o rest)[i] = IF i <= Len(a) THEN a[i] ELSE rest[i - Len(a)]
        BY <1>3, <4>2, ConcatProperties
      <4> QED BY <4>1, <4>3
    <3> HIDE DEF args
    <3>3. PICK k \in Nat : k = Len(q.args)
      BY <3>1
    <3>4. Len(rest) = 2
      BY <1>3
    <3>5. args[k + 1] = rest[k + 1 - k] /\ args[k + 2] = rest[k + 2 - k]
      BY <3>2, <3>3, <3>4
    <3>6. k + 1 - k = 1 /\ k + 2 - k = 2
      BY <3>3
    <3> QED BY <3>3, <3>5, <3>6
  <2> QED BY <1>3, <2>2, <2>3
<1>10. w \in Seq(Refs)
  <2> HIDE DEF at
  <2> QED BY SelectKeeps
<1>11. SearchPage(filter, x, rows, p, perPage) =
         [results |-> SubSeq(Match(args), args[limit + 1].value + 1,
                             Min({args[limit + 1].value + args[limit].value, Len(Match(args))})),
          total |-> Len(Match(q.args))]
  BY DEF SearchPage, q, rest, size, off
<1> HIDE DEF Match, args, limit, w
<1>12. SearchPage(filter, x, rows, p, perPage) =
         [results |-> SubSeq(w, off + 1, Min({off + size, Len(w)})), total |-> Len(w)]
  BY <1>8, <1>9, <1>11
<1>13. Min({off + size, Len(w)}) = IF off + size <= Len(w) THEN off + size ELSE Len(w)
  <2>1. off + size \in Int /\ Len(w) \in Int
    BY <1>1, <1>2, <1>10
  <2> QED BY <2>1, MinMax
<1>14. /\ SearchPage(filter, x, rows, p, perPage).results
            = SubSeq(w, off + 1, IF off + size <= Len(w) THEN off + size ELSE Len(w))
       /\ SearchPage(filter, x, rows, p, perPage).total = Len(w)
  <2> DEFINE cut == SubSeq(w, off + 1, Min({off + size, Len(w)}))
             len == Len(w)
  <2> HIDE DEF cut, len
  <2>1. SearchPage(filter, x, rows, p, perPage) = [results |-> cut, total |-> len]
    BY <1>12 DEF cut, len
  <2>2. /\ SearchPage(filter, x, rows, p, perPage).results = cut
        /\ SearchPage(filter, x, rows, p, perPage).total = len
    BY <2>1
  <2> QED BY <1>13, <2>2 DEF cut, len
<1> QED BY <1>14 DEF w, off, size, WantedRows

\* What the pages of a search show, cut from one order of the rows.
PageList(filter, x, rows, perPage) ==
    [p \in 1 .. Len(rows) + 1 |-> SearchPage(filter, x, rows, p, perPage).results]

\* The pages of a search, cut from one order of the rows, are its result.
LEMMA PagesOf ==
    ASSUME NEW filter, filter = NotGiven \/ filter \in FilterOf[Levels],
           filter = NotGiven \/ filter \in FilterOf[MaxDepth],
           NEW x \in Inputs, Literal(x.name), NEW rows \in Seq(Refs), NEW perPage \in Int
    PROVE  LET w == WantedRows(filter, x, rows)
               page(p) == SearchPage(filter, x, rows, p, perPage)
           IN /\ FlattenSeq(PageList(filter, x, rows, perPage)) = w
              /\ \A p \in -1 .. 0 : page(p) = page(1)
              /\ page(1).total = Len(w)
<1> DEFINE w == WantedRows(filter, x, rows)
           size == PageSize(perPage)
           n == Len(rows) + 1
           Page(p) == SearchPage(filter, x, rows, p, perPage)
           Cut(f) == SubSeq(w, f + 1, IF f + size <= Len(w) THEN f + size ELSE Len(w))
           pages == [p \in 1 .. n |-> Page(p).results]
<1>1. size \in Nat /\ size >= 1
  BY PageSizeRange
<1>2. w \in Seq(Refs) /\ Len(w) <= Len(rows)
  <2> DEFINE at == {i \in DOMAIN rows : WantedWith(filter, x, rows[i])}
  <2>1. w = SelectAt(rows, at)
    BY DEF WantedRows
  <2> HIDE DEF at
  <2>2. SelectAt(rows, at) \in Seq(Refs) /\ Len(SelectAt(rows, at)) <= Len(rows)
    BY SelectKeeps
  <2> QED BY <2>1, <2>2
<1>3. ASSUME NEW p \in Int
      PROVE  Page(p).results = Cut(Offset(p, perPage)) /\ Page(p).total = Len(w)
  BY PageExact
<1> HIDE DEF w, size
<1>4. \A p \in Int : Offset(p, perPage) = IF p <= 1 THEN 0 ELSE (p - 1) * size
  <2> SUFFICES ASSUME NEW p \in Int
               PROVE  Offset(p, perPage) = IF p <= 1 THEN 0 ELSE (p - 1) * size
    OBVIOUS
  <2>1. Max({p, 1}) = IF p <= 1 THEN 1 ELSE p
    BY AtLeastOne
  <2>2. (1 - 1) * size = 0
    BY <1>1
  <2> QED BY <2>1, <2>2 DEF Offset, size
<1>5. n \in Nat /\ n > Len(w)
  BY <1>2
<1>6. FlattenSeq(pages) = w
  <2> DEFINE cuts == [p \in 1 .. n |->
               SubSeq(w, (p - 1) * size + 1,
                      IF (p - 1) * size + size <= Len(w) THEN (p - 1) * size + size ELSE Len(w))]
  <2>1. pages = cuts
    <3>1. ASSUME NEW p \in 1 .. n
          PROVE  Page(p).results = Cut((p - 1) * size)
      <4>1. p \in Int /\ Offset(p, perPage) = (p - 1) * size
        <5>1. (1 - 1) * size = 0
          BY <1>1
        <5> QED BY <1>4, <1>5, <5>1
      <4> HIDE DEF Page, Cut
      <4> QED BY <1>3, <4>1
    <3> HIDE DEF Page, n
    <3> QED BY <3>1
  <2>2. FlattenSeq(cuts) = w
    <3> HIDE DEF n
    <3> QED BY <1>1, <1>2, <1>5, PagesJoin, ZenonT(40)
  <2> HIDE DEF pages, cuts
  <2> QED BY <2>1, <2>2
<1>7. \A p \in -1 .. 0 : Page(p) = Page(1)
  <2> SUFFICES ASSUME NEW p \in -1 .. 0
               PROVE  Page(p) = Page(1)
    OBVIOUS
  <2>1. Max({p, 1}) = 1 /\ Max({1, 1}) = 1
    <3>1. p \in Int /\ p <= 1
      OBVIOUS
    <3>2. Max({p, 1}) = IF p <= 1 THEN 1 ELSE p
      BY <3>1, AtLeastOne
    <3>3. 1 \in Int
      OBVIOUS
    <3>4. Max({1, 1}) = IF 1 <= 1 THEN 1 ELSE 1
      BY ONLY <3>3, AtLeastOne
    <3> QED BY <3>1, <3>2, <3>4
  <2>2. Offset(p, perPage) = Offset(1, perPage)
    BY <2>1 DEF Offset
  <2> QED BY <2>2 DEF SearchPage
<1>8. Page(1).total = Len(w)
  <2> HIDE DEF Page
  <2> QED BY <1>3
<1>9. pages = PageList(filter, x, rows, perPage)
  BY DEF PageList
<1> HIDE DEF Page, pages
<1>10. /\ FlattenSeq(PageList(filter, x, rows, perPage)) = w
       /\ \A p \in -1 .. 0 : Page(p) = Page(1)
       /\ Page(1).total = Len(w)
  BY <1>6, <1>7, <1>8, <1>9
<1> QED BY <1>10 DEF w, Page

\* SelectAt keeps the order.
LEMMA SelectOrder ==
    ASSUME NEW X, NEW s \in Seq(X), NEW at
    PROVE  LET g == SelectAt(s, at) IN
           \A j, k \in 1 .. Len(g) : j < k =>
              \E i, l \in 1 .. Len(s) : /\ i < l /\ i \in at /\ l \in at
                                        /\ g[j] = s[i] /\ g[k] = s[l]
<1> DEFINE Has(g, j, n) == \E i \in 1 .. n : i \in at /\ g[j] = s[i]
           Have(g, j, k, n) == \E i, l \in 1 .. n : /\ i < l /\ i \in at /\ l \in at
                                                    /\ g[j] = s[i] /\ g[k] = s[l]
           Good(g, n) == /\ g \in Seq(X)
                         /\ \A j \in 1 .. Len(g) : Has(g, j, n)
                         /\ \A j, k \in 1 .. Len(g) : j < k => Have(g, j, k, n)
<1>1. Len(s) \in Nat
  OBVIOUS
<1>2. PICK h : /\ \A i \in 0 .. Len(s) :
                     h[i] = IF i = 0 THEN <<>>
                            ELSE IF i \in at THEN Append(h[i - 1], s[i]) ELSE h[i - 1]
               /\ SelectAt(s, at) = h[Len(s)]
  BY <1>1, SelectDef
<1> DEFINE S == {n \in Nat : n <= Len(s) => Good(h[n], n)}
<1>3. 0 \in S
  <2>1. h[0] = <<>>
    BY <1>1, <1>2
  <2>2. h[0] \in Seq(X) /\ Len(h[0]) = 0
    BY <2>1
  <2> QED BY <2>2
<1>4. ASSUME NEW n \in Nat, n \in S
      PROVE  n + 1 \in S
  <2>1. SUFFICES ASSUME n + 1 <= Len(s)
                 PROVE  Good(h[n + 1], n + 1)
    <3> HIDE DEF Good
    <3> QED OBVIOUS
  <2>2. Good(h[n], n)
    BY <1>1, <1>4, <2>1
  <2>3. h[n + 1] = IF n + 1 \in at THEN Append(h[n], s[n + 1]) ELSE h[n]
    <3>1. n + 1 \in 0 .. Len(s) /\ n + 1 # 0 /\ n + 1 - 1 = n
      BY <1>1, <2>1
    <3> QED BY <1>2, <3>1
  <2>4. \A g, j, k : (Has(g, j, n) => Has(g, j, n + 1)) /\ (Have(g, j, k, n) => Have(g, j, k, n + 1))
    <3>1. \A i \in 1 .. n : i \in 1 .. n + 1
      OBVIOUS
    <3> QED BY <3>1
  <2>5. CASE n + 1 \notin at
    <3>1. h[n + 1] = h[n]
      BY <2>3, <2>5
    <3> HIDE DEF Has, Have
    <3> QED BY <2>2, <2>4, <3>1
  <2>6. CASE n + 1 \in at
    <3> DEFINE f == h[n]
               e == s[n + 1]
               a == Append(f, e)
    <3>1. f \in Seq(X) /\ e \in X /\ h[n + 1] = a
      BY <1>1, <2>1, <2>2, <2>3, <2>6
    <3> HIDE DEF f, e
    <3>2. /\ a \in Seq(X) /\ Len(a) = Len(f) + 1 /\ Len(f) \in Nat
          /\ \A j \in 1 .. Len(f) : a[j] = f[j]
          /\ a[Len(f) + 1] = e
      BY <3>1
    <3> HIDE DEF a
    <3>3. ASSUME NEW j \in 1 .. Len(a)
          PROVE  (j \in 1 .. Len(f) /\ a[j] = f[j]) \/ (j = Len(f) + 1 /\ a[j] = e)
      BY <3>2
    <3>4. /\ \A j \in 1 .. Len(f) : Has(f, j, n)
          /\ \A j, k \in 1 .. Len(f) : j < k => Have(f, j, k, n)
      <4> HIDE DEF Has, Have
      <4> QED BY <2>2 DEF f
    <3>5. ASSUME NEW j \in 1 .. Len(a)
          PROVE  Has(a, j, n + 1)
      <4>1. CASE j \in 1 .. Len(f) /\ a[j] = f[j]
        <5>1. Has(f, j, n + 1)
          <6> HIDE DEF Has
          <6> QED BY <2>4, <3>4, <4>1
        <5> QED BY <4>1, <5>1
      <4>2. CASE j = Len(f) + 1 /\ a[j] = e
        BY <2>6, <4>2 DEF e
      <4> QED BY <3>3, <4>1, <4>2
    <3>6. ASSUME NEW j \in 1 .. Len(a), NEW k \in 1 .. Len(a), j < k
          PROVE  Have(a, j, k, n + 1)
      <4>1. j \in 1 .. Len(f) /\ a[j] = f[j]
        BY <3>2, <3>6
      <4>2. CASE k \in 1 .. Len(f) /\ a[k] = f[k]
        <5>1. Have(f, j, k, n + 1)
          <6> HIDE DEF Have
          <6> QED BY <2>4, <3>4, <3>6, <4>1, <4>2
        <5> QED BY <4>1, <4>2, <5>1
      <4>3. CASE k = Len(f) + 1 /\ a[k] = e
        <5>1. PICK i \in 1 .. n : i \in at /\ f[j] = s[i]
          BY <3>4, <4>1
        <5>2. i \in 1 .. n + 1 /\ n + 1 \in 1 .. n + 1 /\ i < n + 1
          OBVIOUS
        <5>3. a[j] = s[i] /\ a[k] = s[n + 1]
          BY <4>1, <4>3, <5>1 DEF e
        <5> QED BY <2>6, <5>1, <5>2, <5>3
      <4> QED BY <3>3, <4>2, <4>3
    <3> HIDE DEF Has, Have
    <3> QED BY <3>1, <3>2, <3>5, <3>6
  <2> QED BY <2>5, <2>6
<1>5. Len(s) \in S
  <2> HIDE DEF S
  <2> QED BY <1>1, <1>3, <1>4, NatSetInduction
<1>6. Good(h[Len(s)], Len(s))
  <2> HIDE DEF Good
  <2> QED BY <1>1, <1>5
<1> QED BY <1>2, <1>6

\* What lists of rows are that fall strictly in time.
Falling(s) == \A j, k \in 1 .. Len(s) : j < k => s[j].created > s[k].created

\* Every element of a is one of b.
Within(a, b) == \A j \in 1 .. Len(a) : \E k \in 1 .. Len(b) : a[j] = b[k]

\* The first n elements of a are those of b.
Alike(a, b, n) == \A i \in 1 .. n : a[i] = b[i]

LEMMA AlikeGrows ==
    ASSUME NEW a, NEW b, NEW n \in Nat, Alike(a, b, n), a[n + 1] = b[n + 1]
    PROVE  Alike(a, b, n + 1)
<1>1. \A i \in 1 .. n + 1 : i = n + 1 \/ i \in 1 .. n
  OBVIOUS
<1> QED BY <1>1 DEF Alike

\* An element that comes after others in one falling list comes after them in
\* another one that begins alike.
LEMMA ComesLater ==
    ASSUME NEW a \in Seq(Refs), NEW b \in Seq(Refs), Falling(a), NEW n \in Nat, Alike(a, b, n),
           n + 1 <= Len(a), NEW m \in 1 .. Len(b), a[n + 1] = b[m]
    PROVE  m >= n + 1
<1> SUFFICES ASSUME m <= n PROVE FALSE
  OBVIOUS
<1>1. m \in 1 .. n /\ m \in 1 .. Len(a) /\ n + 1 \in 1 .. Len(a) /\ m < n + 1
  OBVIOUS
<1>2. a[m] = b[m]
  BY <1>1 DEF Alike
<1>3. a[m].created > a[n + 1].created
  BY <1>1 DEF Falling
<1>4. a[n + 1] \in Refs
  BY <1>1
<1> PICK x \in Nat : x = a[n + 1].created
  BY <1>4, SearchAssumption DEF Refs
<1>5. a[m].created = x
  BY <1>2
<1> QED BY <1>3, <1>5

\* A falling list begins every other one that has its rows, and no more.
LEMMA FallingPrefix ==
    ASSUME NEW a \in Seq(Refs), NEW b \in Seq(Refs), Falling(a), Falling(b),
           Within(a, b), Within(b, a)
    PROVE  Len(a) <= Len(b) /\ Alike(a, b, Len(a))
<1> DEFINE S == {n \in Nat : n <= Len(a) => n <= Len(b) /\ Alike(a, b, n)}
<1>1. Len(a) \in Nat /\ Len(b) \in Nat
  OBVIOUS
<1>2. \A ref \in Refs : ref.created \in Nat
  BY SearchAssumption DEF Refs
<1>3. 0 \in S
  BY <1>1 DEF Alike
<1>4. ASSUME NEW n \in Nat, n \in S
      PROVE  n + 1 \in S
  <2>1. SUFFICES ASSUME n + 1 <= Len(a)
                 PROVE  n + 1 <= Len(b) /\ Alike(a, b, n + 1)
    OBVIOUS
  <2>2. n <= Len(b) /\ Alike(a, b, n) /\ n + 1 \in 1 .. Len(a)
    BY <1>1, <1>4, <2>1
  <2>3. Alike(b, a, n)
    BY <2>2 DEF Alike
  <2>4. PICK m \in 1 .. Len(b) : a[n + 1] = b[m]
    BY <2>2 DEF Within
  <2>5. m >= n + 1
    BY <2>1, <2>2, <2>4, ComesLater
  <2>6. n + 1 \in 1 .. Len(b) /\ n + 1 <= Len(b)
    BY <1>1, <2>5
  <2>7. PICK l \in 1 .. Len(a) : b[n + 1] = a[l]
    BY <2>6 DEF Within
  <2>8. l >= n + 1
    BY <2>3, <2>6, <2>7, ComesLater
  <2>9. m = n + 1 \/ l = n + 1
    <3> SUFFICES ASSUME m > n + 1, l > n + 1 PROVE FALSE
      BY <2>5, <2>8
    <3>1. b[n + 1].created > b[m].created
      BY <2>6 DEF Falling
    <3>2. a[n + 1].created > a[l].created
      BY <2>2 DEF Falling
    <3>3. a[n + 1] \in Refs /\ b[n + 1] \in Refs
      BY <2>2, <2>6
    <3> PICK x \in Nat, y \in Nat : x = a[n + 1].created /\ y = b[n + 1].created
      BY <1>2, <3>3
    <3>4. b[m].created = x /\ a[l].created = y
      BY <2>4, <2>7
    <3> QED BY <3>1, <3>2, <3>4
  <2>10. a[n + 1] = b[n + 1]
    BY <2>4, <2>7, <2>9
  <2> QED BY <2>2, <2>6, <2>10, AlikeGrows
<1>5. Len(a) \in S
  <2> HIDE DEF S
  <2> QED BY <1>1, <1>3, <1>4, NatSetInduction
<1> QED BY <1>1, <1>5

\* The rows that a search wants are the same list in every order of the table,
\* when no two of them were uploaded at the same time.
LEMMA UntiedSame ==
    ASSUME NEW filter, NEW x, NEW rows \in Listings, NEW other \in Listings,
           \A a, b \in Table["page"] :
              WantedWith(filter, x, a) /\ WantedWith(filter, x, b) /\ a.created = b.created => a = b
    PROVE  WantedRows(filter, x, rows) = WantedRows(filter, x, other) /\ Len(rows) = Len(other)
<1> DEFINE Kept(list) == {i \in DOMAIN list : WantedWith(filter, x, list[i])}
           W(list) == SelectAt(list, Kept(list))
<1>1. ASSUME NEW list \in Listings
      PROVE  /\ list \in Seq(Refs) /\ IsInjective(list) /\ ToSet(list) = Table["page"]
             /\ \A i, j \in 1 .. Len(list) : i < j => list[i].created >= list[j].created
             /\ \A i \in 1 .. Len(list) : list[i] \in Table["page"] /\ list[i].created \in Nat
             /\ \A ref \in Table["page"] : \E i \in 1 .. Len(list) : list[i] = ref
  <2>1. list \in Seq(Refs) /\ IsInjective(list) /\ ToSet(list) = Table["page"] /\ NewestFirst(list)
    BY SearchAssumption
  <2>2. \A ref \in Refs : ref.created \in Nat
    BY SearchAssumption DEF Refs
  <2>3. DOMAIN list = 1 .. Len(list)
    BY <2>1
  <2> QED BY <2>1, <2>2, <2>3 DEF ToSet, NewestFirst
<1>2. ASSUME NEW list \in Listings
      PROVE  /\ W(list) \in Seq(Refs) /\ Falling(W(list))
             /\ \A j \in 1 .. Len(W(list)) :
                   W(list)[j] \in Table["page"] /\ WantedWith(filter, x, W(list)[j])
             /\ \A ref \in Table["page"] : WantedWith(filter, x, ref) =>
                   \E j \in 1 .. Len(W(list)) : W(list)[j] = ref
  <2> PICK at : at = Kept(list)
    OBVIOUS
  <2> DEFINE g == SelectAt(list, at)
  <2>0. list \in Seq(Refs)
    BY <1>1
  <2>1. /\ g \in Seq(Refs)
        /\ \A j \in 1 .. Len(g) : \E i \in 1 .. Len(list) : i \in at /\ g[j] = list[i]
        /\ \A i \in 1 .. Len(list) : i \in at => \E j \in 1 .. Len(g) : g[j] = list[i]
    BY ONLY <2>0, SelectKeeps
  <2>2. \A j, k \in 1 .. Len(g) : j < k =>
           \E i, l \in 1 .. Len(list) : /\ i < l /\ i \in at /\ l \in at
                                        /\ g[j] = list[i] /\ g[k] = list[l]
    BY ONLY <2>0, SelectOrder
  <2>3. \A i \in 1 .. Len(list) : i \in at <=> WantedWith(filter, x, list[i])
    BY <1>1
  <2>4. g = W(list)
    OBVIOUS
  <2> HIDE DEF g
  <2>5. Falling(g)
    <3> SUFFICES ASSUME NEW j \in 1 .. Len(g), NEW k \in 1 .. Len(g), j < k
                 PROVE  g[j].created > g[k].created
      BY DEF Falling
    <3>1. PICK i \in 1 .. Len(list), l \in 1 .. Len(list) :
             i < l /\ i \in at /\ l \in at /\ g[j] = list[i] /\ g[k] = list[l]
      BY <2>2
    <3>2. i # l /\ i \in DOMAIN list /\ l \in DOMAIN list
      BY <1>1, <3>1
    <3>3. list[i] # list[l]
      BY <1>1, <3>2 DEF IsInjective
    <3>4. list[i].created # list[l].created
      BY <1>1, <2>3, <3>1, <3>3
    <3>5. list[i].created >= list[l].created /\ list[i].created \in Nat /\ list[l].created \in Nat
      BY <1>1, <3>1
    <3> QED BY <3>1, <3>4, <3>5
  <2>6. \A j \in 1 .. Len(g) : g[j] \in Table["page"] /\ WantedWith(filter, x, g[j])
    BY <1>1, <2>1, <2>3
  <2>7. ASSUME NEW ref \in Table["page"], WantedWith(filter, x, ref)
        PROVE  \E j \in 1 .. Len(g) : g[j] = ref
    <3>1. PICK i \in 1 .. Len(list) : list[i] = ref
      BY <1>1
    <3>2. i \in at
      BY <2>3, <2>7, <3>1
    <3> QED BY <2>1, <3>1, <3>2
  <2> QED BY <2>1, <2>4, <2>5, <2>6, <2>7
<1> PICK a, b : a = W(rows) /\ b = W(other)
  OBVIOUS
<1>3. /\ a \in Seq(Refs) /\ b \in Seq(Refs) /\ Falling(a) /\ Falling(b)
      /\ Within(a, b) /\ Within(b, a)
  <2> HIDE DEF W
  <2>1. /\ a \in Seq(Refs) /\ b \in Seq(Refs) /\ Falling(a) /\ Falling(b)
    BY <1>2
  <2>2. \A j \in 1 .. Len(a) : a[j] \in Table["page"] /\ WantedWith(filter, x, a[j])
    BY <1>2
  <2>3. \A j \in 1 .. Len(b) : b[j] \in Table["page"] /\ WantedWith(filter, x, b[j])
    BY <1>2
  <2>4. \A ref \in Table["page"] : WantedWith(filter, x, ref) =>
           (\E k \in 1 .. Len(a) : a[k] = ref) /\ (\E k \in 1 .. Len(b) : b[k] = ref)
    BY <1>2
  <2>5. Within(a, b)
    BY <2>2, <2>4 DEF Within
  <2>6. Within(b, a)
    BY <2>3, <2>4 DEF Within
  <2> QED BY <2>1, <2>5, <2>6
<1>4. a = b
  <2>1. Len(a) <= Len(b) /\ Alike(a, b, Len(a)) /\ Len(b) <= Len(a)
    BY <1>3, FallingPrefix
  <2>2. Len(a) = Len(b) /\ \A i \in 1 .. Len(a) : a[i] = b[i]
    <3>1. Len(a) = Len(b)
      BY <1>3, <2>1
    <3> QED BY <2>1, <3>1 DEF Alike
  <2> QED BY ONLY <1>3, <2>2
<1>5. \A list \in Listings : Len(list) = Cardinality(Table["page"])
  <2> SUFFICES ASSUME NEW list \in Listings PROVE Len(list) = Cardinality(Table["page"])
    OBVIOUS
  <2>1. Len(list) \in Nat /\ DOMAIN list = 1 .. Len(list)
    BY <1>1
  <2>2. list \in [1 .. Len(list) -> Table["page"]]
    <3>1. list \in Seq(Refs) /\ \A i \in 1 .. Len(list) : list[i] \in Table["page"]
      BY <1>1
    <3>2. PICK n \in Nat : n = Len(list) /\ list \in [1 .. n -> Refs]
      BY <3>1
    <3> QED BY ONLY <3>1, <3>2
  <2>3. list \in Bijection(1 .. Len(list), Table["page"])
    BY <1>1, <2>1, <2>2 DEF Bijection, Injection, Surjection, IsInjective
  <2> QED BY <2>1, <2>3, FS_CountingElements DEF ExistsBijection
<1> QED BY <1>4, <1>5 DEF WantedRows

\* What PagesPartition asks of the pages of one search.
PagesGood(filter, x, perPage) ==
    LET Wants(ref) == WantedWith(filter, x, ref)
        wanted(rows) == SelectAt(rows, {i \in DOMAIN rows : Wants(rows[i])})
        page(rows, p) == SearchPage(filter, x, rows, p, perPage)
        results == [rows \in Listings |->
                      [p \in 1 .. Len(rows) + 1 |-> page(rows, p).results]]
        untied == \A a, b \in Table["page"] :
                     Wants(a) /\ Wants(b) /\ a.created = b.created => a = b
    IN \A rows \in Listings :
       /\ FlattenSeq(results[rows]) = wanted(rows)
       /\ \A p \in -1 .. 0 : page(rows, p) = page(rows, 1)
       /\ page(rows, 1).total = Len(wanted(rows))
       /\ untied => \A other \in Listings : results[other] = results[rows]

\* The pages of a search are its result, in any order when nothing is tied.
LEMMA PagesAreGood ==
    ASSUME NEW filter, filter \in Accepted("page"), NEW x \in Inputs, Literal(x.name),
           NEW perPage \in Int
    PROVE  PagesGood(filter, x, perPage)
<1>3. /\ filter = NotGiven \/ filter \in FilterOf[Levels]
      /\ filter = NotGiven \/ filter \in FilterOf[MaxDepth]
  <2>1. filter \in Opt(Filters["page"])
    BY DEF Accepted, Opt
  <2> QED BY <2>1, FilterAsked
<1>4. \A rows \in Listings : rows \in Seq(Refs)
  BY SearchAssumption
<1>5. x \in Inputs /\ Literal(x.name) /\ perPage \in Int
  OBVIOUS
<1> DEFINE Wants(ref) == WantedWith(filter, x, ref)
           untied == \A a, b \in Table["page"] :
                        Wants(a) /\ Wants(b) /\ a.created = b.created => a = b
<1>6. ASSUME NEW rows \in Listings
      PROVE  /\ FlattenSeq(PageList(filter, x, rows, perPage)) = WantedRows(filter, x, rows)
             /\ \A p \in -1 .. 0 : SearchPage(filter, x, rows, p, perPage)
                                 = SearchPage(filter, x, rows, 1, perPage)
             /\ SearchPage(filter, x, rows, 1, perPage).total = Len(WantedRows(filter, x, rows))
  <2>1. rows \in Seq(Refs)
    BY <1>4
  <2> QED BY ONLY <1>3, <1>5, <2>1, PagesOf
<1>7. ASSUME NEW rows \in Listings, NEW other \in Listings, untied
      PROVE  PageList(filter, x, other, perPage) = PageList(filter, x, rows, perPage)
  <2>1. WantedRows(filter, x, rows) = WantedRows(filter, x, other) /\ Len(rows) = Len(other)
    BY <1>7, UntiedSame
  <2>2. rows \in Seq(Refs) /\ other \in Seq(Refs)
    BY <1>4
  <2>3. ASSUME NEW list \in Seq(Refs), NEW p \in 1 .. Len(list) + 1
        PROVE  SearchPage(filter, x, list, p, perPage).results =
                 SubSeq(WantedRows(filter, x, list), Offset(p, perPage) + 1,
                        IF Offset(p, perPage) + PageSize(perPage) <= Len(WantedRows(filter, x, list))
                        THEN Offset(p, perPage) + PageSize(perPage)
                        ELSE Len(WantedRows(filter, x, list)))
    <3>1. p \in Int
      OBVIOUS
    <3> QED BY ONLY <1>3, <1>5, list \in Seq(Refs), <3>1, PageExact
  <2>4. \A p \in 1 .. Len(rows) + 1 : SearchPage(filter, x, other, p, perPage).results
                                   = SearchPage(filter, x, rows, p, perPage).results
    BY <2>1, <2>2, <2>3
  <2> QED BY <2>1, <2>4 DEF PageList
<1> DEFINE page(rows, p) == SearchPage(filter, x, rows, p, perPage)
           wanted(rows) == SelectAt(rows, {i \in DOMAIN rows : Wants(rows[i])})
           results == [rows \in Listings |-> [p \in 1 .. Len(rows) + 1 |-> page(rows, p).results]]
<1>8. \A rows \in Listings : results[rows] = PageList(filter, x, rows, perPage)
  BY DEF PageList
<1>9. \A rows : wanted(rows) = WantedRows(filter, x, rows)
  BY DEF WantedRows
<1> HIDE DEF untied, results, wanted
<1>10. \A rows \in Listings :
          /\ FlattenSeq(results[rows]) = wanted(rows)
          /\ \A p \in -1 .. 0 : page(rows, p) = page(rows, 1)
          /\ page(rows, 1).total = Len(wanted(rows))
          /\ untied => \A other \in Listings : results[other] = results[rows]
  BY <1>6, <1>7, <1>8, <1>9
<1> QED BY <1>10 DEF PagesGood, untied, results, wanted

\* Hence the pages that are asked for fit together.
LEMMA PagesAnswer ==
    ASSUME asked \in Pages
    PROVE  PagesPartition
<1> SUFFICES ASSUME Literal(asked.x.name) PROVE PagesPartition
  BY DEF PagesPartition
<1>1. asked.filter \in Accepted("page") /\ asked.x \in Inputs /\ asked.perPage \in Int
  BY SearchAssumption DEF Pages
<1>2. PagesGood(asked.filter, asked.x, asked.perPage)
  BY <1>1, PagesAreGood
<1> QED BY <1>2 DEF PagesPartition, PagesGood

-----------------------------------------------------------------------------
(* Answers: dashboards                                                     *)

\* The numbers by key add up to all there are.
LEMMA AddsByKey ==
    ASSUME NEW A, IsFiniteSet(A), NEW key, NEW w, DOMAIN w = {key[x] : x \in A},
           NEW part, \A d \in DOMAIN w : \A x : x \in part[d] <=> x \in A /\ key[x] = d,
           \A d \in DOMAIN w : w[d] = Cardinality(part[d])
    PROVE  Adds(w) = Cardinality(A)
<1> DEFINE D == DOMAIN w
           f == [x \in A |-> key[x]]
<1>1. f \in [A -> D] /\ \A d \in D : \E x \in A : f[x] = d
  OBVIOUS
<1> HIDE DEF D, f
<1>2. f \in Surjection(A, D)
  BY <1>1 DEF Surjection
<1>3. IsFiniteSet(D)
  BY <1>2, FS_Surjection
<1>4. \A x \in A : key[x] \in D
  BY DEF D
<1>5. Total(w, D) = Cardinality(A)
  BY <1>3, <1>4, CountParts DEF D
<1> QED BY <1>5 DEF Adds, D

\* The events by bucket and by file add up.
LEMMA AccessAnswer ==
    ASSUME asked \in AccessBoards
    PROVE  DashboardAddsUp
<1>1. asked.op = "accesses" /\ asked.events \in BoundedSeq(EventRows, MaxRows)
  BY DEF AccessBoards
<1>2. PICK d, q : d = asked /\ q = asked.q
  OBVIOUS
<1>3. IsFiniteSet(DOMAIN d.events)
  <2>1. d.events \in UNION {[1 .. m -> EventRows] : m \in 0 .. MaxRows}
    BY <1>1, <1>2 DEF BoundedSeq, SeqOf
  <2>2. PICK m \in 0 .. MaxRows : DOMAIN d.events = 1 .. m
    BY <2>1
  <2>3. 1 \in Int /\ m \in Int
    BY DashboardAssumption
  <2>4. IsFiniteSet(1 .. m)
    BY <2>3, FS_Interval
  <2> QED BY <2>2, <2>4
<1> DEFINE E == Events(d, q)
<1>4. IsFiniteSet(E)
  <2>1. E \in SUBSET DOMAIN d.events
    BY DEF Events
  <2> QED BY <1>3, <2>1, FS_Subset
<1> HIDE DEF E
<1>5. Adds(AccessTimeline(d, q)) = Cardinality(E)
  <2> DEFINE key == [i \in E |-> Bucket(d.events[i].created)]
             w == AccessTimeline(d, q)
             D == {Bucket(d.events[i].created) : i \in E}
             part == [b \in D |-> {i \in E : Bucket(d.events[i].created) = b}]
  <2>1. w = [b \in D |-> Cardinality({i \in E : Bucket(d.events[i].created) = b})]
    BY DEF AccessTimeline, E
  <2>2. DOMAIN w = D /\ D = {key[i] : i \in E}
    BY <2>1
  <2>3. \A b \in D : w[b] = Cardinality(part[b])
    BY <2>1
  <2>4. \A b \in D : \A i : i \in part[b] <=> i \in E /\ key[i] = b
    OBVIOUS
  <2> HIDE DEF key, w, part, D
  <2>5. Adds(w) = Cardinality(E)
    BY <1>4, <2>2, <2>3, <2>4, AddsByKey
  <2> QED BY <2>5 DEF w
<1>6. Adds(TopAccessed(d, q)) = Cardinality(E)
  <2> DEFINE key == [i \in E |-> d.events[i].file]
             w == TopAccessed(d, q)
             D == {d.events[i].file : i \in E}
             part == [b \in D |-> {i \in E : d.events[i].file = b}]
  <2>1. w = [b \in D |-> Cardinality({i \in E : d.events[i].file = b})]
    BY DEF TopAccessed, E
  <2>2. DOMAIN w = D /\ D = {key[i] : i \in E}
    BY <2>1
  <2>3. \A b \in D : w[b] = Cardinality(part[b])
    BY <2>1
  <2>4. \A b \in D : \A i : i \in part[b] <=> i \in E /\ key[i] = b
    OBVIOUS
  <2> HIDE DEF key, w, part, D
  <2>5. Adds(w) = Cardinality(E)
    BY <1>4, <2>2, <2>3, <2>4, AddsByKey
  <2> QED BY <2>5 DEF w
<1> QED BY <1>1, <1>2, <1>5, <1>6 DEF DashboardAddsUp, E

\* The tasks by bucket add up.
LEMMA TasksAnswer ==
    ASSUME asked \in TaskBoards
    PROVE  DashboardAddsUp
<1>1. asked.op = "tasks" /\ asked.tasks \in BoundedSeq(TaskRows, MaxRows)
  BY DEF TaskBoards
<1>2. PICK d, q : d = asked /\ q = asked.q
  OBVIOUS
<1>3. IsFiniteSet(DOMAIN d.tasks)
  <2>1. d.tasks \in UNION {[1 .. m -> TaskRows] : m \in 0 .. MaxRows}
    BY <1>1, <1>2 DEF BoundedSeq, SeqOf
  <2>2. PICK m \in 0 .. MaxRows : DOMAIN d.tasks = 1 .. m
    BY <2>1
  <2>3. 1 \in Int /\ m \in Int
    BY DashboardAssumption
  <2>4. IsFiniteSet(1 .. m)
    BY <2>3, FS_Interval
  <2> QED BY <2>2, <2>4
<1>4. ASSUME NEW status
      PROVE  Adds(SyncTrend(d, q, status)) = Cardinality(Recent(d, q, TasksOf(d, q, status)))
  <2> DEFINE E == Recent(d, q, TasksOf(d, q, status))
             key == [i \in E |-> Bucket(d.tasks[i].created)]
             w == SyncTrend(d, q, status)
             D == {Bucket(d.tasks[i].created) : i \in E}
             part == [b \in D |-> {i \in E : Bucket(d.tasks[i].created) = b}]
  <2>1. IsFiniteSet(E)
    <3>1. E \in SUBSET DOMAIN d.tasks
      BY DEF Recent, TasksOf
    <3> QED BY <1>3, <3>1, FS_Subset
  <2>2. w = [b \in D |-> Cardinality({i \in E : Bucket(d.tasks[i].created) = b})]
    BY DEF SyncTrend
  <2> HIDE DEF E
  <2>3. DOMAIN w = D /\ D = {key[i] : i \in E}
    BY <2>2
  <2>4. \A b \in D : w[b] = Cardinality(part[b])
    BY <2>2
  <2>5. \A b \in D : \A i : i \in part[b] <=> i \in E /\ key[i] = b
    OBVIOUS
  <2> HIDE DEF key, w, part, D
  <2>6. Adds(w) = Cardinality(E)
    BY <2>1, <2>3, <2>4, <2>5, AddsByKey
  <2> QED BY <2>6 DEF w, E
<1> QED BY <1>1, <1>2, <1>4 DEF DashboardAddsUp

\* The files and uploads by type, storage and bucket add up.
LEMMA UploadsAnswer ==
    ASSUME asked \in UploadBoards
    PROVE  DashboardAddsUp
<1>1. /\ asked.op = "uploads" /\ asked.q \in Filter /\ asked.copies \subseteq Copies
      /\ asked.refs \subseteq UploadRows
  BY DEF UploadBoards, kSubset
<1>2. PICK d, q : d = asked /\ q = asked.q
  OBVIOUS
<1> DEFINE U == UploadsIn(d, q)
           up == {r.file : r \in U}
           F == FilesIn(d, q)
           line == UploadTimeline(d, q)
           rows == ByStorage(d, q)
           CopiedTo(s) == {c.file : c \in {x \in d.copies :
              x.storage = s /\ x.status = "synced" /\ \E r \in InPeriod(d.refs, q) : r.file = x.file}}
<1>3. \A r \in InPeriod(d.refs, q) : r \in d.refs /\ r.file \in DashFiles /\ r.created \in 1 .. Period
  BY <1>1, <1>2 DEF InPeriod, UploadRows
<1>4. up \in SUBSET DashFiles /\ F \in SUBSET DashFiles
  BY <1>3 DEF UploadsIn, FilesIn
<1>5. IsFiniteSet(up) /\ IsFiniteSet(F)
  BY <1>4, FS_Subset, DashboardAssumption
<1>6. F \in SUBSET up
  BY DEF FilesIn, UploadsIn, If
<1>7. Cardinality(F) <= Cardinality(up)
  <2> HIDE DEF F, up
  <2> QED BY <1>5, <1>6, FS_Subset
<1>8. Adds(ByContentType(d, q)) = Cardinality(F)
  <2> DEFINE w == ByContentType(d, q)
             D == {d.types[f] : f \in F}
             part == [t \in D |-> {f \in F : d.types[f] = t}]
             key == [f \in F |-> d.types[f]]
  <2>1. w = [t \in D |-> Cardinality({f \in F : d.types[f] = t})]
    BY DEF ByContentType
  <2> HIDE DEF F
  <2>2. DOMAIN w = D /\ D = {key[f] : f \in F}
    BY <2>1
  <2>3. \A t \in D : w[t] = Cardinality(part[t])
    BY <2>1
  <2>4. \A t \in D : \A f : f \in part[t] <=> f \in F /\ key[f] = t
    OBVIOUS
  <2> HIDE DEF key, w, part, D
  <2>5. Adds(w) = Cardinality(F)
    BY <1>5, <2>2, <2>3, <2>4, AddsByKey
  <2> QED BY <2>5 DEF w
<1>9. \A s \in DOMAIN rows : rows[s] = Cardinality(CopiedTo(s))
  BY DEF ByStorage
<1>10. ASSUME q.storage = NotGiven
       PROVE  /\ Cardinality(F) = Cardinality(up)
              /\ \A s \in DOMAIN rows : rows[s] <= Cardinality(F)
  <2>1. F = up
    BY <1>3, <1>10 DEF FilesIn, UploadsIn, If
  <2>2. \A s : CopiedTo(s) \in SUBSET F
    BY <1>3, <1>10 DEF FilesIn, If
  <2> HIDE DEF F, up, CopiedTo, rows
  <2>3. \A s : Cardinality(CopiedTo(s)) <= Cardinality(F)
    BY <1>5, <2>2, FS_Subset
  <2> QED BY <1>9, <2>1, <2>3
<1>11. ASSUME q.storage # NotGiven
       PROVE  rows[q.storage] = Cardinality(F)
  <2>1. q.storage \in DOMAIN rows
    BY <1>11 DEF ByStorage
  <2>2. CopiedTo(q.storage) = F
    <3>1. CopiedTo(q.storage) \subseteq F
      BY <1>3, <1>11 DEF FilesIn, If
    <3>2. F \subseteq CopiedTo(q.storage)
      BY <1>11 DEF FilesIn, If
    <3> QED BY <3>1, <3>2
  <2> HIDE DEF F, CopiedTo, rows
  <2> QED BY <1>9, <2>1, <2>2
<1> DEFINE D == Buckets(U)
           Of(b) == {r.file : r \in {x \in U : Bucket(x.created) = b}}
<1>12. line = [b \in D |-> Cardinality(Of(b))]
  BY DEF UploadTimeline
<1>13. IsFiniteSet(D)
  <2>1. \A r \in U : r.created \in 1 .. Period
    BY <1>3 DEF UploadsIn
  <2>2. \A t \in 1 .. Period : Bucket(t) \in 0 .. Period
    BY DashboardAssumption DEF Bucket, Day
  <2>3. D \in SUBSET (0 .. Period)
    BY <2>1, <2>2 DEF Buckets
  <2>4. IsFiniteSet(0 .. Period)
    BY FS_Interval, DashboardAssumption
  <2> HIDE DEF D
  <2> QED BY <2>3, <2>4, FS_Subset
<1>14. ASSUME NEW b \in D
       PROVE  /\ Of(b) \in SUBSET up /\ IsFiniteSet(Of(b)) /\ Of(b) # {}
              /\ Cardinality(Of(b)) \in 1 .. Cardinality(up)
  <2>1. Of(b) \in SUBSET up /\ Of(b) # {}
    BY DEF Buckets
  <2> HIDE DEF Of, up
  <2>2. IsFiniteSet(Of(b)) /\ Cardinality(Of(b)) <= Cardinality(up)
    BY <1>5, <2>1, FS_Subset
  <2>3. Cardinality(Of(b)) \in Nat /\ Cardinality(up) \in Nat
    BY <1>5, <2>2, FS_CardinalityType
  <2>4. Cardinality(Of(b)) # 0
    BY <2>1, <2>2, FS_EmptySet
  <2> QED BY <2>1, <2>2, <2>3, <2>4
<1>15. Cardinality(up) <= Adds(line)
  <2> DEFINE rowof == [f \in up |-> CHOOSE r \in U : r.file = f]
             key == [f \in up |-> Bucket(rowof[f].created)]
             part == [b \in D |-> {f \in up : key[f] = b}]
             each == [b \in D |-> Cardinality(part[b])]
  <2>1. \A f \in up : rowof[f] \in U /\ rowof[f].file = f
    OBVIOUS
  <2> HIDE DEF rowof
  <2>2. \A f \in up : key[f] \in D /\ f \in Of(key[f])
    BY <2>1 DEF Buckets
  <2>3. \A b \in D : \A f : f \in part[b] <=> f \in up /\ key[f] = b
    OBVIOUS
  <2>4. \A b \in D : each[b] = Cardinality(part[b])
    OBVIOUS
  <2> HIDE DEF key, part, each, up, D, Of
  <2>5. Total(each, D) = Cardinality(up)
    BY <1>5, <1>13, <2>2, <2>3, <2>4, CountParts
  <2>6. ASSUME NEW b \in D
        PROVE  each[b] \in Nat /\ line[b] \in Nat /\ each[b] <= line[b]
    <3>1. part[b] \in SUBSET Of(b)
      BY <2>2, <2>3
    <3>2. IsFiniteSet(part[b]) /\ Cardinality(part[b]) <= Cardinality(Of(b))
      BY <1>14, <3>1, FS_Subset
    <3>3. Cardinality(part[b]) \in Nat /\ Cardinality(Of(b)) \in Nat
      BY <1>14, <3>2, FS_CardinalityType
    <3>4. line[b] = Cardinality(Of(b))
      BY <1>12
    <3> QED BY <2>4, <3>2, <3>3, <3>4
  <2> HIDE DEF line
  <2>7. Total(each, D) <= Total(line, D)
    BY <1>13, <2>6, TotalMost
  <2>8. DOMAIN line = D
    BY <1>12
  <2> QED BY <2>5, <2>7, <2>8 DEF Adds
<1>16. \A b \in DOMAIN line : line[b] \in 1 .. Cardinality(up)
  <2> HIDE DEF D, Of, up, line
  <2> QED BY <1>12, <1>14
<1>17. UploadTotal(d, q) = Cardinality(up)
  BY DEF UploadTotal
<1> HIDE DEF up, F, line, rows
<1>18. /\ Cardinality(F) <= UploadTotal(d, q)
       /\ IF q.storage = NotGiven
          THEN /\ Cardinality(F) = UploadTotal(d, q)
               /\ \A s \in DOMAIN rows : rows[s] <= Cardinality(F)
          ELSE rows[q.storage] = Cardinality(F)
       /\ UploadTotal(d, q) <= Adds(line) /\ \A b \in DOMAIN line : line[b] \in 1 .. UploadTotal(d, q)
  BY <1>7, <1>10, <1>11, <1>15, <1>16, <1>17
<1> QED BY <1>1, <1>2, <1>8, <1>18 DEF DashboardAddsUp, F, line, rows

-----------------------------------------------------------------------------
(* Answers: the theorem                                                    *)

\* The questions there are.
Question ==
    \/ asked = Nothing
    \/ asked \in Searches \/ asked \in BulkDeletes \/ asked \in Pages \/ asked \in Summaries
    \/ asked \in Archives
    \/ asked \in UploadBoards \/ asked \in AccessBoards \/ asked \in TaskBoards

\* Whatever is asked is answered.
LEMMA EveryAnswer ==
    ASSUME Question
    PROVE  AnswersExact /\ PagesPartition /\ DashboardAddsUp
<1> DEFINE Ops == {"nothing", "search", "delete", "page", "summary", "archive", "uploads",
                     "accesses", "tasks"}
<1>1. /\ asked.op \in Ops
      /\ asked.op = "search" => asked \in Searches
      /\ asked.op = "delete" => asked \in BulkDeletes
      /\ asked.op = "page" => asked \in Pages
      /\ asked.op = "summary" => asked \in Summaries
      /\ asked.op = "archive" => asked \in Archives
      /\ asked.op = "uploads" => asked \in UploadBoards
      /\ asked.op = "accesses" => asked \in AccessBoards
      /\ asked.op = "tasks" => asked \in TaskBoards
  BY DEF Question, Nothing, Searches, BulkDeletes, Pages, Summaries, Archives, UploadBoards,
     AccessBoards, TaskBoards
<1>2. SearchExact
  BY <1>1, SearchAnswer DEF SearchExact
<1>3. BulkExact
  BY <1>1, BulkAnswer DEF BulkExact
<1>4. SummaryExact
  BY <1>1, SummaryAnswer DEF SummaryExact
<1>5. EntriesDistinct
  BY <1>1, ArchiveAnswer DEF EntriesDistinct
<1>6. PagesPartition
  BY <1>1, PagesAnswer DEF PagesPartition
<1>7. DashboardAddsUp
  BY <1>1, UploadsAnswer, AccessAnswer, TasksAnswer DEF DashboardAddsUp
<1> QED BY <1>2, <1>3, <1>4, <1>5, <1>6, <1>7 DEF AnswersExact

LEMMA Questions == AskSpec => []Question
<1>1. NothingAsked => Question
  BY DEF NothingAsked, Question
<1>2. ASSUME Question, [Ask \/ AskDashboard]_asked
      PROVE  Question'
  <2>1. CASE Ask
    BY <2>1 DEF Ask, Question
  <2>2. CASE AskDashboard
    BY <2>2 DEF AskDashboard, Question
  <2>3. CASE UNCHANGED asked
    BY <1>2, <2>3 DEF Question
  <2> QED BY <1>2, <2>1, <2>2, <2>3
<1> QED BY <1>1, <1>2, PTL DEF AskSpec

\* Every question is answered with what it asked for: searches by names without
\* wildcards, bulk deletes and their previews, summaries and archives, for any keys,
\* values, names and times, any filters nested to any depth and any tables
\* (compile_inner, build_bulk_delete_clause, search_by_metadata, search_summary,
\* bulk_download).
THEOREM AnswersSafe == AskSpec => []AnswersExact
<1>1. Question => AnswersExact
  BY EveryAnswer
<1> QED BY <1>1, Questions, PTL

\* The pages cut from one order of the rows are the result of the search, for any size
\* of page and any table; and any order gives the same pages when no two of the rows
\* that are wanted were uploaded at the same time (search_by_metadata).
THEOREM PagesSafe == AskSpec => []PagesPartition
<1>1. Question => PagesPartition
  BY EveryAnswer
<1> QED BY <1>1, Questions, PTL

\* The numbers of a dashboard add up, for any tables and any filter (DashboardStats).
THEOREM DashboardSafe == AskSpec => []DashboardAddsUp
<1>1. Question => DashboardAddsUp
  BY EveryAnswer
<1> QED BY <1>1, Questions, PTL
=============================================================================
