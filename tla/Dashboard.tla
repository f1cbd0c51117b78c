----------------------------- MODULE Dashboard -----------------------------
(***************************************************************************)
(* The numbers of the admin's dashboard: each is a query of its own over   *)
(* the file references, copies, access events and sync tasks, filtered by  *)
(* the start of the period, a project and a storage (src/db/models.rs,     *)
(* src/api/dashboard.rs). The tables here have no more files, and so no    *)
(* more types, than the breakdowns list, and all files have the same size. *)
(***************************************************************************)
EXTENDS Search

CONSTANTS
    DashFiles, DashProjects, DashStorages,  \* what a dashboard counts
    Outside,        \* another project, another storage
    Period,         \* the last moment a row may be from
    MaxRows,        \* bound: rows of a table
    TopN            \* the length of the breakdowns, 10 in the code

ASSUME DashboardAssumption ==
    /\ IsFiniteSet(DashFiles) /\ Cardinality(DashFiles) <= TopN
    /\ Period \in Nat /\ MaxRows \in Nat
    /\ NotGiven \notin DashProjects \cup DashStorages

Copies == [file : DashFiles, storage : DashStorages, status : {"pending", "synced"}]
UploadRows == [file : DashFiles, project : DashProjects \cup {Outside}, created : 1 .. Period]
EventRows == [file : DashFiles, project : DashProjects \cup {Outside},
              storage : DashStorages \cup {Outside}, created : 1 .. Period]
TaskRows == [project : DashProjects \cup {Outside}, from : DashStorages \cup {Outside},
             to : {Outside}, status : {"pending", "failed", "completed"},
             created : 1 .. Period]

\* q.start, and q.project and q.storage, which may be left out.
Filter == [start : 1 .. Period, project : Opt(DashProjects), storage : Opt(DashStorages)]

\* The references, and the events, of the period and the project.
InPeriod(rows, q) ==
    {r \in rows : r.created >= q.start /\ If(q.project, r.project = q.project)}

\* resolve_period: a bucket is a day, a week or a month, and the period may
\* begin in the middle of one.
Bucket(time) == Day(time)
Buckets(rows) == {Bucket(r.created) : r \in rows}

\* totals: files of the period with a synced copy on the storage; uploads:
\* files of the period with any copy on it.
FilesIn(d, q) ==
    {f \in DashFiles : /\ \E r \in InPeriod(d.refs, q) : r.file = f
                       /\ If(q.storage, \E c \in d.copies :
                                c.file = f /\ c.storage = q.storage /\ c.status = "synced")}
UploadsIn(d, q) ==
    {r \in InPeriod(d.refs, q) :
        If(q.storage, \E c \in d.copies : c.file = r.file /\ c.storage = q.storage)}
UploadTotal(d, q) == Cardinality({r.file : r \in UploadsIn(d, q)})

\* upload_timeline: a file counts once in a bucket.
UploadTimeline(d, q) ==
    [b \in Buckets(UploadsIn(d, q)) |->
        Cardinality({r.file : r \in {x \in UploadsIn(d, q) : Bucket(x.created) = b}})]

\* by_content_type: the type of a file is d.types of it.
ByContentType(d, q) ==
    [t \in {d.types[f] : f \in FilesIn(d, q)} |->
        Cardinality({f \in FilesIn(d, q) : d.types[f] = t})]

\* Mutant of ByStorage: copies count before they are synced.
ByStorage_AnyStatus(d, q) ==
    [s \in IF q.storage = NotGiven THEN DashStorages ELSE {q.storage} |->
        Cardinality({c.file : c \in {x \in d.copies :
            x.storage = s /\ \E r \in InPeriod(d.refs, q) : r.file = x.file}})]

\* by_storage: every storage, or the one that is asked for.
ByStorage(d, q) ==
    [s \in IF q.storage = NotGiven THEN DashStorages ELSE {q.storage} |->
        Cardinality({c.file : c \in {x \in d.copies :
            x.storage = s /\ x.status = "synced" /\ \E r \in InPeriod(d.refs, q) : r.file = x.file}})]

\* Accesses: an event is a row, two may look the same.
Events(d, q) == {i \in DOMAIN d.events :
    d.events[i] \in InPeriod(ToSet(d.events), q) /\ If(q.storage, d.events[i].storage = q.storage)}
AccessTimeline(d, q) ==
    [b \in {Bucket(d.events[i].created) : i \in Events(d, q)} |->
        Cardinality({i \in Events(d, q) : Bucket(d.events[i].created) = b})]
TopAccessed(d, q) ==
    [f \in {d.events[i].file : i \in Events(d, q)} |->
        Cardinality({i \in Events(d, q) : d.events[i].file = f})]

\* Tasks: the storage may be the source or the target.
TasksOf(d, q, status) == {i \in DOMAIN d.tasks :
    /\ d.tasks[i].status = status
    /\ If(q.project, d.tasks[i].project = q.project)
    /\ If(q.storage, q.storage \in {d.tasks[i].from, d.tasks[i].to})}
Recent(d, q, tasks) == {i \in tasks : d.tasks[i].created >= q.start}
SyncTrend(d, q, status) ==
    LET rows == Recent(d, q, TasksOf(d, q, status)) IN
    [b \in {Bucket(d.tasks[i].created) : i \in rows} |->
        Cardinality({i \in rows : Bucket(d.tasks[i].created) = b})]

-----------------------------------------------------------------------------
(* Any table and any filter of the instance                                *)

UploadBoards == [op : {"uploads"}, q : Filter, copies : SUBSET Copies,
                 types : [DashFiles -> DashFiles],
                 refs : UNION {kSubset(k, UploadRows) : k \in 0 .. MaxRows}]
AccessBoards == [op : {"accesses"}, q : Filter, events : BoundedSeq(EventRows, MaxRows)]
TaskBoards == [op : {"tasks"}, q : Filter, tasks : BoundedSeq(TaskRows, MaxRows)]

AskDashboard ==
    /\ asked = Nothing
    /\ \/ \E b \in UploadBoards :
            /\ \A c, e \in b.copies :  \* unique
                  c.file = e.file /\ c.storage = e.storage => c = e
            /\ asked' = b
       \/ asked' \in AccessBoards
       \/ asked' \in TaskBoards

\* One question, to the searches or to the dashboard.
AskSpec == NothingAsked /\ [][Ask \/ AskDashboard]_asked

Adds(numbers) == Total(numbers, DOMAIN numbers)

\* Taken from one state of the tables, the parts of a dashboard add up: types,
\* events by bucket and by file, and tasks by bucket, to their totals; the row
\* of the selected storage is the total. Files with copies that are not synced
\* are uploads and not files, and a file that comes again in another bucket is
\* one upload (DashboardStats).
DashboardAddsUp ==
    /\ asked.op = "uploads" =>
         LET total == UploadTotal(asked, asked.q)
             files == Cardinality(FilesIn(asked, asked.q))
             line == UploadTimeline(asked, asked.q)
             rows == ByStorage(asked, asked.q)
         IN /\ files <= total
            /\ Adds(ByContentType(asked, asked.q)) = files
            /\ IF asked.q.storage = NotGiven
               THEN files = total /\ \A s \in DOMAIN rows : rows[s] <= files
               ELSE rows[asked.q.storage] = files
            /\ total <= Adds(line) /\ \A b \in DOMAIN line : line[b] \in 1 .. total
    /\ asked.op = "accesses" =>
         LET total == Cardinality(Events(asked, asked.q))
         IN Adds(AccessTimeline(asked, asked.q)) = total /\ Adds(TopAccessed(asked, asked.q)) = total
    /\ asked.op = "tasks" =>
         \A status \in {"pending", "failed", "completed"} :
            Adds(SyncTrend(asked, asked.q, status))
               = Cardinality(Recent(asked, asked.q, TasksOf(asked, asked.q, status)))
=============================================================================
