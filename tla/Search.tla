------------------------------- MODULE Search -------------------------------
(***************************************************************************)
(* The searches over the file references of a project: how a filter, the   *)
(* extra conditions and a page become a WHERE clause with numbered         *)
(* parameters and a list of arguments, for searching and for bulk deletes  *)
(* (src/db/models.rs, src/api/files.rs), against what the filter means.    *)
(*                                                                         *)
(* A clause is what the database makes of it: for each list of arguments,  *)
(* the rows it holds for; it names its parameters by number, and an        *)
(* argument carries its type. Metadata is flat (validate_flat_metadata),   *)
(* so that "metadata @> {key: value}" holds when key has that value.       *)
(***************************************************************************)
EXTENDS Integers, Sequences, FiniteSetsExt, SequencesExt

CONSTANTS
    Keys, Values,   \* of the metadata
    Names,          \* strings, upper and lower case the same
    LooksLike,      \* LooksLike[n]: the strings that ILIKE takes n for; _ and % stand for any
    Times,          \* upload times, access times and sizes
    Moments,        \* bound: the times and sizes that are asked for
    NotGiven,       \* an optional input that is left out, a NULL, a missing key
    Project,        \* the project that is searched
    MaxDepth,       \* MAX_DEPTH, 32 in the code
    MaxPage,        \* the largest page, 100 in the code
    MaxFiles,       \* BULK_DOWNLOAD_MAX_FILES, 500 in the code
    MaxBytes,       \* BULK_DOWNLOAD_MAX_BYTES
    Levels,         \* bound: how deep a filter that is asked may be
    Filters,        \* Filters[op]: the filters that are asked
    EntryNames,     \* the names of the files of an archive
    Table,          \* Table[op]: the rows that are asked for
    Listings        \* bound: the orders that the query of a page puts its rows in

Json(k, v) == [type |-> "json", key |-> k, value |-> v]
Arg(type, v) == [type |-> type, value |-> v]
Refused == [refused |-> TRUE]

Params == [type : {"json"}, key : Keys, value : Values]
Args == Params \cup [type : {"project"}, value : {Project}]
               \cup [type : {"text"}, value : Names]
               \cup [type : {"time", "size"}, value : Times]
               \cup [type : {"limit", "offset"}, value : Nat]

Opt(S) == S \cup {NotGiven}
Refs == [id : Nat, project : Opt({Project}), meta : [Keys -> Opt(Values)],
         name : SUBSET Names,  \* the strings that the file's name contains
         created : Times, size : Times, accessed : SUBSET Opt(Times)]

\* ORDER BY created_at DESC: what was uploaded at the same time comes in any order.
NewestFirst(rows) == \A i, j \in DOMAIN rows : i < j => rows[i].created >= rows[j].created

-----------------------------------------------------------------------------
(* Filters, and the clause each is compiled to                             *)

Leaf(k, v) == [kind |-> "leaf", key |-> k, value |-> v]
Node(kind, fs) == [kind |-> kind, of |-> fs]

\* The filters of up to n levels.
Deeper(fs) == [kind : {"leaf"}, key : Keys, value : Values]
                \cup [kind : {"and", "or"}, of : Seq(fs)]
                \cup [kind : {"not"}, of : [1 .. 1 -> fs]]
FilterOf[n \in 0 .. Levels] == IF n = 0 THEN {} ELSE Deeper(FilterOf[n - 1])

ASSUME SearchAssumption ==
    /\ MaxDepth \in 1 .. Levels /\ Levels \in Nat
    /\ MaxPage \in Nat \ {0} /\ MaxFiles \in Nat /\ MaxBytes \in Nat
    /\ Times \subseteq Nat /\ Moments \subseteq Times
    /\ NotGiven \notin Times \cup Values \cup Names
    /\ LooksLike \in [Names -> SUBSET Names]
    /\ \A op \in {"search", "delete", "page", "summary"} :
          Filters[op] \subseteq FilterOf[Levels] /\ NotGiven \notin Filters[op]
    /\ \A op \in {"search", "delete", "summary", "page"} : Table[op] \subseteq Refs
    /\ IsFiniteSet(Table["summary"])
    /\ Listings \subseteq Seq(Refs)
    /\ \A rows \in Listings :
          IsInjective(rows) /\ ToSet(rows) = Table["page"] /\ NewestFirst(rows)
    /\ EntryNames \subseteq Seq(Nat)

Is(args, n, type) == n \in 1 .. Len(args) /\ args[n].type = type

\* "metadata @> $n"
MetaContains(n) ==
    [args \in Seq(Args) |->
        {ref \in Refs : Is(args, n, "json") /\ ref.meta[args[n].key] = args[n].value}]

\* The parts, with AND or OR between them, or NOT before the only one.
Joined(kind, parts) ==
    [args \in Seq(Args) |->
        {ref \in Refs :
            \/ kind = "and" /\ \A i \in DOMAIN parts : ref \in parts[i][args]
            \/ kind = "or" /\ \E i \in DOMAIN parts : ref \in parts[i][args]
            \/ kind = "not" /\ ref \notin parts[1][args]}]

\* One more part, after what was compiled before it.
AddPart(compile, f, before, next, depth) ==
    IF before = Refused THEN Refused
    ELSE LET part == compile[<<f, next + Len(before.params), depth>>] IN
         IF part = Refused THEN Refused
         ELSE [sql |-> Append(before.sql, part.sql), params |-> before.params \o part.params]

\* Mutant of CompileParts: the parameters of the parts before are not counted.
CompileParts_SameStart(compile, fs, next, depth) ==
    LET parts[i \in 0 .. Len(fs)] ==
          IF i = 0 THEN [sql |-> <<>>, params |-> <<>>]
          ELSE IF parts[i - 1] = Refused THEN Refused
          ELSE LET part == compile[<<fs[i], next, depth>>] IN
               IF part = Refused THEN Refused
               ELSE [sql |-> Append(parts[i - 1].sql, part.sql),
                     params |-> parts[i - 1].params \o part.params]
    IN parts[Len(fs)]

\* The parts of a conjunction or disjunction, with next_param going through.
CompileParts(compile, fs, next, depth) ==
    LET parts[i \in 0 .. Len(fs)] ==
          IF i = 0 THEN [sql |-> <<>>, params |-> <<>>]
          ELSE AddPart(compile, fs[i], parts[i - 1], next, depth)
    IN parts[Len(fs)]

\* compile_inner, for the filter, next_param and depth, when compile does it for
\* the parts.
CompileNode(compile, f, next, depth) ==
    IF depth >= MaxDepth THEN Refused
    ELSE IF f.kind = "leaf"
         THEN [sql |-> MetaContains(next), params |-> <<Json(f.key, f.value)>>]
         ELSE LET parts == CompileParts(compile, f.of, next, depth + 1) IN
              IF parts = Refused THEN Refused
              ELSE [sql |-> Joined(f.kind, parts.sql), params |-> parts.params]

CompileInner[n \in 0 .. Levels] ==
    IF n = 0 THEN <<>>
    ELSE [x \in FilterOf[n] \X Nat \X Nat |->
            CompileNode(CompileInner[n - 1], x[1], x[2], x[3])]

\* No filter is TRUE, which is what an empty conjunction becomes.
True == [sql |-> Joined("and", <<>>), params |-> <<>>]
Compile(filter, start) ==
    IF filter = NotGiven THEN True ELSE CompileInner[Levels][<<filter, start, 0>>]

-----------------------------------------------------------------------------
(* The conditions that come with the filter, in the order they are bound   *)

\* The elements of s at the positions in at, in their order.
SelectAt(s, at) ==
    LET select[i \in 0 .. Len(s)] ==
          IF i = 0 THEN <<>>
          ELSE IF i \in at THEN Append(select[i - 1], s[i]) ELSE select[i - 1]
    IN select[Len(s)]

Input(op, type, v) == [op |-> op, type |-> type, value |-> v]
Given(inputs) == SelectAt(inputs, {i \in DOMAIN inputs : inputs[i].value # NotGiven})

\* What the condition op says of a row and its argument v.
Meets(op, ref, v) ==
    \/ op = "named" /\ \E n \in LooksLike[v] : n \in ref.name  \* ILIKE '%v%'
    \/ op = "since" /\ ref.created >= v
    \/ op = "until" /\ ref.created <= v
    \/ op = "earlier" /\ ref.created < v
    \/ op = "later" /\ ref.created > v
    \/ op = "atLeast" /\ ref.size >= v
    \/ op = "atMost" /\ ref.size <= v
    \/ op = "unused" /\ ~\E a \in ref.accessed : a = NotGiven \/ a >= v
Condition(op, type, n) ==
    [args \in Seq(Args) |->
        {ref \in Refs : Is(args, n, type) /\ Meets(op, ref, args[n].value)}]

\* One numbered condition for each input that is given, and its argument.
Clause(inputs, start) ==
    [i \in 1 .. Len(Given(inputs)) |->
        Condition(Given(inputs)[i].op, Given(inputs)[i].type, start + i - 1)]
NextParam(inputs, start) == start + Len(Given(inputs))
Bind(inputs) ==
    [i \in 1 .. Len(Given(inputs)) |-> Arg(Given(inputs)[i].type, Given(inputs)[i].value)]

\* SearchExtras
Extras(x) == <<Input("named", "text", x.name), Input("since", "time", x.after),
               Input("until", "time", x.before)>>

\* BulkDeleteFilters
Bulk(x) == <<Input("earlier", "time", x.before), Input("later", "time", x.after),
             Input("atLeast", "size", x.min), Input("atMost", "size", x.max),
             Input("unused", "time", x.idle)>>

\* The clause after "project_id = $1 AND", and its arguments from $1 on.
Where(filter, inputs) ==
    LET c == Compile(filter, 2) IN
    IF c = Refused THEN Refused
    ELSE [sql |-> Joined("and", <<c.sql>> \o Clause(inputs, Len(c.params) + 2)),
          args |-> <<Arg("project", Project)>> \o c.params \o Bind(inputs)]

Matches(sql, args, ref) == ref.project = args[1].value /\ ref \in sql[args]
Matching(query, refs) == {ref \in refs : Matches(query.sql, query.args, ref)}

\* search_all_for_filter: the references of the project that match.
Found(filter, x, refs) == Matching(Where(filter, Extras(x)), refs)

\* execute_bulk_delete, which an input without any condition does not reach; and
\* what preview_bulk_delete says will go.
Unfiltered(filter, x) == filter = NotGiven /\ Given(Bulk(x)) = <<>>
Deleted(filter, x, refs) ==
    IF Unfiltered(filter, x) THEN {} ELSE Matching(Where(filter, Bulk(x)), refs)
Previewed(filter, x, refs) ==
    IF Unfiltered(filter, x) THEN 0
    ELSE LET query == Where(filter, Bulk(x)) IN
         Quantify(refs, LAMBDA ref : Matches(query.sql, query.args, ref))

\* The page and its size are forced into their range.
PageSize(perPage) == Max({1, Min({perPage, MaxPage})})

\* Mutant of Offset: pages are counted from 0.
Offset_FromZero(page, perPage) == Max({page, 0}) * PageSize(perPage)

Offset(page, perPage) == (Max({page, 1}) - 1) * PageSize(perPage)

\* search_by_metadata: one page of the matching rows, in the order that this query
\* happens to put them, and how many there are; the limit and the offset are the
\* last two parameters.
SearchPage(filter, x, rows, page, perPage) ==
    LET query == Where(filter, Extras(x))
        limit == NextParam(Extras(x), Len(Compile(filter, 2).params) + 2)
        args == query.args \o <<Arg("limit", PageSize(perPage)),
                                Arg("offset", Offset(page, perPage))>>
        match(as) == SelectAt(rows, {i \in DOMAIN rows : Matches(query.sql, as, rows[i])})
        from == args[limit + 1].value
        to == Min({from + args[limit].value, Len(match(args))})
    IN [results |-> SubSeq(match(args), from + 1, to), total |-> Len(match(query.args))]

\* search_summary: how many references match and their bytes, in all and by day.
Day(time) == time \div 2
Total(v, S) == MapThenSumSet(LAMBDA e : v[e], S)
Totals(refs) == [files |-> Cardinality(refs), size |-> Total([r \in refs |-> r.size], refs)]
Timeline(filter, x, refs) ==
    [d \in {Day(ref.created) : ref \in Found(filter, x, refs)} |->
        Totals({ref \in Found(filter, x, refs) : Day(ref.created) = d})]
Summary(filter, x, refs) ==
    [all |-> Totals(Found(filter, x, refs)), days |-> Timeline(filter, x, refs)]

\* The names in the archive of bulk_download, for the files found that can be
\* read. A name is its stem and the numbers that were added to it; the k-th file
\* of a name gets the number k - 1.
Occurrence(names, i) == Quantify(1 .. i, LAMBDA k : names[k] = names[i])
EntryName(names, i) ==
    IF Occurrence(names, i) = 1 THEN names[i] ELSE Append(names[i], Occurrence(names, i) - 1)

\* The entries of the archive; none when there is nothing, or too much, to put in:
\* too many files or too many bytes.
BulkDownload(names, bytes) ==
    IF Len(names) > MaxFiles \/ bytes > MaxBytes THEN <<>>
    ELSE [i \in 1 .. Len(names) |-> EntryName(names, i)]

-----------------------------------------------------------------------------
(* What they are to mean                                                   *)

\* The rows a filter describes, when means has them for its parts.
Meaning(means, f) ==
    {ref \in Refs :
        \/ f.kind = "leaf" /\ ref.meta[f.key] = f.value
        \/ f.kind = "and" /\ \A i \in DOMAIN f.of : ref \in means[f.of[i]]
        \/ f.kind = "or" /\ \E i \in DOMAIN f.of : ref \in means[f.of[i]]
        \/ f.kind = "not" /\ ref \notin means[f.of[1]]}
Means[n \in 0 .. Levels] ==
    IF n = 0 THEN <<>> ELSE [f \in FilterOf[n] |-> Meaning(Means[n - 1], f)]

Wanted(filter, ref) ==
    ref.project = Project /\ (filter = NotGiven \/ ref \in Means[Levels][filter])
If(v, holds) == v = NotGiven \/ holds

\* A name without wildcards stands for itself.
Literal(name) == If(name, LooksLike[name] = {name})
WantedWith(filter, x, ref) ==
    /\ Wanted(filter, ref)
    /\ If(x.name, x.name \in ref.name)
    /\ If(x.after, x.after <= ref.created) /\ If(x.before, ref.created <= x.before)

-----------------------------------------------------------------------------
(* One request at a time, with any input of the instance                   *)

VARIABLE asked

Nothing == [op |-> "nothing"]
Inputs == [name : Opt(Names), after : Opt(Moments), before : Opt(Moments)]
Accepted(op) == Opt(Filters[op] \cap FilterOf[MaxDepth])
Searches == [op : {"search"}, filter : Opt(Filters["search"]), x : Inputs]
BulkDeletes == [op : {"delete"}, filter : Accepted("delete"),
                x : [before : Opt(Moments), after : Opt(Moments), min : Opt(Moments),
                     max : Opt(Moments), idle : Opt(Moments)]]
Pages == [op : {"page"}, filter : Accepted("page"), x : Inputs, perPage : -1 .. MaxPage + 2]
Summaries == [op : {"summary"}, filter : Accepted("summary"), x : Inputs]
Archives == [op : {"archive"}, names : BoundedSeq(EntryNames, MaxFiles + 1),
             bytes : {MaxBytes, MaxBytes + 1}]

NothingAsked == asked = Nothing
Ask ==
    /\ asked = Nothing
    /\ \/ asked' \in Searches
       \/ asked' \in BulkDeletes
       \/ asked' \in Pages
       \/ asked' \in Summaries
       \/ asked' \in Archives

-----------------------------------------------------------------------------
\* A search finds exactly the references that its filter, name and dates
\* describe: no argument is bound to another parameter than its own, whatever
\* is left out, and a filter that is nested too deep is refused. The name must
\* have no wildcard in it; one that matches itself too finds these references
\* and perhaps others (search_by_metadata, search_all_for_filter,
\* search_summary).
SearchExact ==
    asked.op = "search" =>
        LET name == asked.x.name
            found == Found(asked.filter, asked.x, Table["search"])
            wanted == {ref \in Table["search"] : WantedWith(asked.filter, asked.x, ref)}
        IN IF asked.filter \in Accepted("search")
           THEN /\ Literal(name) => found = wanted
                /\ If(name, name \in LooksLike[name]) => wanted \subseteq found
           ELSE Where(asked.filter, Extras(asked.x)) = Refused

\* A bulk delete takes exactly the references its filters describe, and as many
\* as its preview says: uploaded strictly between the dates, of a size in the
\* range, every copy read before the date and none never read. Without any
\* filter nothing goes (build_bulk_delete_clause, bind_bulk_delete_args).
BulkExact ==
    asked.op = "delete" =>
        LET refs == Table["delete"]
            filter == asked.filter
            x == asked.x
        IN /\ Deleted(filter, x, refs) =
                {ref \in refs :
                   /\ filter # NotGiven \/ \E f \in DOMAIN x : x[f] # NotGiven
                   /\ Wanted(filter, ref)
                   /\ If(x.before, ref.created < x.before)
                   /\ If(x.after, x.after < ref.created)
                   /\ If(x.min, x.min <= ref.size) /\ If(x.max, ref.size <= x.max)
                   /\ If(x.idle, \A a \in ref.accessed : a \in Times /\ a < x.idle)}
           /\ Previewed(filter, x, refs) = Cardinality(Deleted(filter, x, refs))

\* The pages of a search, put one after the other, are its result, whatever
\* size of page is asked for, and every page tells its length; the limit and the
\* offset are not mistaken for another parameter. This holds of pages that are
\* cut from one order of the rows. Each page is a query of its own, though, and
\* only when no two of the rows were uploaded at the same time is it the same
\* page in every order, so that the pages of different queries fit together.
\* No reference comes or goes meanwhile (search_by_metadata).
PagesPartition ==
    asked.op = "page" /\ Literal(asked.x.name) =>
        LET Wants(ref) == WantedWith(asked.filter, asked.x, ref)
            wanted(rows) == SelectAt(rows, {i \in DOMAIN rows : Wants(rows[i])})
            page(rows, p) == SearchPage(asked.filter, asked.x, rows, p, asked.perPage)
            results == [rows \in Listings |->
                          [p \in 1 .. Len(rows) + 1 |-> page(rows, p).results]]
            untied == \A a, b \in Table["page"] :
                         Wants(a) /\ Wants(b) /\ a.created = b.created => a = b
        IN \A rows \in Listings :
           /\ FlattenSeq(results[rows]) = wanted(rows)
           /\ \A p \in -1 .. 0 : page(rows, p) = page(rows, 1)
           /\ page(rows, 1).total = Len(wanted(rows))
           /\ untied => \A other \in Listings : results[other] = results[rows]

\* The days of a summary add up to its totals, and these are the files and the
\* bytes that the filter, dates and a name without wildcards describe
\* (search_summary).
SummaryExact ==
    asked.op = "summary" /\ Literal(asked.x.name) =>
        LET sum == Summary(asked.filter, asked.x, Table["summary"])
            wanted == {ref \in Table["summary"] : WantedWith(asked.filter, asked.x, ref)}
            days == DOMAIN sum.days
        IN /\ sum.all = Totals(wanted)
           /\ sum.all.files = Total([d \in days |-> sum.days[d].files], days)
           /\ sum.all.size = Total([d \in days |-> sum.days[d].size], days)

\* No two entries of an archive have the same name, unless a file already had
\* the name of another one with a number (bulk_download).
EntriesDistinct ==
    asked.op = "archive" /\
    (~\E i, j \in DOMAIN asked.names : asked.names[i] = Front(asked.names[j])) =>
        IsInjective(BulkDownload(asked.names, asked.bytes))

\* Every question is answered with what it asked for: searches, bulk deletes and
\* their previews, summaries, and the entries of an archive.
AnswersExact == SearchExact /\ BulkExact /\ SummaryExact /\ EntriesDistinct
=============================================================================
