----------------------------- MODULE MCServing -----------------------------
(***************************************************************************)
(* An instance of Serving for TLC: two processes, the requests are served  *)
(* by n1. The queries of Search and Dashboard and the checks of            *)
(* Permissions share no state with it: each is a workload of its own.      *)
(***************************************************************************)
EXTENDS Serving, Dashboard, Permissions, TLC

CONSTANTS n1, n2, r1, r2, pA, pB, l1, l2, s1, c1, c2, kA, kB, j1, key1, key2, v1, x1, x2,
          root, ann, sA, sB, dA, dB, w1, d1, d2, dP, dS

MCHome == [r \in Requests |-> n1]
MCProjectOf == [l \in Links |-> IF l = l1 THEN pA ELSE pB]
MCLimit == [l \in Links |-> 1]
MCFirst == [p \in Projects |-> IF p = pA THEN kA ELSE kB]
MCWorkloads == {{"link", "revoke"}, {"link", "project"}, {"read", "project"},
                {"storage", "crash", "read"}, {"storage", "export", "crash"},
                {"search"}, {"members"}}

\* Filters: all of up to two levels, and of three with parts of two; some of four.
Small == {Leaf(k, v) : k \in Keys, v \in Values}
Grow(fs, n) == {Node(kind, parts) : kind \in {"and", "or"}, parts \in BoundedSeq(fs, n)}
                 \cup {Node("not", <<f>>) : f \in fs}
Pairs == {Node(kind, <<f, g>>) : kind \in {"and", "or"}, f \in Small, g \in Small}
Many == Grow(Small, 2) \cup Grow(Small \cup Pairs \cup {Node("not", <<f>>) : f \in Small}, 2)
             \cup {Node("not", <<Node("not", <<Node("not", <<f>>)>>)>>) : f \in Small}
MCFilters == [op \in {"search", "delete", "page", "summary"} |->
    CASE op = "search" -> Many
      [] op = "delete" -> Small \cup {Node("or", <<>>)}
      [] OTHER -> Small]

MCRow(id, p, m, n, time, size, read) ==
    [id |-> id, project |-> p, meta |-> m, name |-> n, created |-> time, size |-> size,
     accessed |-> read]
Metas == [Keys -> Opt(Values)]

\* A page's rows: those with key1 were uploaded at times of their own, those with
\* key2 two at a time; the second order has each of these pairs turned round.
PageRow(id, key, time) ==
    MCRow(id, Project, [k \in Keys |-> IF k = key THEN v1 ELSE NotGiven],
          IF id % 2 = 0 THEN {x1} ELSE {x2}, time, 1, {})
Newest == <<PageRow(1, key1, 4), PageRow(2, key1, 3), PageRow(3, key2, 3), PageRow(4, key2, 3),
            PageRow(5, key1, 2), PageRow(6, key2, 2), PageRow(7, key2, 2), PageRow(8, key1, 1)>>
MCListings == {Newest, [i \in 1 .. 8 |-> Newest[<<1, 4, 3, 2, 7, 6, 5, 8>>[i]]]}

MCLooksLike == (x1 :> {x1}) @@ (x2 :> {x1, x2})
MCTable == [op \in {"search", "delete", "summary", "page"} |->
    CASE op = "search" -> {MCRow(0, Project, m, n, t, t, {}) : m \in Metas,
                             n \in {{}, {x1}, {x2}}, t \in Moments}
                          \cup {MCRow(0, NotGiven, m, Names, t, t, {}) : m \in Metas, t \in Moments}
      [] op = "delete" -> {MCRow(0, p, m, {}, t, z, a) : p \in Opt({Project}), m \in Metas,
                             t \in Moments, z \in Moments,
                             a \in {{}} \cup {{b} : b \in Opt(Moments)}}
      [] op = "summary" -> {MCRow(0, p, m, {}, t, z, {}) : p \in Opt({Project}), m \in Metas,
                             t \in Moments, z \in Moments}
      [] op = "page" -> ToSet(Newest)]

MCEntryNames == {<<n>> \o m : n \in {1, 2}, m \in {<<>>, <<1>>, <<2>>}}

Searching == "search" \in work
Managing == "members" \in work

MCInit ==
    /\ Init /\ NothingAsked /\ PermInit
    /\ Searching \/ Managing => \A s \in Storages : row[s] = NoRow
    /\ "revoke" \in work => \E o \in objects : o[2][2] # Own  \* bound: one link finds the file
    /\ ~Managing => topic = "members"
MCNext ==
    \/ /\ Next /\ UNCHANGED <<asked, permVars>>
       /\ {"link", "project"} \subseteq work => edits' <= 1  \* bound
    \/ Searching /\ (Ask \/ AskDashboard) /\ UNCHANGED <<vars, permVars>>
    \/ Managing /\ PermNext /\ UNCHANGED <<vars, asked>>
MCSpec == MCInit /\ [][MCNext]_<<vars, asked, permVars>> /\ Fairness
=============================================================================
