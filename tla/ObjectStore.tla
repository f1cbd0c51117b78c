---------------------------- MODULE ObjectStore ----------------------------
(***************************************************************************)
(* What a StorageBackend (src/storage/traits.rs) promises its callers, who *)
(* upload, download and delete content-addressed objects: all uploads to a *)
(* path bring the same content.                                            *)
(*                                                                         *)
(* A backend is atomic or not. On an atomic one every call takes effect at *)
(* once or not at all. On the others an upload is visible while it runs,   *)
(* and only a call that no other upload or delete of its path overlaps is  *)
(* sure of its effect when it returns.                                     *)
(***************************************************************************)
CONSTANTS
    Calls,
    Paths,
    PathOf      \* PathOf[c]: the path call c is about

VARIABLES
    atomic,     \* what kind of backend this is; it never changes
    obj,        \* obj[p]: nothing, part of the content or all of it
    op,         \* op[c]: "none" until c is called
    st,         \* st[c]: how far c is
    alone,      \* alone[c]: no other call has changed c's path since c began
    got         \* got[c]: what download c returned

vars == <<atomic, obj, op, st, alone, got>>

Content == {"none", "torn", "whole"}
Op == {"upload", "download", "delete"}

TypeOK ==
    /\ atomic \in BOOLEAN
    /\ obj \in [Paths -> Content]
    /\ op \in [Calls -> Op \cup {"none"}]
    /\ st \in [Calls -> {"idle", "running", "ok", "missing", "failed"}]
    /\ alone \in [Calls -> BOOLEAN]
    /\ got \in [Calls -> Content]

Init ==
    /\ atomic \in BOOLEAN
    /\ obj = [p \in Paths |-> "none"]
    /\ op = [c \in Calls |-> "none"]
    /\ st = [c \in Calls |-> "idle"]
    /\ alone = [c \in Calls |-> TRUE]
    /\ got = [c \in Calls |-> "none"]

Running(c) == st[c] = "running"
Changes(o) == o \in {"upload", "delete"}
\* The calls c meets on its path.
Others(c) ==
    {d \in Calls \ {c} : Running(d) /\ PathOf[d] = PathOf[c] /\ Changes(op[d])}
\* The calls of the path that a new call o of c overlaps.
Overlapped(c, o) ==
    {d \in Calls \ {c} : Running(d) /\ PathOf[d] = PathOf[c] /\ Changes(o)}

Start(c, o) ==
    /\ st[c] = "idle"
    /\ st' = [st EXCEPT ![c] = "running"]
    /\ op' = [op EXCEPT ![c] = o]
    /\ alone' = [d \in Calls |->
                   IF d = c THEN Others(c) = {} ELSE alone[d] /\ d \notin Overlapped(c, o)]
    /\ UNCHANGED <<atomic, obj, got>>

Ends(c, how) == st' = [st EXCEPT ![c] = how]
Becomes(p, v) == obj' = [obj EXCEPT ![p] = v]

\* The whole upload, or the whole delete, in one step; the answer may be lost.
Effect(c) ==
    /\ Running(c)
    /\ \/ op[c] = "upload" /\ Becomes(PathOf[c], "whole")
       \/ op[c] = "delete" /\ Becomes(PathOf[c], "none")
    /\ \E how \in {"ok", "failed"} : Ends(c, how)
    /\ UNCHANGED <<atomic, op, alone, got>>

\* What a call that is not atomic does before it returns.
Progress(c) ==
    /\ Running(c) /\ ~atomic
    /\ \/ op[c] = "upload" /\ \E v \in {"torn", "whole"} : Becomes(PathOf[c], v)
       \/ op[c] = "delete" /\ Becomes(PathOf[c], "none")
    /\ UNCHANGED <<atomic, op, st, alone, got>>

\* Its return: the effect is there, unless another call came between.
Return(c) ==
    /\ Running(c) /\ ~atomic /\ Changes(op[c])
    /\ alone[c] => obj[PathOf[c]] = IF op[c] = "upload" THEN "whole" ELSE "none"
    /\ Ends(c, "ok")
    /\ UNCHANGED <<atomic, obj, op, alone, got>>

\* A download returns what is there, unless that changes under it.
Read(c) ==
    /\ Running(c) /\ op[c] = "download"
    /\ \/ /\ \E v \in {"torn", "whole"} :
               /\ obj[PathOf[c]] = v \/ ~(atomic \/ alone[c])
               /\ got' = [got EXCEPT ![c] = v]
          /\ Ends(c, "ok")
       \/ obj[PathOf[c]] = "none" /\ Ends(c, "missing") /\ UNCHANGED got
    /\ UNCHANGED <<atomic, obj, op, alone>>

Fail(c) ==
    /\ Running(c)
    /\ Ends(c, "failed")
    /\ UNCHANGED <<atomic, obj, op, alone, got>>

Next ==
    \E c \in Calls :
        \/ \E o \in Op : Start(c, o)
        \/ Effect(c) \/ Progress(c) \/ Return(c) \/ Read(c) \/ Fail(c)

Spec == Init /\ [][Next]_vars
=============================================================================
