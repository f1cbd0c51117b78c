----------------------------- MODULE MCBackends -----------------------------
(* Three calls on two paths of one directory, two chunks to a content; the *)
(* content of p1 is beyond 5 GB, the one of p2 small.                      *)
EXTENDS Backends, TLC

CONSTANTS c1, c2, c3, p1, p2

MCPathOf == (c1 :> p1) @@ (c2 :> p1) @@ (c3 :> p2)
MCMultipart == (p1 :> Uploads) @@ (p2 :> {})
MCAsks == (c1 :> Ops) @@ (c2 :> Ops) @@ (c3 :> Uploads \cup {"delete"})
MCKinds == AllKinds
=============================================================================
