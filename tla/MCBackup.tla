------------------------------ MODULE MCBackup ------------------------------
(***************************************************************************)
(* Instances of Backup for TLC: two replicas, the requests run on w1, whose*)
(* pool has two connections.                                               *)
(***************************************************************************)
EXTENDS Backup, TLC

CONSTANTS w1, w2, t1, d1, x1, c1, c2, c3

MCHome == [p \in Procs |-> IF p = w2 THEN w2 ELSE w1]
MCPoolOf == [c \in Conns |-> IF c = c3 THEN w2 ELSE w1]
=============================================================================
