---------------------------- MODULE MCSyncQueue ----------------------------
(***************************************************************************)
(* Instances of SyncQueue for TLC. One file, uploaded by project pA to s1. *)
(* Rows 1 and 2 replicate it for pA to the same target: one batch, one     *)
(* temp file.                                                              *)
(***************************************************************************)
EXTENDS SyncQueue, TLC

CONSTANTS f1, s1, s2, pA, cA, cB, h1, h2, w1, w2

MCJob == [t \in Tasks |->
    [file |-> f1, source |-> s1, target |-> s2, project |-> pA]]

MCSeed == [f \in Files |-> [storage |-> s1, project |-> pA]]
MCContainerOf == (pA :> cA)
MCTwoHosts == [w \in Workers |-> IF w = w1 THEN h1 ELSE h2]
MCOneHost == [w \in Workers |-> h1]
=============================================================================
