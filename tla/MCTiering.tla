----------------------------- MODULE MCTiering -----------------------------
(***************************************************************************)
(* Instances of Tiering for TLC: h1 is hot and was created first, c1 is    *)
(* cold.                                                                   *)
(***************************************************************************)
EXTENDS Tiering, TLC

CONSTANTS h1, c1, w1, w2, r1

MCHot == {h1}
MCRank == [s \in Storages |-> IF s = h1 THEN 1 ELSE 2]
=============================================================================
