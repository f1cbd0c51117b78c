---------------------------- MODULE MCFileStore ----------------------------
(***************************************************************************)
(* Instances of FileStore for TLC: one content, uploaded up to three times *)
(* by projects pA and pB. pA has s1 before s2, pB has s2 only.             *)
(***************************************************************************)
EXTENDS FileStore, TLC

CONSTANTS u1, u2, u3, d1, d2, pA, pB, s1, s2, cA, cB, c0, h

MCContentOf == [u \in Uploads |-> h]

\* u1, u3 and d1 belong to pA, u2 and d2 to pB.
MCTwoProjects == [x \in Uploads \cup Deletes |-> IF x \in {u2, d2} THEN pB ELSE pA]

MCStoragesOf == (pA :> {s1, s2}) @@ (pB :> {s2})
MCRank == (s1 :> 1) @@ (s2 :> 2)

\* pA and pB each have a container of their own.
MCIsolated == (pA :> cA) @@ (pB :> cB)
=============================================================================
