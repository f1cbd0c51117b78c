-------------------------- MODULE MCUploadSession --------------------------
(***************************************************************************)
(* Instances of UploadSession for TLC: one session with its PATCH          *)
(* requests. No temp file is named after a session's row id.               *)
(***************************************************************************)
EXTENDS UploadSession, TLC

CONSTANTS u1, p1, p2, n1, n2, other

MCSessionOf == [p \in Patches |-> u1]
MCTempName == [s \in Sessions |-> other]
=============================================================================
