--------------------------- MODULE BackendsProofs ---------------------------
(***************************************************************************)
(* Theorems about Backends. The many steps of the seven backends are nine  *)
(* moves of a call (StepMoves); the invariant and the refinement are shown *)
(* move by move.                                                           *)
(***************************************************************************)
EXTENDS Backends, TLAPS

Contents == (SUBSET Whole) \cup {Absent}
Frame == kind' = kind /\ op' = op /\ alone' = alone
Rest == home' \in BOOLEAN /\ faults' \in Nat
InMiddle == PC \ (Ended \cup {"idle", "write", "rmdir"})

-----------------------------------------------------------------------------
(* The moves of a call                                                     *)

\* The call goes on; nobody else sees it.
Waits(c) ==
    /\ Running(c) /\ Frame /\ Rest
    /\ obj' = obj /\ got' = got /\ linked' = linked
    /\ \E l \in InMiddle, n \in 0 .. Size :
         /\ Goto(c, l)
         /\ sent' = [sent EXCEPT ![c] = n]
         /\ l = "complete" => n = Size

\* It gives up and leaves its path as it is.
Fails(c) ==
    /\ Running(c) /\ Frame /\ Rest
    /\ obj' = obj /\ got' = got /\ linked' = linked /\ sent' = sent
    /\ Goto(c, "failed")

\* The whole upload or delete in one step.
Takes(c) ==
    /\ Running(c) /\ Frame /\ Rest
    /\ got' = got /\ sent' = sent
    /\ \E l \in {"ok", "failed"} : Goto(c, l)
    /\ \/ op[c] \in Uploads /\ Becomes(c, Whole) /\ linked' \in {linked, linked \ SamePath(c)}
       \/ op[c] = "delete" /\ Becomes(c, Absent) /\ linked' = linked \ SamePath(c)

InPlace(c) == Frame /\ Rest /\ got' = got /\ kind \notin Cloud /\ op[c] \in Uploads

Opens(c) ==
    /\ Running(c) /\ InPlace(c)
    /\ Becomes(c, {}) /\ linked' = linked \cup {c}
    /\ sent' = [sent EXCEPT ![c] = 0]
    /\ Goto(c, "write")

Writes(c) ==
    /\ pc[c] = "write" /\ InPlace(c) /\ sent[c] < Size
    /\ sent' = [sent EXCEPT ![c] = sent[c] + 1]
    /\ IF c \in linked THEN Becomes(c, Object(c) \cup {sent[c] + 1}) ELSE obj' = obj
    /\ pc' = pc /\ linked' = linked

Closes(c) ==
    /\ pc[c] = "write" /\ InPlace(c) /\ sent[c] = Size
    /\ obj' = obj /\ linked' = linked /\ sent' = sent
    /\ Goto(c, "ok")

Reads(c) ==
    /\ Running(c) /\ Frame /\ Rest /\ op[c] \in Downloads
    /\ obj' = obj /\ linked' = linked /\ sent' = sent
    /\ \/ /\ \E v \in SUBSET Whole :
               /\ Object(c) = v \/ (kind \notin Cloud /\ ~alone[c])
               /\ got' = [got EXCEPT ![c] = v]
          /\ Goto(c, "ok")
       \/ Object(c) = Absent /\ Goto(c, "missing") /\ got' = got

\* A local delete: first the file, then the directory.
Removes(c) ==
    /\ Running(c) /\ Frame /\ Rest /\ kind = "local" /\ op[c] = "delete"
    /\ Becomes(c, Absent) /\ linked' = linked \ SamePath(c)
    /\ got' = got /\ sent' = sent
    /\ Goto(c, "rmdir")

Leaves(c) ==
    /\ Running(c) /\ Frame /\ Rest /\ kind = "local" /\ op[c] = "delete"
    /\ Object(c) = Absent \/ pc[c] = "rmdir"
    /\ obj' = obj /\ linked' = linked /\ got' = got /\ sent' = sent
    /\ Goto(c, "ok")

Moves(c) ==
    \/ Waits(c) \/ Fails(c) \/ Takes(c) \/ Opens(c) \/ Writes(c) \/ Closes(c)
    \/ Reads(c) \/ Removes(c) \/ Leaves(c)

\* A multipart upload is completed when all its parts were sent.
Complete == \A c \in Calls : pc[c] = "complete" => sent[c] = Size

-----------------------------------------------------------------------------
LEMMA PCFacts ==
  /\ \A l \in PC \ Ended : l # "idle" /\ l # "write" /\ l # "rmdir" => l \in InMiddle
  /\ "idle" \notin InMiddle /\ InMiddle \subseteq PC
  /\ \A l \in InMiddle : l \notin {"idle"} \cup Ended
  /\ \A l \in {"token", "put", "create", "retry", "multipart", "part", "abort", "complete",
               "mkdir", "rename", "open", "check", "read", "remove"} :
       l \in InMiddle /\ l \notin {"idle"} \cup Ended
  /\ "write" \notin {"idle"} \cup Ended /\ "rmdir" \notin {"idle"} \cup Ended
  /\ Ended \subseteq PC
  BY DEF PC, Ended, InMiddle

\* The registers after a step that leaves sent alone.
LEMMA SentSame ==
  ASSUME TypeOK, NEW c \in Calls, sent' = sent
  PROVE  sent[c] \in 0 .. Size /\ sent' = [sent EXCEPT ![c] = sent[c]]
  BY DEF TypeOK

LEMMA FaultNat ==
  ASSUME TypeOK, UNCHANGED faults \/ Fault
  PROVE  faults' \in Nat
  BY DEF TypeOK, Fault

LEMMA AnswerLost ==
  ASSUME TypeOK, NEW c \in Calls, NEW l, Answered(c, l)
  PROVE  (Goto(c, l) \/ Goto(c, "failed")) /\ faults' \in Nat
  BY DEF TypeOK, Answered, Fault

\* A call that goes on without a trace.
LEMMA WaitsBy ==
  ASSUME TypeOK, NEW c \in Calls, Running(c), Frame, Rest,
         obj' = obj, got' = got, linked' = linked, sent' = sent,
         NEW l \in InMiddle, l # "complete", Goto(c, l)
  PROVE  Waits(c)
  BY SentSame DEF Waits

LEMMA PutMoves ==
  ASSUME TypeOK, NEW c \in Calls, PutOnce(c), op[c] \in Uploads
  PROVE  Moves(c)
<1>1. Running(c) /\ Frame /\ got' = got /\ sent' = sent /\ linked' = linked /\ home' \in BOOLEAN
  BY PCFacts DEF PutOnce, Running, Frame, TypeOK
<1>2. CASE Becomes(c, Whole) /\ Answered(c, "ok")
  <2>1. Rest /\ (Goto(c, "ok") \/ Goto(c, "failed"))
    BY <1>1, <1>2, AnswerLost DEF Rest
  <2> QED BY <1>1, <1>2, <2>1 DEF Moves, Takes
<1>3. CASE /\ Goto(c, IF pc[c] = "put" THEN "create" ELSE "failed")
           /\ UNCHANGED <<obj, faults>>
  <2>1. Rest
    BY <1>1, <1>3 DEF Rest, TypeOK
  <2>2. CASE Goto(c, "create")
    BY <1>1, <1>3, <2>1, <2>2, PCFacts, WaitsBy DEF Moves
  <2>3. CASE Goto(c, "failed")
    BY <1>1, <1>3, <2>1, <2>3 DEF Moves, Fails
  <2> QED BY <1>3, <2>2, <2>3
<1> QED BY <1>2, <1>3 DEF PutOnce

LEMMA CreateMoves ==
  ASSUME TypeOK, NEW c \in Calls, CreateContainer(c)
  PROVE  Moves(c)
<1>1. Running(c) /\ Frame /\ obj' = obj /\ got' = got /\ sent' = sent /\ linked' = linked
  BY PCFacts DEF CreateContainer, Running, Frame
<1>2. Rest /\ (Goto(c, "retry") \/ Goto(c, "failed"))
  <2>1. CASE home' = TRUE /\ Answered(c, "retry")
    BY <2>1, AnswerLost DEF Rest
  <2>2. CASE UNCHANGED <<home, faults>> /\ (Goto(c, "retry") \/ Goto(c, "failed"))
    BY <2>2 DEF Rest, TypeOK
  <2> QED BY <2>1, <2>2 DEF CreateContainer
<1>3. CASE Goto(c, "retry")
  BY <1>1, <1>2, <1>3, PCFacts, WaitsBy DEF Moves
<1>4. CASE Goto(c, "failed")
  BY <1>1, <1>2, <1>4 DEF Moves, Fails
<1> QED BY <1>2, <1>3, <1>4

LEMMA MultipartMoves ==
  ASSUME TypeOK, Complete, NEW c \in Calls, op[c] \in Uploads, MultipartSteps(c),
         UNCHANGED <<kind, home, op, linked, got, alone>>
  PROVE  Moves(c)
<1>1. Frame /\ home' \in BOOLEAN /\ got' = got /\ linked' = linked
  BY DEF Frame, TypeOK
<1>2. CASE /\ pc[c] = "multipart"
           /\ Goto(c, IF home THEN "part" ELSE "failed")
           /\ UNCHANGED <<obj, sent, faults>>
  <2>1. Running(c) /\ Rest
    BY <1>1, <1>2, PCFacts DEF Running, Rest, TypeOK
  <2>2. CASE Goto(c, "part")
    BY <1>1, <1>2, <2>1, <2>2, PCFacts, WaitsBy DEF Moves
  <2>3. CASE Goto(c, "failed")
    BY <1>1, <1>2, <2>1, <2>3 DEF Moves, Fails
  <2> QED BY <1>2, <2>2, <2>3
<1>3. CASE /\ pc[c] = "part" /\ sent[c] < Size
           /\ sent' = [sent EXCEPT ![c] = @ + 1]
           /\ Goto(c, IF sent[c] + 1 = Size THEN "complete" ELSE "part")
           /\ UNCHANGED <<obj, faults>>
  <2>1. Running(c) /\ Rest
    BY <1>1, <1>3, PCFacts DEF Running, Rest, TypeOK
  <2>2. sent[c] + 1 \in 0 .. Size /\ sent' = [sent EXCEPT ![c] = sent[c] + 1]
    BY <1>3, ConstantsAssumption DEF TypeOK
  <2>3. PICK l \in {"complete", "part"} : Goto(c, l) /\ (l = "complete" => sent[c] + 1 = Size)
    BY <1>3
  <2>4. l \in InMiddle
    BY PCFacts
  <2>5. Waits(c)
    BY <1>1, <1>3, <2>1, <2>2, <2>3, <2>4 DEF Waits
  <2> QED BY <2>5 DEF Moves
<1>4. CASE pc[c] = "part" /\ Fault /\ Goto(c, "abort") /\ UNCHANGED <<obj, sent>>
  <2>1. Running(c) /\ Rest
    BY <1>1, <1>4, PCFacts DEF Running, Rest, TypeOK, Fault
  <2> QED BY <1>1, <1>4, <2>1, PCFacts, WaitsBy DEF Moves
<1>5. CASE pc[c] = "abort" /\ Goto(c, "failed") /\ UNCHANGED <<obj, sent, faults>>
  <2>1. Running(c) /\ Rest
    BY <1>1, <1>5, PCFacts DEF Running, Rest, TypeOK
  <2> QED BY <1>1, <1>5, <2>1 DEF Moves, Fails
<1>6. CASE pc[c] = "complete" /\ Becomes(c, 1 .. sent[c]) /\ Answered(c, "ok") /\ UNCHANGED sent
  <2>1. Running(c) /\ Rest /\ (Goto(c, "ok") \/ Goto(c, "failed"))
    BY <1>1, <1>6, PCFacts, AnswerLost DEF Running, Rest
  <2>2. Becomes(c, Whole)
    BY <1>6 DEF Complete, Whole
  <2> QED BY <1>1, <1>6, <2>1, <2>2 DEF Moves, Takes
<1> QED BY <1>2, <1>3, <1>4, <1>5, <1>6 DEF MultipartSteps

-----------------------------------------------------------------------------
LEMMA MkdirMoves ==
  ASSUME TypeOK, NEW c \in Calls, NEW l \in {"open", "rename", "put"},
         EnsureParentDirs(c, l), UNCHANGED <<kind, op, got, alone>>
  PROVE  Moves(c)
<1>1. Running(c) /\ Frame /\ obj' = obj /\ got' = got /\ sent' = sent /\ linked' = linked
  BY PCFacts DEF EnsureParentDirs, Running, Frame
<1>2. Rest
  <2>1. home' \in BOOLEAN
    BY DEF EnsureParentDirs, TypeOK
  <2>2. faults' \in Nat
    <3>1. UNCHANGED faults \/ Fault
      BY DEF EnsureParentDirs
    <3> QED BY <3>1, FaultNat
  <2> QED BY <2>1, <2>2 DEF Rest
<1>3. Goto(c, l)
  BY DEF EnsureParentDirs
<1> QED BY <1>1, <1>2, <1>3, PCFacts, WaitsBy DEF Moves

LEMMA WriteMoves ==
  ASSUME TypeOK, NEW c \in Calls, WriteFile(c), op[c] \in Uploads, kind \notin Cloud,
         UNCHANGED <<kind, op, got, alone>>
  PROVE  Moves(c)
<1>1. Rest /\ InPlace(c)
  BY DEF WriteFile, OpenFile, WriteChunk, CloseFile, InPlace, Frame, Rest, TypeOK
<1>2. CASE OpenFile(c)
  <2>1. Running(c)
    BY <1>2, PCFacts DEF OpenFile, Running
  <2> QED BY <1>1, <1>2, <2>1 DEF OpenFile, Moves, Opens
<1>3. CASE WriteChunk(c)
  <2>1. sent' = [sent EXCEPT ![c] = sent[c] + 1]
    BY <1>3 DEF WriteChunk, TypeOK
  <2> QED BY <1>1, <1>3, <2>1 DEF WriteChunk, Moves, Writes
<1>4. CASE CloseFile(c)
  BY <1>1, <1>4 DEF CloseFile, Moves, Closes
<1> QED BY <1>2, <1>3, <1>4 DEF WriteFile

LEMMA NoDirectoryMoves ==
  ASSUME TypeOK, NEW c \in Calls, NoDirectory(c), UNCHANGED <<kind, op, got, alone>>
  PROVE  Moves(c)
<1>1. Running(c) /\ Frame /\ Rest
  BY PCFacts DEF NoDirectory, Running, Frame, Rest, TypeOK
<1> QED BY <1>1 DEF NoDirectory, Moves, Fails

LEMMA RenameMoves ==
  ASSUME TypeOK, NEW c \in Calls, Rename(c), op[c] \in Uploads,
         UNCHANGED <<kind, op, got, alone>>
  PROVE  Moves(c)
<1>1. Running(c) /\ Frame /\ Rest /\ got' = got /\ sent' = sent
  BY PCFacts DEF Rename, Running, Frame, Rest, TypeOK
<1>2. CASE Becomes(c, Whole) /\ linked' = linked \ SamePath(c) /\ Goto(c, "ok")
  BY <1>1, <1>2 DEF Moves, Takes
<1>3. CASE Goto(c, "open") /\ UNCHANGED <<obj, linked>>
  BY <1>1, <1>3, PCFacts, WaitsBy DEF Moves
<1> QED BY <1>2, <1>3 DEF Rename

LEMMA ConflictMoves ==
  ASSUME TypeOK, NEW c \in Calls, RetryConflict(c), UNCHANGED <<kind, op, got, alone>>
  PROVE  Moves(c)
<1>1. Running(c) /\ Frame /\ obj' = obj /\ got' = got /\ sent' = sent /\ linked' = linked
  BY PCFacts DEF RetryConflict, Running, Frame
<1>2. Rest
  <2>1. home' \in BOOLEAN
    BY DEF RetryConflict, TypeOK
  <2>2. faults' \in Nat
    <3>1. UNCHANGED faults \/ Fault
      BY DEF RetryConflict
    <3> QED BY <3>1, FaultNat
  <2> QED BY <2>1, <2>2 DEF Rest
<1>3. (\E l \in {"open", "create", "retry"} : Goto(c, l)) \/ Goto(c, "failed")
  BY DEF RetryConflict
<1>4. ASSUME NEW l \in {"open", "create", "retry"}, Goto(c, l)
      PROVE  Moves(c)
  BY <1>1, <1>2, <1>4, PCFacts, WaitsBy DEF Moves
<1>5. CASE Goto(c, "failed")
  BY <1>1, <1>2, <1>5 DEF Moves, Fails
<1> QED BY <1>3, <1>4, <1>5

LEMMA ServeMoves ==
  ASSUME TypeOK, NEW c \in Calls, Serve(c) \/ S3Missing(c), op[c] \in Downloads
  PROVE  Moves(c)
<1>1. Running(c) /\ Frame /\ Rest /\ obj' = obj /\ sent' = sent /\ linked' = linked
  BY PCFacts DEF Serve, S3Missing, Running, Frame, Rest, TypeOK
<1>2. CASE Serve(c)
  <2>1. CASE /\ \E v \in SUBSET Whole :
                  /\ Object(c) = v \/ (kind \notin Cloud /\ ~alone[c])
                  /\ got' = [got EXCEPT ![c] = v]
             /\ Goto(c, "ok")
    BY <1>1, <2>1 DEF Moves, Reads
  <2>2. CASE Object(c) = Absent /\ Goto(c, "failed") /\ UNCHANGED got
    BY <1>1, <2>2 DEF Moves, Fails
  <2>3. CASE Object(c) = Absent /\ Goto(c, "missing") /\ UNCHANGED got
    BY <1>1, <2>3 DEF Moves, Reads
  <2> QED BY <1>2, <2>1, <2>2, <2>3 DEF Serve
<1>3. CASE S3Missing(c)
  BY <1>1, <1>3 DEF S3Missing, Moves, Fails
<1> QED BY <1>2, <1>3

LEMMA ExistsMoves ==
  ASSUME TypeOK, NEW c \in Calls, LocalExists(c)
  PROVE  Moves(c)
<1>1. Running(c) /\ Frame /\ Rest /\ obj' = obj /\ sent' = sent /\ linked' = linked /\ got' = got
  BY PCFacts DEF LocalExists, Running, Frame, Rest, TypeOK
<1>2. CASE Object(c) = Absent
  BY <1>1, <1>2 DEF LocalExists, Moves, Reads
<1>3. CASE Object(c) # Absent
  BY <1>1, <1>3, PCFacts, WaitsBy DEF LocalExists, Moves
<1> QED BY <1>2, <1>3

LEMMA RemoveMoves ==
  ASSUME TypeOK, NEW c \in Calls, Remove(c)
  PROVE  Moves(c)
<1>1. Running(c) /\ Frame /\ got' = got /\ sent' = sent
  BY PCFacts DEF Remove, Running, Frame
<1>2. Rest /\ (Goto(c, "ok") \/ Goto(c, "failed"))
  BY AnswerLost DEF Remove, Rest, TypeOK
<1> QED BY <1>1, <1>2 DEF Remove, Moves, Takes

LEMMA LocalDeleteMoves ==
  ASSUME TypeOK, NEW c \in Calls, LocalDelete(c)
  PROVE  Moves(c)
<1>1. /\ kind = "local" /\ op[c] = "delete"
      /\ Frame /\ Rest /\ got' = got /\ sent' = sent
  <2>1. home' \in BOOLEAN
    <3>1. (home /\ \E p \in Paths : obj[p] # Absent) \in BOOLEAN
      OBVIOUS
    <3> QED BY <3>1 DEF LocalDelete, CleanupEmptyParents, TypeOK
  <2> QED BY <2>1 DEF LocalDelete, Frame, Rest, TypeOK
<1>2. CASE /\ pc[c] = "check"
           /\ Goto(c, IF Object(c) = Absent THEN "ok" ELSE "remove")
           /\ UNCHANGED <<obj, home, linked>>
  <2>1. Running(c)
    BY <1>2, PCFacts DEF Running
  <2>2. CASE Object(c) = Absent
    BY <1>1, <1>2, <2>1, <2>2 DEF Moves, Leaves
  <2>3. CASE Object(c) # Absent
    BY <1>1, <1>2, <2>1, <2>3, PCFacts, WaitsBy DEF Moves
  <2> QED BY <2>2, <2>3
<1>3. CASE pc[c] = "remove" /\ Goto(c, "failed") /\ UNCHANGED <<obj, home, linked>>
  <2>1. Running(c)
    BY <1>3, PCFacts DEF Running
  <2> QED BY <1>1, <1>3, <2>1 DEF Moves, Fails
<1>4. CASE /\ pc[c] = "remove" /\ Becomes(c, Absent) /\ linked' = linked \ SamePath(c)
           /\ Goto(c, "rmdir")
  <2>1. Running(c)
    BY <1>4, PCFacts DEF Running
  <2> QED BY <1>1, <1>4, <2>1 DEF Moves, Removes
<1>5. CASE pc[c] = "rmdir" /\ Goto(c, "ok") /\ UNCHANGED <<obj, linked>>
  <2>1. Running(c)
    BY <1>5, PCFacts DEF Running
  <2> QED BY <1>1, <1>5, <2>1 DEF Moves, Leaves
<1> QED BY <1>2, <1>3, <1>4, <1>5 DEF LocalDelete

LEMMA TokenMoves ==
  ASSUME TypeOK, NEW c \in Calls, GcsToken(c)
  PROVE  Moves(c)
<1>1. Running(c) /\ Frame /\ Rest /\ obj' = obj /\ sent' = sent /\ linked' = linked /\ got' = got
  BY PCFacts DEF GcsToken, Running, Frame, Rest, TypeOK
<1>2. PICK l \in {"put", "remove", "read"} : Goto(c, l)
  BY DEF GcsToken
<1> QED BY <1>1, <1>2, PCFacts, WaitsBy DEF Moves

LEMMA InterruptedMoves ==
  ASSUME TypeOK, NEW c \in Calls, Interrupted(c)
  PROVE  Moves(c)
<1>1. Frame /\ Rest
  BY DEF Interrupted, Frame, Rest, TypeOK, Fault
<1> QED BY <1>1 DEF Interrupted, Moves, Fails

\* Every step of every backend is one of the nine moves.
LEMMA StepMoves ==
  ASSUME TypeOK, Complete, NEW c \in Calls, Step(c)
  PROVE  Moves(c)
<1>1. CASE \/ S3Put(c) \/ S3PutFile(c) \/ AzurePut(c) \/ AzurePutFile(c)
           \/ GcsPut(c) \/ GcsPutFile(c)
  BY <1>1, PutMoves DEF S3Put, S3PutFile, AzurePut, AzurePutFile, GcsPut, GcsPutFile, Uploads
<1>2. CASE GcsToken(c)
  BY <1>2, TokenMoves
<1>3. CASE S3CreateContainer(c) \/ AzureCreateContainer(c) \/ GcsCreateContainer(c)
  BY <1>3, CreateMoves DEF S3CreateContainer, AzureCreateContainer, GcsCreateContainer
<1>4. CASE MultipartUpload(c) \/ MultipartUploadFromFile(c)
  BY <1>4, MultipartMoves DEF MultipartUpload, MultipartUploadFromFile, Uploads
<1>5. CASE \/ S3Download(c) \/ S3DownloadToFile(c) \/ AzureDownload(c) \/ AzureDownloadToFile(c)
           \/ GcsDownload(c) \/ GcsDownloadToFile(c) \/ SftpDownload(c) \/ FtpDownload(c)
           \/ HetznerDownload(c) \/ HetznerDownloadToFile(c)
  BY <1>5, ServeMoves
     DEF S3Download, S3DownloadToFile, AzureDownload, AzureDownloadToFile, GcsDownload,
         GcsDownloadToFile, SftpDownload, FtpDownload, HetznerDownload, HetznerDownloadToFile,
         Downloads
<1>6. CASE LocalDownload(c) \/ LocalDownloadToFile(c)
  BY <1>6, ServeMoves, ExistsMoves DEF LocalDownload, LocalDownloadToFile, Downloads
<1>7. CASE S3Delete(c)
  <2>1. CASE Remove(c)
    BY <2>1, RemoveMoves
  <2>2. CASE /\ pc[c] = "remove" /\ Goto(c, "failed")
             /\ UNCHANGED <<kind, obj, home, op, sent, linked, got, alone, faults>>
    <3>1. Running(c) /\ Frame /\ Rest
      BY <2>2, PCFacts DEF Running, Frame, Rest, TypeOK
    <3> QED BY <2>2, <3>1 DEF Moves, Fails
  <2> QED BY <1>7, <2>1, <2>2 DEF S3Delete
<1>8. CASE \/ AzureDelete(c) \/ GcsDelete(c) \/ HetznerDelete(c) \/ SftpDelete(c) \/ FtpDelete(c)
  BY <1>8, RemoveMoves DEF AzureDelete, GcsDelete, HetznerDelete, SftpDelete, FtpDelete
<1>9. CASE LocalDelete(c)
  BY <1>9, LocalDeleteMoves
<1>10. CASE LocalUpload(c) \/ SftpUpload(c) \/ FtpUpload(c)
  <2>1. /\ op[c] \in Uploads /\ kind \notin Cloud /\ UNCHANGED <<kind, op, got, alone>>
        /\ EnsureParentDirs(c, "open") \/ WriteFile(c) \/ NoDirectory(c)
    BY <1>10 DEF LocalUpload, SftpUpload, FtpUpload, Uploads, Cloud
  <2> QED BY <2>1, MkdirMoves, WriteMoves, NoDirectoryMoves
<1>11. CASE LocalUploadFromFile(c)
  <2>1. /\ op[c] \in Uploads /\ kind \notin Cloud /\ UNCHANGED <<kind, op, got, alone>>
        /\ EnsureParentDirs(c, "rename") \/ Rename(c) \/ WriteFile(c) \/ NoDirectory(c)
    BY <1>11 DEF LocalUploadFromFile, Uploads, Cloud
  <2> QED BY <2>1, MkdirMoves, RenameMoves, WriteMoves, NoDirectoryMoves
<1>12. CASE HetznerUpload(c) \/ HetznerUploadFromFile(c)
  <2>1. /\ op[c] \in Uploads /\ kind \notin Cloud /\ UNCHANGED <<kind, op, got, alone>>
        /\ EnsureParentDirs(c, "put") \/ RetryConflict(c) \/ WriteFile(c)
    BY <1>12 DEF HetznerUpload, HetznerUploadFromFile, Uploads, Cloud
  <2> QED BY <2>1, MkdirMoves, ConflictMoves, WriteMoves
<1> QED
  BY <1>1, <1>2, <1>3, <1>4, <1>5, <1>6, <1>7, <1>8, <1>9, <1>10, <1>11, <1>12
     DEF Step, CloudStep, FileStep
-----------------------------------------------------------------------------
(* The invariant                                                           *)

\* An open file at a path is the object of the path.
Linked == \A c \in linked : Object(c) # Absent

\* A call that meets an upload or a delete of its path is not alone.
Apart ==
    \A c, d \in Calls :
        c # d /\ Running(c) /\ Running(d) /\ PathOf[c] = PathOf[d] /\ Changes(op[d]) => ~alone[c]

\* What a writer that is alone has written is all there is.
AloneWrites ==
    \A c \in Calls : pc[c] = "write" /\ alone[c] => c \in linked /\ Object(c) = 1 .. sent[c]

\* What a delete that is alone has removed stays away.
AloneGone == \A c \in Calls : pc[c] = "rmdir" /\ alone[c] => Object(c) = Absent

IdleNone == \A c \in Calls : pc[c] = "idle" => op[c] = "none"

Inv ==
    /\ TypeOK /\ Complete /\ Linked /\ Apart /\ AloneWrites /\ AloneGone /\ IdleNone
    /\ TornExplained

LEMMA ContentFacts ==
  /\ Absent \notin SUBSET Whole /\ Whole # Absent /\ {} # Absent
  /\ Whole \in Contents /\ {} \in Contents /\ Absent \in Contents
  /\ \A v \in SUBSET Whole : v \in Contents /\ v # Absent
  /\ \A v \in Contents : v # Absent => v \in SUBSET Whole
<1>1. 0 \notin Whole /\ 1 \in Whole
  BY ConstantsAssumption DEF Whole
<1>2. 0 \in Absent
  BY DEF Absent
<1>3. \A v \in SUBSET Whole : v # Absent
  BY <1>1, <1>2
<1>4. Whole \in SUBSET Whole /\ {} \in SUBSET Whole
  OBVIOUS
<1>5. \A v : v \in Contents <=> v \in SUBSET Whole \/ v = Absent
  BY DEF Contents
<1> QED BY <1>3, <1>4, <1>5

\* What a move does to the object of its path.
LEMMA MoveObject ==
  ASSUME Inv, NEW c \in Calls, Moves(c)
  PROVE  \/ obj' = obj
         \/ /\ Changes(op[c])
            /\ \E v \in Contents :
                 /\ Becomes(c, v)
                 /\ v = Absent => linked' = linked \ SamePath(c)
                 /\ Torn(v) => kind \notin Cloud /\ op[c] \in Uploads /\ pc'[c] = "write"
<1>1. pc \in [Calls -> PC]
  BY DEF Inv, TypeOK
<1>2. CASE Waits(c) \/ Fails(c) \/ Closes(c) \/ Reads(c) \/ Leaves(c)
  BY <1>2 DEF Waits, Fails, Closes, Reads, Leaves
<1>3. CASE Takes(c)
  BY <1>3, ContentFacts DEF Takes, Changes, Torn
<1>4. CASE Opens(c)
  BY <1>1, <1>4, ContentFacts DEF Opens, InPlace, Goto, Changes
<1>5. CASE Writes(c)
  <2>1. CASE c \in linked
    <3>1. Object(c) \in SUBSET Whole
      BY <2>1, ContentFacts, ConstantsAssumption DEF Inv, Linked, TypeOK, Object, Contents
    <3>2. sent[c] + 1 \in Whole
      BY <1>5, ConstantsAssumption DEF Writes, Inv, TypeOK, Whole
    <3>3. Object(c) \cup {sent[c] + 1} \in SUBSET Whole
      BY <3>1, <3>2
    <3> DEFINE v == Object(c) \cup {sent[c] + 1}
    <3>4. v \in Contents /\ v # Absent
      BY <3>3, ContentFacts
    <3>5. Becomes(c, v) /\ Changes(op[c]) /\ kind \notin Cloud /\ op[c] \in Uploads /\ pc'[c] = "write"
      BY <1>5, <2>1 DEF Writes, InPlace, Changes
    <3> QED BY <3>4, <3>5
  <2>2. CASE c \notin linked
    BY <1>5, <2>2 DEF Writes
  <2> QED BY <2>1, <2>2
<1>6. CASE Removes(c)
  BY <1>6, ContentFacts DEF Removes, Changes, Torn
<1> QED BY <1>2, <1>3, <1>4, <1>5, <1>6 DEF Moves

\* What every move leaves alone.
LEMMA MoveFrame ==
  ASSUME Inv, NEW c \in Calls, Moves(c)
  PROVE  /\ Running(c) /\ Frame /\ Rest
         /\ linked' \in {linked, linked \cup {c}, linked \ SamePath(c)}
         /\ \E n \in 0 .. Size : sent' = [sent EXCEPT ![c] = n]
         /\ \E l \in PC \ {"idle"} : Goto(c, l)
         /\ got' \in [Calls -> Contents]
<1>1. /\ sent[c] \in 0 .. Size /\ sent = [sent EXCEPT ![c] = sent[c]]
      /\ pc = [pc EXCEPT ![c] = pc[c]] /\ got \in [Calls -> Contents]
  BY DEF Inv, TypeOK, Contents
<1>2. CASE Waits(c)
  BY <1>1, <1>2, PCFacts DEF Waits
<1>3. CASE Fails(c)
  BY <1>1, <1>3, PCFacts DEF Fails, Ended
<1>4. CASE Takes(c)
  BY <1>1, <1>4, PCFacts DEF Takes, Ended
<1>5. CASE Opens(c)
  <2>1. 0 \in 0 .. Size /\ "write" \in PC \ {"idle"}
    BY ConstantsAssumption DEF PC
  <2> QED BY <1>1, <1>5, <2>1 DEF Opens, InPlace
<1>6. CASE Writes(c)
  <2>1. sent[c] + 1 \in 0 .. Size
    BY <1>1, <1>6, ConstantsAssumption DEF Writes
  <2>2. Running(c) /\ "write" \in PC \ {"idle"}
    BY <1>6, PCFacts DEF Writes, Running, PC
  <2>3. Goto(c, "write")
    BY <1>1, <1>6 DEF Writes, Goto
  <2> QED BY <1>1, <1>6, <2>1, <2>2, <2>3 DEF Writes, InPlace
<1>7. CASE Closes(c)
  <2>1. Running(c) /\ "ok" \in PC \ {"idle"}
    BY <1>7, PCFacts DEF Closes, Running, PC, Ended
  <2> QED BY <1>1, <1>7, <2>1 DEF Closes, InPlace
<1>8. CASE Reads(c)
  <2>1. got' \in [Calls -> Contents]
    BY <1>1, <1>8, ContentFacts DEF Reads
  <2>2. "ok" \in PC \ {"idle"} /\ "missing" \in PC \ {"idle"}
    BY DEF PC, Ended
  <2> QED BY <1>1, <1>8, <2>1, <2>2 DEF Reads
<1>9. CASE Removes(c)
  <2>1. "rmdir" \in PC \ {"idle"}
    BY DEF PC
  <2> QED BY <1>1, <1>9, <2>1 DEF Removes
<1>10. CASE Leaves(c)
  <2>1. "ok" \in PC \ {"idle"}
    BY DEF PC, Ended
  <2> QED BY <1>1, <1>10, <2>1 DEF Leaves
<1> QED BY <1>2, <1>3, <1>4, <1>5, <1>6, <1>7, <1>8, <1>9, <1>10 DEF Moves
LEMMA MoveType ==
  ASSUME Inv, NEW c \in Calls, Moves(c)
  PROVE  TypeOK'
<1>1. obj' \in [Paths -> Contents]
  BY MoveObject, ConstantsAssumption DEF Inv, TypeOK, Becomes, Contents
<1>2. pc' \in [Calls -> PC]
  BY MoveFrame DEF Inv, TypeOK, Goto
<1>3. sent' \in [Calls -> 0 .. Size]
  BY MoveFrame DEF Inv, TypeOK
<1>4. linked' \in SUBSET Calls
  BY MoveFrame DEF Inv, TypeOK
<1>5. kind' \in Kinds /\ op' \in [Calls -> Ops \cup {"none"}] /\ alone' \in [Calls -> BOOLEAN]
  BY MoveFrame DEF Inv, TypeOK, Frame
<1>6. home' \in BOOLEAN /\ faults' \in Nat
  BY MoveFrame DEF Rest
<1>7. got' \in [Calls -> Contents]
  BY MoveFrame
<1> QED BY <1>1, <1>2, <1>3, <1>4, <1>5, <1>6, <1>7 DEF TypeOK, Contents

LEMMA MoveComplete ==
  ASSUME Inv, NEW c \in Calls, Moves(c)
  PROVE  Complete'
<1> SUFFICES ASSUME NEW d \in Calls, pc'[d] = "complete" PROVE sent'[d] = Size
  BY DEF Complete
<1>1. CASE d # c
  BY <1>1, MoveFrame DEF Inv, TypeOK, Goto, Complete
<1>2. CASE d = c
  <2>1. Waits(c)
    BY <1>2 DEF Moves, Waits, Fails, Takes, Opens, Writes, Closes, Reads, Removes, Leaves, Goto, Inv, TypeOK
  <2> QED BY <1>2, <2>1 DEF Waits, Goto, Inv, TypeOK
<1> QED BY <1>1, <1>2

LEMMA MoveLinked ==
  ASSUME Inv, NEW c \in Calls, Moves(c)
  PROVE  Linked'
<1> SUFFICES ASSUME NEW d \in linked' PROVE Object(d)' # Absent
  BY DEF Linked
<1>1. obj \in [Paths -> Contents] /\ linked \subseteq Calls /\ PathOf \in [Calls -> Paths]
  BY ConstantsAssumption DEF Inv, TypeOK, Contents
<1>2. d \in Calls /\ (d \in linked \/ d = c)
  BY <1>1, MoveFrame
<1>3. CASE obj' = obj
  <2>1. CASE d \in linked
    BY <1>3, <2>1 DEF Object, Inv, Linked
  <2>2. CASE d \notin linked
    <3>1. Opens(c) /\ d = c
      BY <1>2, <2>2 DEF Moves, Waits, Fails, Takes, Opens, Writes, Closes, Reads, Removes, Leaves
    <3> QED BY <3>1, <1>1, ContentFacts DEF Opens, Becomes, Object
  <2> QED BY <2>1, <2>2
<1>4. CASE obj' # obj
  <2>1. PICK v \in Contents :
          Becomes(c, v) /\ (v = Absent => linked' = linked \ SamePath(c))
    BY <1>4, MoveObject
  <2>2. CASE PathOf[d] = PathOf[c]
    BY <1>1, <1>2, <2>1, <2>2 DEF Object, Becomes, SamePath
  <2>3. CASE PathOf[d] # PathOf[c]
    BY <1>1, <1>2, <2>1, <2>3 DEF Object, Becomes, Inv, Linked
  <2> QED BY <2>2, <2>3
<1> QED BY <1>3, <1>4

LEMMA MoveApart ==
  ASSUME Inv, NEW c \in Calls, Moves(c)
  PROVE  Apart' /\ IdleNone'
<1>1. PICK l \in PC \ {"idle"} : Goto(c, l)
  BY MoveFrame
<1>2. \A d \in Calls : (Running(d)' => Running(d)) /\ (pc'[d] = "idle" => pc[d] = "idle")
  BY <1>1, MoveFrame DEF Inv, TypeOK, Goto, Running
<1>3. op' = op /\ alone' = alone
  BY MoveFrame DEF Frame
<1>4. Apart'
  BY <1>2, <1>3 DEF Inv, Apart, Changes
<1>5. IdleNone'
  BY <1>2, <1>3 DEF Inv, IdleNone
<1> QED BY <1>4, <1>5

\* A call that is alone sees no other call change its object.
LEMMA AloneSees ==
  ASSUME Inv, NEW c \in Calls, Moves(c), NEW d \in Calls, d # c, Running(d), alone[d]
  PROVE  /\ Object(d)' = Object(d) /\ pc'[d] = pc[d] /\ sent'[d] = sent[d]
         /\ (d \in linked => d \in linked')
<1>1. obj \in [Paths -> Contents] /\ linked \subseteq Calls /\ PathOf \in [Calls -> Paths]
  BY ConstantsAssumption DEF Inv, TypeOK, Contents
<1>2. pc'[d] = pc[d] /\ sent'[d] = sent[d]
  BY MoveFrame DEF Goto, Inv, TypeOK
<1>3. Changes(op[c]) => PathOf[d] # PathOf[c]
  BY MoveFrame DEF Inv, Apart
<1>4. Object(d)' = Object(d)
  BY <1>1, <1>3, MoveObject DEF Becomes, Object
<1>5. linked' = linked \ SamePath(c) => linked' = linked \/ Changes(op[c])
  BY DEF Moves, Waits, Fails, Takes, Opens, Writes, Closes, Reads, Removes, Leaves, Changes
<1>6. d \in linked => d \in linked'
  BY <1>3, <1>5, MoveFrame DEF SamePath
<1> QED BY <1>2, <1>4, <1>6

LEMMA MoveAlone ==
  ASSUME Inv, NEW c \in Calls, Moves(c)
  PROVE  AloneWrites' /\ AloneGone'
<1>1. /\ obj \in [Paths -> Contents] /\ PathOf \in [Calls -> Paths]
      /\ pc \in [Calls -> PC] /\ sent \in [Calls -> 0 .. Size] /\ alone' = alone
  BY ConstantsAssumption, MoveFrame DEF Inv, TypeOK, Contents, Frame
<1>2. ASSUME NEW d \in Calls, d # c, pc'[d] = "write", alone'[d]
      PROVE  d \in linked' /\ Object(d)' = 1 .. sent'[d]
  <2>1. pc[d] = "write" /\ alone[d] /\ Running(d)
    BY <1>1, <1>2, MoveFrame, PCFacts DEF Goto, Running
  <2> QED BY <1>2, <2>1, AloneSees DEF Inv, AloneWrites
<1>3. ASSUME pc'[c] = "write", alone'[c]
      PROVE  c \in linked' /\ Object(c)' = 1 .. sent'[c]
  <2>1. Opens(c) \/ Writes(c)
    BY <1>1, <1>3, PCFacts
       DEF Moves, Waits, Fails, Takes, Closes, Reads, Removes, Leaves, Goto, InMiddle
  <2>2. CASE Opens(c)
    <3>1. c \in linked' /\ Object(c)' = {} /\ sent'[c] = 0
      BY <1>1, <2>2 DEF Opens, Becomes, Object
    <3> QED BY <3>1
  <2>3. CASE Writes(c)
    <3>1. c \in linked /\ Object(c) = 1 .. sent[c]
      BY <1>1, <1>3, <2>3 DEF Writes, Inv, AloneWrites
    <3>2. c \in linked' /\ Object(c)' = Object(c) \cup {sent[c] + 1} /\ sent'[c] = sent[c] + 1
      BY <1>1, <2>3, <3>1 DEF Writes, Becomes, Object
    <3>3. sent[c] \in Nat
      BY <1>1
    <3>4. (1 .. sent[c]) \cup {sent[c] + 1} = 1 .. (sent[c] + 1)
      BY <3>3
    <3> QED BY <3>1, <3>2, <3>4
  <2> QED BY <2>1, <2>2, <2>3
<1>4. AloneWrites'
  BY <1>2, <1>3 DEF AloneWrites
<1>5. ASSUME NEW d \in Calls, d # c, pc'[d] = "rmdir", alone'[d]
      PROVE  Object(d)' = Absent
  <2>1. pc[d] = "rmdir" /\ alone[d] /\ Running(d)
    BY <1>1, <1>5, MoveFrame, PCFacts DEF Goto, Running
  <2> QED BY <1>5, <2>1, AloneSees DEF Inv, AloneGone
<1>6. ASSUME pc'[c] = "rmdir"
      PROVE  Object(c)' = Absent
  <2>1. Removes(c)
    BY <1>1, <1>6, PCFacts
       DEF Moves, Waits, Fails, Takes, Opens, Writes, Closes, Reads, Leaves, Goto, InMiddle
  <2> QED BY <1>1, <2>1 DEF Removes, Becomes, Object
<1>7. AloneGone'
  BY <1>5, <1>6 DEF AloneGone
<1> QED BY <1>4, <1>7

Explains(c) == op[c] \in Uploads /\ (Running(c) \/ pc[c] = "failed" \/ ~alone[c])

LEMMA MoveTorn ==
  ASSUME Inv, NEW c \in Calls, Moves(c)
  PROVE  TornExplained'
<1> SUFFICES ASSUME NEW p \in Paths, Torn(obj'[p])
             PROVE  kind' \notin Cloud /\ \E d \in Calls : PathOf[d] = p /\ Explains(d)'
  BY DEF TornExplained, Explains, Torn
<1>1. /\ obj \in [Paths -> Contents] /\ PathOf \in [Calls -> Paths]
      /\ pc \in [Calls -> PC] /\ alone' = alone /\ op' = op /\ kind' = kind
  BY ConstantsAssumption, MoveFrame DEF Inv, TypeOK, Contents, Frame
<1>2. CASE obj'[p] = obj[p]
  <2>1. kind \notin Cloud /\ \E d \in Calls : PathOf[d] = p /\ Explains(d)
    BY <1>2 DEF Inv, TornExplained, Explains
  <2>2. PICK d \in Calls : PathOf[d] = p /\ Explains(d)
    BY <2>1
  <2>3. CASE d # c
    <3>1. Explains(d)'
      BY <1>1, <2>2, <2>3, MoveFrame DEF Explains, Goto, Running
    <3> QED BY <1>1, <2>1, <2>2, <3>1
  <2>4. CASE d = c /\ alone[c]
    <3>1. ~Reads(c) /\ ~Leaves(c) /\ ~Removes(c)
      BY <2>2, <2>4 DEF Explains, Reads, Leaves, Removes, Uploads, Downloads
    <3>2. ~Takes(c)
      BY <1>1, <2>2, <2>4 DEF Takes, Explains, Uploads, Becomes, Torn
    <3>3. ~Closes(c)
      BY <1>2, <2>2, <2>4 DEF Closes, Inv, AloneWrites, Object, Torn, Whole
    <3>4. Running(c)' \/ pc'[c] = "failed"
      BY <1>1, <3>1, <3>2, <3>3, PCFacts
         DEF Moves, Waits, Fails, Opens, Writes, Goto, Running
    <3> QED BY <1>1, <2>1, <2>2, <2>4, <3>4 DEF Explains
  <2>5. CASE d = c /\ ~alone[c]
    BY <1>1, <2>1, <2>2, <2>5 DEF Explains
  <2> QED BY <2>3, <2>4, <2>5
<1>3. CASE obj'[p] # obj[p]
  <2>1. PICK v \in Contents :
          /\ Becomes(c, v)
          /\ Torn(v) => kind \notin Cloud /\ op[c] \in Uploads /\ pc'[c] = "write"
    BY <1>3, MoveObject
  <2>2. PathOf[c] = p /\ v = obj'[p]
    BY <1>1, <1>3, <2>1 DEF Becomes
  <2>3. Explains(c)'
    BY <1>1, <2>1, <2>2, PCFacts DEF Explains, Running
  <2> QED BY <1>1, <2>1, <2>2, <2>3
<1> QED BY <1>2, <1>3
-----------------------------------------------------------------------------
(* The call begins, and the container appears                              *)

LEMMA FirstFacts ==
  ASSUME NEW c \in Calls, NEW o \in Ops
  PROVE  First(c, o) \in InMiddle /\ First(c, o) # "complete"
<1>1. First(c, o) \in {"token", "mkdir", "multipart", "put", "check", "remove", "read"}
  BY DEF First
<1> QED BY <1>1, PCFacts

LEMMA StartFrame ==
  ASSUME Inv, NEW c \in Calls, NEW o \in Asks[c], Start(c, o)
  PROVE  /\ o \in Ops
         /\ \E l \in InMiddle : l # "complete" /\ Goto(c, l)
         /\ \A d \in Calls : d # c => pc'[d] = pc[d] /\ op'[d] = op[d] /\ (alone'[d] => alone[d])
         /\ alone' \in [Calls -> BOOLEAN]
<1>1. o \in Ops
  BY ConstantsAssumption
<1>2. \E l \in InMiddle : l # "complete" /\ Goto(c, l)
  BY <1>1, FirstFacts DEF Start
<1>3. \A d \in Calls : d # c => pc'[d] = pc[d] /\ op'[d] = op[d] /\ (alone'[d] => alone[d])
  BY DEF Start, Goto, Inv, TypeOK
<1>4. alone' \in [Calls -> BOOLEAN]
  <2>1. (Others(c) = {}) \in BOOLEAN /\ \A d \in Calls : (alone[d] /\ d \notin Overlapped(c, o)) \in BOOLEAN
    OBVIOUS
  <2>2. alone' = [d \in Calls |->
                   IF d = c THEN Others(c) = {} ELSE alone[d] /\ d \notin Overlapped(c, o)]
    BY DEF Start
  <2> QED BY <2>1, <2>2
<1> QED BY <1>1, <1>2, <1>3, <1>4

LEMMA StartInv ==
  ASSUME Inv, NEW c \in Calls, NEW o \in Asks[c], Start(c, o)
  PROVE  Inv'
<1>1. /\ pc \in [Calls -> PC] /\ op \in [Calls -> Ops \cup {"none"}]
      /\ pc[c] = "idle" /\ op[c] = "none"
  BY DEF Inv, TypeOK, Start, IdleNone
<1>2. PICK l \in InMiddle : l # "complete" /\ Goto(c, l)
  BY StartFrame
<1>3. pc'[c] = l /\ l \in PC /\ l \notin {"idle", "write", "rmdir", "failed"}
  BY <1>1, <1>2, PCFacts DEF Goto, InMiddle, Ended
<1>4. kind' = kind /\ obj' = obj /\ home' = home /\ sent' = sent /\ linked' = linked
      /\ got' = got /\ faults' = faults
  BY DEF Start
<1>5. TypeOK'
  <2>1. op' \in [Calls -> Ops \cup {"none"}]
    BY <1>1, StartFrame DEF Start
  <2>2. pc' \in [Calls -> PC]
    BY <1>1, <1>2, <1>3 DEF Goto
  <2> QED BY <1>4, <2>1, <2>2, StartFrame DEF Inv, TypeOK
<1>6. Complete' /\ AloneWrites' /\ AloneGone'
  BY <1>2, <1>3, <1>4, StartFrame DEF Inv, Complete, AloneWrites, AloneGone, Object
<1>7. Linked'
  BY <1>4 DEF Inv, Linked, Object
<1>8. IdleNone'
  BY <1>3, StartFrame DEF Inv, IdleNone
<1>9. Apart'
  <2> SUFFICES ASSUME NEW d \in Calls, NEW e \in Calls, d # e, Running(d)', Running(e)',
                      PathOf[d] = PathOf[e], Changes(op'[e])
               PROVE  ~alone'[d]
    BY DEF Apart, Changes
  <2>1. CASE d # c /\ e # c
    BY <2>1, StartFrame DEF Inv, Apart, Running
  <2>2. CASE d = c
    <3>1. Running(e) /\ Changes(op[e])
      BY <2>2, StartFrame DEF Running
    <3>2. e \in Others(c)
      BY <2>2, <3>1 DEF Others
    <3> QED BY <2>2, <3>2 DEF Start
  <2>3. CASE e = c
    <3>1. Running(d) /\ Changes(o)
      BY <1>1, <2>3, StartFrame DEF Running, Start
    <3>2. d \in Overlapped(c, o)
      BY <2>3, <3>1 DEF Overlapped
    <3> QED BY <2>3, <3>2 DEF Start
  <2> QED BY <2>1, <2>2, <2>3
<1>10. TornExplained'
  <2> SUFFICES ASSUME NEW p \in Paths, Torn(obj[p])
               PROVE  kind \notin Cloud /\ \E d \in Calls : PathOf[d] = p /\ Explains(d)'
    BY <1>4 DEF TornExplained, Explains, Torn
  <2>1. kind \notin Cloud /\ \E d \in Calls : PathOf[d] = p /\ Explains(d)
    BY DEF Inv, TornExplained, Explains
  <2>2. PICK d \in Calls : PathOf[d] = p /\ Explains(d)
    BY <2>1
  <2>3. d # c
    BY <1>1, <2>2 DEF Explains, Uploads
  <2>4. Explains(d)'
    BY <2>2, <2>3, StartFrame DEF Explains, Running
  <2> QED BY <2>1, <2>2, <2>4
<1> QED BY <1>5, <1>6, <1>7, <1>8, <1>9, <1>10 DEF Inv

LEMMA AdminInv ==
  ASSUME Inv, AdminCreate
  PROVE  Inv'
<1>1. /\ UNCHANGED <<kind, obj, op, pc, sent, linked, got, alone, faults>> /\ home' \in BOOLEAN
  BY DEF AdminCreate
<1> QED
  BY <1>1 DEF Inv, TypeOK, Complete, Linked, Apart, AloneWrites, AloneGone, IdleNone,
     TornExplained, Object, Running

LEMMA InitInv == Init => Inv
<1> SUFFICES ASSUME Init PROVE Inv
  OBVIOUS
<1>1. TypeOK
  <2>1. 0 \in 0 .. Size /\ "idle" \in PC
    BY ConstantsAssumption DEF PC
  <2>2. kind \in Kinds /\ home \in BOOLEAN /\ faults \in Nat /\ linked \in SUBSET Calls
    BY DEF Init
  <2>3. obj \in [Paths -> Contents] /\ got \in [Calls -> Contents]
    BY ContentFacts DEF Init
  <2> QED BY <2>1, <2>2, <2>3 DEF Init, TypeOK, Contents
<1>2. Complete /\ Linked /\ Apart /\ AloneWrites /\ AloneGone /\ IdleNone
  BY DEF Init, Complete, Linked, Apart, AloneWrites, AloneGone, IdleNone, Running
<1>3. TornExplained
  BY DEF Init, TornExplained, Torn
<1> QED BY <1>1, <1>2, <1>3 DEF Inv

\* A step is the admin's, the begin of a call or a move.
LEMMA NextMoves ==
  ASSUME Inv, Next
  PROVE  \/ AdminCreate
         \/ \E c \in Calls : Moves(c) \/ \E o \in Asks[c] : Start(c, o)
  BY StepMoves, InterruptedMoves DEF Next, Inv

LEMMA NextInv == Inv /\ [Next]_vars => Inv'
<1> SUFFICES ASSUME Inv, [Next]_vars PROVE Inv'
  OBVIOUS
<1>1. ASSUME NEW c \in Calls, Moves(c) PROVE Inv'
  BY <1>1, MoveType, MoveComplete, MoveLinked, MoveApart, MoveAlone, MoveTorn DEF Inv
<1>2. CASE UNCHANGED vars
  BY <1>2 DEF vars, Inv, TypeOK, Complete, Linked, Apart, AloneWrites, AloneGone, IdleNone,
     TornExplained, Object, Running
<1> QED BY <1>1, <1>2, NextMoves, StartInv, AdminInv

\* Every register of every backend keeps its type: a chunk is written only to
\* a file that is there.
THEOREM TypeCorrect == Spec => []TypeOK
<1>1. Inv => TypeOK
  BY DEF Inv
<1> QED BY <1>1, InitInv, NextInv, PTL DEF Spec

\* A path shows part of a content only on a backend that writes in place, and
\* only for an upload that runs, failed or met another call.
THEOREM TornSafe == Spec => []TornExplained
<1>1. Inv => TornExplained
  BY DEF Inv
<1> QED BY <1>1, InitInv, NextInv, PTL DEF Spec
-----------------------------------------------------------------------------
(* The refinement                                                          *)

aObj == [p \in Paths |-> Shown(obj[p])]
aOp == [c \in Calls |-> OpOf(op[c])]
aSt == [c \in Calls |-> IF Running(c) THEN "running" ELSE pc[c]]
aGot == [c \in Calls |-> Shown(got[c])]

LEMMA NamesFacts ==
  /\ "running" \notin PC /\ \A l \in Ended : l \in PC /\ l # "idle"
  /\ \A o \in Ops : OpOf(o) \in {"upload", "download", "delete"}
  /\ \A o \in Ops \cup {"none"} :
       /\ OpOf(o) = "upload" <=> o \in Uploads
       /\ OpOf(o) = "download" <=> o \in Downloads
       /\ OpOf(o) = "delete" <=> o = "delete"
       /\ OpOf(o) \in {"upload", "delete"} <=> Changes(o)
  BY DEF PC, Ended, Ops, Uploads, Downloads, OpOf, Changes

LEMMA ShownFacts ==
  /\ Shown(Absent) = "none" /\ Shown(Whole) = "whole"
  /\ \A v \in SUBSET Whole : Shown(v) \in {"torn", "whole"}
  /\ \A v \in Contents : Shown(v) = "none" => v = Absent
  BY ContentFacts DEF Shown

\* The abstract state of a call.
LEMMA RunningSame ==
  ASSUME TypeOK, NEW c \in Calls
  PROVE  /\ aSt[c] = "running" <=> Running(c)
         /\ ~Running(c) => aSt[c] = pc[c]
  BY NamesFacts DEF TypeOK, aSt

LEMMA StStays ==
  ASSUME TypeOK, NEW c \in Calls, Running(c), NEW l \in PC, l \notin {"idle"} \cup Ended,
         Goto(c, l)
  PROVE  aSt' = aSt
<1>1. \A d \in Calls : Running(d)' <=> Running(d)
  BY DEF TypeOK, Goto, Running
<1>2. \A d \in Calls : ~Running(d) => pc'[d] = pc[d]
  BY DEF TypeOK, Goto
<1> QED BY <1>1, <1>2 DEF aSt

LEMMA StEnds ==
  ASSUME TypeOK, NEW c \in Calls, NEW l \in Ended, Goto(c, l)
  PROVE  aSt' = [aSt EXCEPT ![c] = l]
<1>1. ~Running(c)' /\ pc'[c] = l
  BY DEF TypeOK, Goto, Running
<1>2. \A d \in Calls : d # c => pc'[d] = pc[d] /\ (Running(d)' <=> Running(d))
  BY DEF TypeOK, Goto, Running
<1> QED BY <1>1, <1>2 DEF aSt

LEMMA StStarts ==
  ASSUME TypeOK, NEW c \in Calls, NEW l \in PC, l \notin {"idle"} \cup Ended, Goto(c, l)
  PROVE  aSt' = [aSt EXCEPT ![c] = "running"]
<1>1. Running(c)'
  BY DEF TypeOK, Goto, Running
<1>2. \A d \in Calls : d # c => pc'[d] = pc[d] /\ (Running(d)' <=> Running(d))
  BY DEF TypeOK, Goto, Running
<1> QED BY <1>1, <1>2 DEF aSt

LEMMA ObjBecomes ==
  ASSUME TypeOK, NEW c \in Calls, NEW v, Becomes(c, v)
  PROVE  aObj' = [aObj EXCEPT ![PathOf[c]] = Shown(v)]
  BY ConstantsAssumption DEF TypeOK, Becomes, aObj

LEMMA GotBecomes ==
  ASSUME TypeOK, NEW c \in Calls, NEW v, got' = [got EXCEPT ![c] = v]
  PROVE  aGot' = [aGot EXCEPT ![c] = Shown(v)]
  BY DEF TypeOK, aGot

LEMMA ObjOf ==
  ASSUME TypeOK, NEW c \in Calls
  PROVE  /\ aObj[PathOf[c]] = Shown(Object(c)) /\ aOp[c] = OpOf(op[c])
         /\ Object(c) \in Contents /\ op[c] \in Ops \cup {"none"}
  BY ConstantsAssumption DEF TypeOK, aObj, aOp, Object, Contents

\* The abstract actions over these functions.
AFrame == (kind' \in Cloud) = (kind \in Cloud) /\ aOp' = aOp /\ alone' = alone

LEMMA AFrameBy == Frame => AFrame
  BY DEF Frame, AFrame, aOp

LEMMA FailBy ==
  ASSUME TypeOK, NEW c \in Calls, Running(c), AFrame, aObj' = aObj, aGot' = aGot,
         aSt' = [aSt EXCEPT ![c] = "failed"]
  PROVE  OS!Fail(c)
  BY RunningSame DEF OS!Fail, OS!Running, OS!Ends, AFrame, aObj, aGot, aSt, aOp

LEMMA EffectBy ==
  ASSUME TypeOK, NEW c \in Calls, Running(c), AFrame, aGot' = aGot,
         NEW l \in {"ok", "failed"}, aSt' = [aSt EXCEPT ![c] = l],
         \/ aOp[c] = "upload" /\ aObj' = [aObj EXCEPT ![PathOf[c]] = "whole"]
         \/ aOp[c] = "delete" /\ aObj' = [aObj EXCEPT ![PathOf[c]] = "none"]
  PROVE  OS!Effect(c)
  BY RunningSame DEF OS!Effect, OS!Running, OS!Ends, OS!Becomes, AFrame, aObj, aGot, aSt, aOp

LEMMA ProgressBy ==
  ASSUME TypeOK, NEW c \in Calls, Running(c), kind \notin Cloud, AFrame, aGot' = aGot, aSt' = aSt,
         \/ /\ aOp[c] = "upload"
            /\ \E v \in {"torn", "whole"} : aObj' = [aObj EXCEPT ![PathOf[c]] = v]
         \/ aOp[c] = "delete" /\ aObj' = [aObj EXCEPT ![PathOf[c]] = "none"]
  PROVE  OS!Progress(c)
  BY RunningSame DEF OS!Progress, OS!Running, OS!Becomes, AFrame, aObj, aGot, aSt, aOp

LEMMA ReturnBy ==
  ASSUME TypeOK, NEW c \in Calls, Running(c), kind \notin Cloud, AFrame,
         aObj' = aObj, aGot' = aGot, aSt' = [aSt EXCEPT ![c] = "ok"],
         \/ aOp[c] = "upload" /\ (alone[c] => aObj[PathOf[c]] = "whole")
         \/ aOp[c] = "delete" /\ (alone[c] => aObj[PathOf[c]] = "none")
  PROVE  OS!Return(c)
  BY RunningSame DEF OS!Return, OS!Running, OS!Changes, OS!Ends, AFrame, aObj, aGot, aSt, aOp

LEMMA ReadBy ==
  ASSUME TypeOK, NEW c \in Calls, Running(c), AFrame, aObj' = aObj, aOp[c] = "download",
         \/ /\ \E v \in {"torn", "whole"} :
                  /\ aObj[PathOf[c]] = v \/ ~(kind \in Cloud \/ alone[c])
                  /\ aGot' = [aGot EXCEPT ![c] = v]
            /\ aSt' = [aSt EXCEPT ![c] = "ok"]
         \/ aObj[PathOf[c]] = "none" /\ aSt' = [aSt EXCEPT ![c] = "missing"] /\ aGot' = aGot
  PROVE  OS!Read(c)
  BY RunningSame DEF OS!Read, OS!Running, OS!Ends, AFrame, aObj, aGot, aSt, aOp

LEMMA StutterBy ==
  ASSUME AFrame, aObj' = aObj, aGot' = aGot, aSt' = aSt
  PROVE  UNCHANGED OS!vars
  BY DEF OS!vars, AFrame, aObj, aGot, aSt, aOp
\* A move is a step of the contract, or one that its callers do not see.
LEMMA MoveRefines ==
  ASSUME Inv, NEW c \in Calls, Moves(c)
  PROVE  \/ UNCHANGED OS!vars
         \/ OS!Effect(c) \/ OS!Progress(c) \/ OS!Return(c) \/ OS!Read(c) \/ OS!Fail(c)
<1> USE DEF Inv
<1>1. Running(c) /\ AFrame
  BY MoveFrame, AFrameBy
<1>2. obj' = obj => aObj' = aObj
  BY DEF aObj
<1>3. got' = got => aGot' = aGot
  BY DEF aGot
<1>4. /\ op[c] \in Uploads => aOp[c] = "upload"
      /\ op[c] \in Downloads => aOp[c] = "download"
      /\ op[c] = "delete" => aOp[c] = "delete"
  BY ObjOf, NamesFacts
<1>5. CASE Waits(c)
  <2>1. aSt' = aSt
    BY <1>1, <1>5, StStays, PCFacts DEF Waits
  <2> QED BY <1>1, <1>2, <1>3, <1>5, <2>1, StutterBy DEF Waits
<1>6. CASE Fails(c)
  <2>1. aSt' = [aSt EXCEPT ![c] = "failed"]
    BY <1>6, StEnds DEF Fails, Ended
  <2> QED BY <1>1, <1>2, <1>3, <1>6, <2>1, FailBy DEF Fails
<1>7. CASE Takes(c)
  <2>1. PICK l \in {"ok", "failed"} : Goto(c, l)
    BY <1>7 DEF Takes
  <2>2. aSt' = [aSt EXCEPT ![c] = l]
    BY <2>1, StEnds DEF Ended
  <2>3. aGot' = aGot
    BY <1>3, <1>7 DEF Takes
  <2>4. \/ aOp[c] = "upload" /\ aObj' = [aObj EXCEPT ![PathOf[c]] = "whole"]
        \/ aOp[c] = "delete" /\ aObj' = [aObj EXCEPT ![PathOf[c]] = "none"]
    BY <1>4, <1>7, ObjBecomes, ShownFacts DEF Takes
  <2> QED BY <1>1, <2>2, <2>3, <2>4, EffectBy
<1>8. CASE Opens(c)
  <2>1. aSt' = aSt
    BY <1>1, <1>8, StStays, PCFacts DEF Opens, PC
  <2>2. PICK v \in {"torn", "whole"} : aObj' = [aObj EXCEPT ![PathOf[c]] = v]
    BY <1>8, ObjBecomes, ShownFacts DEF Opens
  <2>3. aGot' = aGot /\ kind \notin Cloud /\ aOp[c] = "upload"
    BY <1>3, <1>4, <1>8 DEF Opens, InPlace
  <2> QED BY <1>1, <2>1, <2>2, <2>3, ProgressBy
<1>9. CASE Writes(c)
  <2>1. aSt' = aSt
    <3>1. \A d \in Calls : Running(d)' <=> Running(d)
      BY <1>9 DEF Writes, Running
    <3> QED BY <1>9, <3>1 DEF Writes, aSt
  <2>2. aGot' = aGot /\ kind \notin Cloud /\ aOp[c] = "upload"
    BY <1>3, <1>4, <1>9 DEF Writes, InPlace
  <2>3. CASE c \in linked
    <3>1. Object(c) \in SUBSET Whole
      BY <2>3, ObjOf, ContentFacts DEF Linked
    <3>2. sent[c] + 1 \in Whole
      BY <1>9, ConstantsAssumption DEF Writes, TypeOK, Whole
    <3>3. Object(c) \cup {sent[c] + 1} \in SUBSET Whole
      BY <3>1, <3>2
    <3>4. Becomes(c, Object(c) \cup {sent[c] + 1})
      BY <1>9, <2>3 DEF Writes
    <3>5. \E v \in {"torn", "whole"} : aObj' = [aObj EXCEPT ![PathOf[c]] = v]
      BY <3>3, <3>4, ObjBecomes, ShownFacts
    <3> QED BY <1>1, <2>1, <2>2, <3>5, ProgressBy
  <2>4. CASE c \notin linked
    BY <1>1, <1>2, <1>9, <2>1, <2>2, <2>4, StutterBy DEF Writes
  <2> QED BY <2>3, <2>4
<1>10. CASE Closes(c)
  <2>1. aSt' = [aSt EXCEPT ![c] = "ok"]
    BY <1>10, StEnds DEF Closes, Ended
  <2>2. aGot' = aGot /\ aObj' = aObj /\ kind \notin Cloud /\ aOp[c] = "upload"
    BY <1>2, <1>3, <1>4, <1>10 DEF Closes, InPlace
  <2>3. alone[c] => aObj[PathOf[c]] = "whole"
    BY <1>10, ObjOf, ShownFacts DEF Closes, AloneWrites, Whole
  <2> QED BY <1>1, <2>1, <2>2, <2>3, ReturnBy
<1>11. CASE Reads(c)
  <2>1. aObj' = aObj /\ aOp[c] = "download"
    BY <1>2, <1>4, <1>11 DEF Reads
  <2>2. CASE /\ \E v \in SUBSET Whole :
                  /\ Object(c) = v \/ (kind \notin Cloud /\ ~alone[c])
                  /\ got' = [got EXCEPT ![c] = v]
             /\ Goto(c, "ok")
    <3>1. aSt' = [aSt EXCEPT ![c] = "ok"]
      BY <2>2, StEnds DEF Ended
    <3>2. PICK v \in SUBSET Whole : /\ Object(c) = v \/ (kind \notin Cloud /\ ~alone[c])
                                    /\ got' = [got EXCEPT ![c] = v]
      BY <2>2
    <3>3. Shown(v) \in {"torn", "whole"} /\ aGot' = [aGot EXCEPT ![c] = Shown(v)]
      BY <3>2, GotBecomes, ShownFacts
    <3>4. aObj[PathOf[c]] = Shown(v) \/ ~(kind \in Cloud \/ alone[c])
      BY <3>2, ObjOf
    <3> QED BY <1>1, <2>1, <3>1, <3>3, <3>4, ReadBy
  <2>3. CASE Object(c) = Absent /\ Goto(c, "missing") /\ got' = got
    <3>1. aSt' = [aSt EXCEPT ![c] = "missing"]
      BY <2>3, StEnds DEF Ended
    <3>2. aObj[PathOf[c]] = "none"
      BY <2>3, ObjOf, ShownFacts
    <3> QED BY <1>1, <1>3, <2>1, <2>3, <3>1, <3>2, ReadBy
  <2> QED BY <1>11, <2>2, <2>3 DEF Reads
<1>12. CASE Removes(c)
  <2>1. aSt' = aSt
    BY <1>1, <1>12, StStays, PCFacts DEF Removes, PC
  <2>2. aObj' = [aObj EXCEPT ![PathOf[c]] = "none"]
    BY <1>12, ObjBecomes, ShownFacts DEF Removes
  <2>3. aGot' = aGot /\ kind \notin Cloud /\ aOp[c] = "delete"
    BY <1>3, <1>4, <1>12 DEF Removes, Cloud
  <2> QED BY <1>1, <2>1, <2>2, <2>3, ProgressBy
<1>13. CASE Leaves(c)
  <2>1. aSt' = [aSt EXCEPT ![c] = "ok"]
    BY <1>13, StEnds DEF Leaves, Ended
  <2>2. aGot' = aGot /\ aObj' = aObj /\ kind \notin Cloud /\ aOp[c] = "delete"
    BY <1>2, <1>3, <1>4, <1>13 DEF Leaves, Cloud
  <2>3. alone[c] => aObj[PathOf[c]] = "none"
    BY <1>13, ObjOf, ShownFacts DEF Leaves, AloneGone
  <2> QED BY <1>1, <2>1, <2>2, <2>3, ReturnBy
<1> QED BY <1>5, <1>6, <1>7, <1>8, <1>9, <1>10, <1>11, <1>12, <1>13 DEF Moves

LEMMA StartRefines ==
  ASSUME Inv, NEW c \in Calls, NEW o \in Asks[c], Start(c, o)
  PROVE  OS!Start(c, OpOf(o)) /\ OpOf(o) \in OS!Op
<1> USE DEF Inv
<1>1. o \in Ops /\ OpOf(o) \in {"upload", "download", "delete"}
  BY StartFrame, NamesFacts
<1>2. aSt[c] = "idle"
  BY RunningSame DEF Start, Running
<1>3. aSt' = [aSt EXCEPT ![c] = "running"]
  BY <1>1, FirstFacts, PCFacts, StStarts DEF Start
<1>4. aOp' = [aOp EXCEPT ![c] = OpOf(o)]
  BY DEF Start, aOp, TypeOK
<1>5. aObj' = aObj /\ aGot' = aGot /\ (kind' \in Cloud) = (kind \in Cloud)
  BY DEF Start, aObj, aGot
<1>6. OS!Others(c) = Others(c)
  <2>1. \A d \in Calls : OS!Running(d) <=> Running(d)
    BY RunningSame DEF OS!Running, aSt
  <2>2. \A d \in Calls : OS!Changes([e \in Calls |-> OpOf(op[e])][d]) <=> Changes(op[d])
    BY ObjOf, NamesFacts DEF OS!Changes, aOp
  <2> QED BY <2>1, <2>2 DEF OS!Others, Others
<1>7. OS!Overlapped(c, OpOf(o)) = Overlapped(c, o)
  <2>1. \A d \in Calls : aSt[d] = "running" <=> Running(d)
    BY RunningSame
  <2>2. OpOf(o) \in {"upload", "delete"} <=> Changes(o)
    BY <1>1, NamesFacts
  <2> QED BY <2>1, <2>2 DEF OS!Overlapped, Overlapped, OS!Running, OS!Changes, aSt
<1>8. alone' = [d \in Calls |->
                 IF d = c THEN OS!Others(c) = {}
                 ELSE alone[d] /\ d \notin OS!Overlapped(c, OpOf(o))]
  BY <1>6, <1>7 DEF Start
<1>9. OS!Start(c, OpOf(o))
  BY <1>2, <1>3, <1>4, <1>5, <1>8 DEF OS!Start, aSt, aOp, aObj, aGot
<1> QED BY <1>1, <1>9 DEF OS!Op

LEMMA InitRefines == Init => OS!Init
<1> SUFFICES ASSUME Init PROVE OS!Init
  OBVIOUS
<1>1. aObj = [p \in Paths |-> "none"] /\ aGot = [c \in Calls |-> "none"]
  BY ShownFacts DEF Init, aObj, aGot
<1>2. aOp = [c \in Calls |-> "none"] /\ aSt = [c \in Calls |-> "idle"]
  BY DEF Init, aOp, aSt, OpOf, Uploads, Downloads, Running
<1>3. (kind \in Cloud) \in BOOLEAN
  OBVIOUS
<1> QED BY <1>1, <1>2, <1>3 DEF Init, OS!Init, aObj, aOp, aSt, aGot

LEMMA NextRefines == Inv /\ [Next]_vars => [OS!Next]_(OS!vars)
<1> SUFFICES ASSUME Inv, [Next]_vars PROVE [OS!Next]_(OS!vars)
  OBVIOUS
<1>1. ASSUME NEW c \in Calls, Moves(c) PROVE [OS!Next]_(OS!vars)
  BY <1>1, MoveRefines DEF OS!Next
<1>2. ASSUME NEW c \in Calls, NEW o \in Asks[c], Start(c, o) PROVE [OS!Next]_(OS!vars)
  BY <1>2, StartRefines DEF OS!Next
<1>3. CASE AdminCreate \/ UNCHANGED vars
  <2>1. UNCHANGED <<kind, obj, op, pc, got, alone>>
    BY <1>3 DEF AdminCreate, vars
  <2>2. AFrame /\ aObj' = aObj /\ aGot' = aGot /\ aSt' = aSt
    BY <2>1 DEF AFrame, aObj, aGot, aSt, aOp, Running
  <2> QED BY <2>2, StutterBy
<1> QED BY <1>1, <1>2, <1>3, NextMoves

\* Whatever the kind of the storage, the number of calls, paths and chunks and
\* the requests that fail, every backend keeps the contract of traits.rs.
THEOREM Refinement == Spec => Implements
<1> QED BY InitInv, NextInv, InitRefines, NextRefines, PTL DEF Spec, Implements, OS!Spec
=============================================================================
