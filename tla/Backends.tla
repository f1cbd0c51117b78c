------------------------------ MODULE Backends ------------------------------
(***************************************************************************)
(* The storage backends of src/storage: calls of upload, upload_from_file, *)
(* download, download_to_file and delete on one storage, which is of one   *)
(* of seven kinds (samba is outside the default build). Every request to   *)
(* the service and every file operation is a step; a request may fail      *)
(* before or after its effect, and the process may die between two.        *)
(*                                                                         *)
(* A content is the set of its chunks 1 .. Size. The three cloud services  *)
(* show an object only when it is complete; on the others it is written in *)
(* place, chunk by chunk. Parts that a multipart upload leaves behind at   *)
(* the service, and exists and list (called by tests only), are left out.  *)
(***************************************************************************)
EXTENDS Naturals

CONSTANTS
    Calls,
    Paths,
    PathOf,     \* PathOf[c]: the path call c is about
    Asks,       \* Asks[c]: the operations c may be
    Kinds,      \* the kinds the storage may be of
    Size,       \* number of chunks or parts
    Multipart,  \* Multipart[p]: the operations for which p's size asks for multipart
    MaxFaults   \* bound: failed requests and crashes

Cloud == {"s3", "azure", "gcs"}
AllKinds == Cloud \cup {"local", "hetzner", "sftp", "ftp"}
Uploads == {"upload", "upload_from_file"}
Downloads == {"download", "download_to_file"}
Ops == Uploads \cup Downloads \cup {"delete"}
Absent == {0}
Whole == 1 .. Size

ASSUME ConstantsAssumption ==
    /\ PathOf \in [Calls -> Paths]
    /\ Asks \in [Calls -> SUBSET Ops]
    /\ Kinds \subseteq AllKinds
    /\ Size \in Nat \ {0}
    /\ Multipart \in [Paths -> SUBSET Uploads]
    /\ MaxFaults \in Nat

VARIABLES
    kind,       \* storage_type
    obj,        \* obj[p]: the chunks at path p, or Absent
    home,       \* the container exists, or the directory of the paths
    op,         \* op[c]: what c calls; "none" before the call
    pc,
    sent,       \* sent[c]: the chunks or parts c has sent
    linked,     \* calls whose open file is the one at the path
    got,        \* what a download returned
    alone,      \* history: no other upload or delete of the path ran during c
    faults

vars == <<kind, obj, home, op, pc, sent, linked, got, alone, faults>>

Ended == {"ok", "missing", "failed"}
PC == {"idle", "token", "put", "create", "retry", "multipart", "part", "abort", "complete",
       "mkdir", "rename", "open", "write", "check", "read", "remove", "rmdir"} \cup Ended

TypeOK ==
    /\ kind \in Kinds
    /\ obj \in [Paths -> (SUBSET Whole) \cup {Absent}]
    /\ home \in BOOLEAN
    /\ op \in [Calls -> Ops \cup {"none"}]
    /\ pc \in [Calls -> PC]
    /\ sent \in [Calls -> 0 .. Size]
    /\ linked \in SUBSET Calls
    /\ got \in [Calls -> (SUBSET Whole) \cup {Absent}]
    /\ alone \in [Calls -> BOOLEAN]
    /\ faults \in Nat

Init ==
    /\ kind \in Kinds
    /\ obj = [p \in Paths |-> Absent]
    /\ home \in BOOLEAN
    /\ op = [c \in Calls |-> "none"]
    /\ pc = [c \in Calls |-> "idle"]
    /\ sent = [c \in Calls |-> 0]
    /\ linked = {}
    /\ got = [c \in Calls |-> Absent]
    /\ alone = [c \in Calls |-> TRUE]
    /\ faults = 0

Fault ==
    /\ faults < MaxFaults
    /\ faults' = faults + 1

Running(c) == pc[c] \notin {"idle"} \cup Ended
Goto(c, l) == pc' = [pc EXCEPT ![c] = l]
Object(c) == obj[PathOf[c]]
Becomes(c, v) == obj' = [obj EXCEPT ![PathOf[c]] = v]
\* The whole request works, or its effect is there and its answer is lost.
Answered(c, l) ==
    \/ Goto(c, l) /\ UNCHANGED faults
    \/ Goto(c, "failed") /\ Fault

-----------------------------------------------------------------------------
(* The call                                                                *)

\* Where the operation's code begins on this kind of storage.
First(c, o) ==
    IF kind = "gcs" THEN "token"
    ELSE IF o \in Uploads THEN
        IF kind \notin Cloud THEN "mkdir"
        ELSE IF kind = "s3" /\ o \in Multipart[PathOf[c]] THEN "multipart" ELSE "put"
    ELSE IF kind = "local" THEN "check"
    ELSE IF o = "delete" THEN "remove" ELSE "read"

Changes(o) == o \in Uploads \cup {"delete"}
Others(c) ==
    {d \in Calls \ {c} : Running(d) /\ PathOf[d] = PathOf[c] /\ Changes(op[d])}
\* The calls of the path that a new call o of c overlaps.
Overlapped(c, o) ==
    {d \in Calls \ {c} : Running(d) /\ PathOf[d] = PathOf[c] /\ Changes(o)}

Start(c, o) ==
    /\ pc[c] = "idle"
    /\ op' = [op EXCEPT ![c] = o]
    /\ Goto(c, First(c, o))
    /\ alone' = [d \in Calls |->
                   IF d = c THEN Others(c) = {} ELSE alone[d] /\ d \notin Overlapped(c, o)]
    /\ UNCHANGED <<kind, obj, home, sent, linked, got, faults>>

\* A request that fails, or a process that dies, before anything has changed.
Interrupted(c) ==
    /\ Running(c)
    /\ Fault
    /\ Goto(c, "failed")
    /\ UNCHANGED <<kind, obj, home, op, sent, linked, got, alone>>

-----------------------------------------------------------------------------
(* The cloud services: one request stores the object                       *)

\* The container is created by the upload that misses it, which then tries
\* once more.
PutOnce(c) ==
    /\ pc[c] \in {"put", "retry"}
    /\ \/ home /\ Becomes(c, Whole) /\ Answered(c, "ok")
       \/ /\ ~home
          /\ Goto(c, IF pc[c] = "put" THEN "create" ELSE "failed")
          /\ UNCHANGED <<obj, faults>>
    /\ UNCHANGED <<kind, home, op, sent, linked, got, alone>>

S3Put(c) == kind = "s3" /\ op[c] = "upload" /\ PutOnce(c)
S3PutFile(c) == kind = "s3" /\ op[c] = "upload_from_file" /\ PutOnce(c)
AzurePut(c) == kind = "azure" /\ op[c] = "upload" /\ PutOnce(c)
AzurePutFile(c) == kind = "azure" /\ op[c] = "upload_from_file" /\ PutOnce(c)
GcsPut(c) == kind = "gcs" /\ op[c] = "upload" /\ PutOnce(c)
GcsPutFile(c) == kind = "gcs" /\ op[c] = "upload_from_file" /\ PutOnce(c)

\* get_access_token: every GCS call begins with it, cached or not.
GcsToken(c) ==
    /\ kind = "gcs" /\ pc[c] = "token"
    /\ Goto(c, IF op[c] \in Uploads THEN "put" ELSE IF op[c] = "delete" THEN "remove" ELSE "read")
    /\ UNCHANGED <<kind, obj, home, op, sent, linked, got, alone, faults>>

\* Mutant of CreateContainer: a creation that lost the race is tried again.
CreateContainer_Again(c) ==
    /\ pc[c] = "create"
    /\ \/ ~home /\ home' = TRUE /\ Answered(c, "retry")
       \/ home /\ UNCHANGED <<home, faults>> /\ Goto(c, "create")
    /\ UNCHANGED <<kind, obj, op, sent, linked, got, alone>>

\* A container that another call has created in the meantime is an error,
\* except in the S3 region that answers 200.
CreateContainer(c) ==
    /\ pc[c] = "create"
    /\ \/ ~home /\ home' = TRUE /\ Answered(c, "retry")
       \/ home /\ UNCHANGED <<home, faults>> /\ Goto(c, "failed")
       \/ home /\ UNCHANGED <<home, faults>> /\ kind = "s3" /\ Goto(c, "retry")
    /\ UNCHANGED <<kind, obj, op, sent, linked, got, alone>>

S3CreateContainer(c) == kind = "s3" /\ CreateContainer(c)
AzureCreateContainer(c) == kind = "azure" /\ CreateContainer(c)
GcsCreateContainer(c) == kind = "gcs" /\ CreateContainer(c)

\* An admin creates the container beforehand.
AdminCreate ==
    /\ kind \in Cloud /\ ~home /\ home' = TRUE
    /\ UNCHANGED <<kind, obj, op, pc, sent, linked, got, alone, faults>>

\* Mutant of MultipartSteps: the upload is completed before the last part.
MultipartSteps_DropsLast(c) ==
    \/ /\ pc[c] = "multipart"
       /\ Goto(c, IF home THEN "part" ELSE "failed")
       /\ UNCHANGED <<obj, sent, faults>>
    \/ /\ pc[c] = "part" /\ sent[c] < Size
       /\ sent' = [sent EXCEPT ![c] = @ + 1]
       /\ Goto(c, IF sent[c] + 2 >= Size THEN "complete" ELSE "part")
       /\ UNCHANGED <<obj, faults>>
    \/ /\ pc[c] = "complete"
       /\ Becomes(c, 1 .. sent[c]) /\ Answered(c, "ok")
       /\ UNCHANGED sent

\* Multipart does not create the bucket. A part that fails aborts the upload.
MultipartSteps(c) ==
    \/ /\ pc[c] = "multipart"
       /\ Goto(c, IF home THEN "part" ELSE "failed")
       /\ UNCHANGED <<obj, sent, faults>>
    \/ /\ pc[c] = "part" /\ sent[c] < Size
       /\ sent' = [sent EXCEPT ![c] = @ + 1]
       /\ Goto(c, IF sent[c] + 1 = Size THEN "complete" ELSE "part")
       /\ UNCHANGED <<obj, faults>>
    \/ /\ pc[c] = "part" /\ Fault
       /\ Goto(c, "abort")
       /\ UNCHANGED <<obj, sent>>
    \/ /\ pc[c] = "abort"
       /\ Goto(c, "failed")
       /\ UNCHANGED <<obj, sent, faults>>
    \/ /\ pc[c] = "complete"
       /\ Becomes(c, 1 .. sent[c]) /\ Answered(c, "ok")
       /\ UNCHANGED sent

MultipartUpload(c) ==
    /\ kind = "s3" /\ op[c] = "upload" /\ MultipartSteps(c)
    /\ UNCHANGED <<kind, home, op, linked, got, alone>>
MultipartUploadFromFile(c) ==
    /\ kind = "s3" /\ op[c] = "upload_from_file" /\ MultipartSteps(c)
    /\ UNCHANGED <<kind, home, op, linked, got, alone>>

-----------------------------------------------------------------------------
(* The others: a file is opened, truncated and written                     *)

SamePath(c) == {d \in Calls : PathOf[d] = PathOf[c]}

\* Directories that cannot be made are noticed when the file is opened.
EnsureParentDirs(c, next) ==
    /\ pc[c] = "mkdir"
    /\ \/ home' = TRUE /\ UNCHANGED faults
       \/ kind # "local" /\ UNCHANGED home /\ Fault
    /\ Goto(c, next)
    /\ UNCHANGED <<obj, sent, linked>>

OpenFile(c) ==
    /\ pc[c] = "open" /\ home
    /\ Becomes(c, {}) /\ linked' = linked \cup {c}
    /\ sent' = [sent EXCEPT ![c] = 0]
    /\ Goto(c, "write")
    /\ UNCHANGED <<home, faults>>

\* Mutant of NoDirectory: the error of the open is swallowed.
NoDirectory_Swallowed(c) ==
    /\ pc[c] = "open" /\ ~home
    /\ Goto(c, "ok")
    /\ UNCHANGED <<obj, home, sent, linked, faults>>

NoDirectory(c) ==
    /\ pc[c] = "open" /\ ~home
    /\ Goto(c, "failed")
    /\ UNCHANGED <<obj, home, sent, linked, faults>>

\* What is written to a file that was deleted or replaced is not at the path.
WriteChunk(c) ==
    /\ pc[c] = "write" /\ sent[c] < Size
    /\ sent' = [sent EXCEPT ![c] = @ + 1]
    /\ IF c \in linked THEN Becomes(c, Object(c) \cup {sent[c] + 1}) ELSE UNCHANGED obj
    /\ UNCHANGED <<home, pc, linked, faults>>

CloseFile(c) ==
    /\ pc[c] = "write" /\ sent[c] = Size
    /\ Goto(c, "ok")
    /\ UNCHANGED <<obj, home, sent, linked, faults>>

WriteFile(c) == OpenFile(c) \/ WriteChunk(c) \/ CloseFile(c)

LocalUpload(c) ==
    /\ kind = "local" /\ op[c] = "upload"
    /\ EnsureParentDirs(c, "open") \/ WriteFile(c) \/ NoDirectory(c)
    /\ UNCHANGED <<kind, op, got, alone>>

\* The rename replaces the file at once; across file systems it is a copy.
Rename(c) ==
    /\ pc[c] = "rename"
    /\ \/ /\ home
          /\ Becomes(c, Whole) /\ linked' = linked \ SamePath(c)
          /\ Goto(c, "ok")
       \/ Goto(c, "open") /\ UNCHANGED <<obj, linked>>
    /\ UNCHANGED <<home, sent, faults>>

LocalUploadFromFile(c) ==
    /\ kind = "local" /\ op[c] = "upload_from_file"
    /\ EnsureParentDirs(c, "rename") \/ Rename(c) \/ WriteFile(c) \/ NoDirectory(c)
    /\ UNCHANGED <<kind, op, got, alone>>

SftpUpload(c) ==
    /\ kind = "sftp" /\ op[c] \in Uploads
    /\ EnsureParentDirs(c, "open") \/ WriteFile(c) \/ NoDirectory(c)
    /\ UNCHANGED <<kind, op, got, alone>>

FtpUpload(c) ==
    /\ kind = "ftp" /\ op[c] \in Uploads
    /\ EnsureParentDirs(c, "open") \/ WriteFile(c) \/ NoDirectory(c)
    /\ UNCHANGED <<kind, op, got, alone>>

\* 409: the directories are made once more and the request is repeated once.
RetryConflict(c) ==
    /\ pc[c] \in {"put", "create", "retry"}
    /\ \/ pc[c] # "create" /\ home /\ Goto(c, "open") /\ UNCHANGED <<home, faults>>
       \/ pc[c] = "put" /\ ~home /\ Goto(c, "create") /\ UNCHANGED <<home, faults>>
       \/ pc[c] = "create" /\ Goto(c, "retry") /\ home' = TRUE /\ UNCHANGED faults
       \/ pc[c] = "create" /\ Goto(c, "retry") /\ UNCHANGED home /\ Fault
       \/ pc[c] = "retry" /\ ~home /\ Goto(c, "failed") /\ UNCHANGED <<home, faults>>
    /\ UNCHANGED <<obj, sent, linked>>

HetznerUpload(c) ==
    /\ kind = "hetzner" /\ op[c] = "upload"
    /\ EnsureParentDirs(c, "put") \/ RetryConflict(c) \/ WriteFile(c)
    /\ UNCHANGED <<kind, op, got, alone>>
HetznerUploadFromFile(c) ==
    /\ kind = "hetzner" /\ op[c] = "upload_from_file"
    /\ EnsureParentDirs(c, "put") \/ RetryConflict(c) \/ WriteFile(c)
    /\ UNCHANGED <<kind, op, got, alone>>

-----------------------------------------------------------------------------
(* Downloads                                                               *)

\* The bytes of a file may change under its reader.
Serve(c) ==
    /\ pc[c] = "read"
    /\ \/ /\ \E v \in SUBSET Whole :
               /\ Object(c) = v \/ (kind \notin Cloud /\ ~alone[c])
               /\ got' = [got EXCEPT ![c] = v]
          /\ Goto(c, "ok")
       \/ Object(c) = Absent /\ Goto(c, IF kind = "local" THEN "failed" ELSE "missing") /\ UNCHANGED got
    /\ UNCHANGED <<kind, obj, home, op, sent, linked, alone, faults>>

\* S3's answer for a missing key is told by a text the SDK need not print.
S3Missing(c) ==
    /\ pc[c] = "read" /\ Object(c) = Absent /\ Goto(c, "failed")
    /\ UNCHANGED <<kind, obj, home, op, sent, linked, got, alone, faults>>

S3Download(c) == kind = "s3" /\ op[c] = "download" /\ (Serve(c) \/ S3Missing(c))
S3DownloadToFile(c) == kind = "s3" /\ op[c] = "download_to_file" /\ (Serve(c) \/ S3Missing(c))
AzureDownload(c) == kind = "azure" /\ op[c] = "download" /\ Serve(c)
AzureDownloadToFile(c) == kind = "azure" /\ op[c] = "download_to_file" /\ Serve(c)
GcsDownload(c) == kind = "gcs" /\ op[c] = "download" /\ Serve(c)
GcsDownloadToFile(c) == kind = "gcs" /\ op[c] = "download_to_file" /\ Serve(c)
HetznerDownload(c) == kind = "hetzner" /\ op[c] = "download" /\ Serve(c)
HetznerDownloadToFile(c) == kind = "hetzner" /\ op[c] = "download_to_file" /\ Serve(c)
SftpDownload(c) == kind = "sftp" /\ op[c] \in Downloads /\ Serve(c)
FtpDownload(c) == kind = "ftp" /\ op[c] \in Downloads /\ Serve(c)

\* exists() first: a file that goes away behind it is an error, not a miss.
LocalExists(c) ==
    /\ kind = "local" /\ pc[c] = "check" /\ op[c] \in Downloads
    /\ Goto(c, IF Object(c) = Absent THEN "missing" ELSE "read")
    /\ UNCHANGED <<kind, obj, home, op, sent, linked, got, alone, faults>>
LocalDownload(c) == kind = "local" /\ op[c] = "download" /\ (LocalExists(c) \/ Serve(c))
LocalDownloadToFile(c) == kind = "local" /\ op[c] = "download_to_file" /\ (LocalExists(c) \/ Serve(c))

-----------------------------------------------------------------------------
(* Deletes                                                                 *)

\* Deleting what is not there succeeds.
Remove(c) ==
    /\ op[c] = "delete" /\ pc[c] = "remove"
    /\ Becomes(c, Absent) /\ linked' = linked \ SamePath(c)
    /\ Answered(c, "ok")
    /\ UNCHANGED <<kind, home, op, sent, got, alone>>

S3Delete(c) ==
    /\ kind = "s3"
    /\ \/ home /\ Remove(c)
       \/ /\ ~home /\ op[c] = "delete" /\ pc[c] = "remove" /\ Goto(c, "failed")
          /\ UNCHANGED <<kind, obj, home, op, sent, linked, got, alone, faults>>
AzureDelete(c) == kind = "azure" /\ Remove(c)
GcsDelete(c) == kind = "gcs" /\ Remove(c)
HetznerDelete(c) == kind = "hetzner" /\ Remove(c)
SftpDelete(c) == kind = "sftp" /\ Remove(c)
FtpDelete(c) == kind = "ftp" /\ Remove(c)

\* The directory goes with its last file, also under an upload that has just
\* made it.
CleanupEmptyParents == home' = (home /\ \E p \in Paths : obj[p] # Absent)

LocalDelete(c) ==
    /\ kind = "local" /\ op[c] = "delete"
    /\ \/ /\ pc[c] = "check"
          /\ Goto(c, IF Object(c) = Absent THEN "ok" ELSE "remove")
          /\ UNCHANGED <<obj, home, linked>>
       \/ /\ pc[c] = "remove" /\ Object(c) = Absent
          /\ Goto(c, "failed")
          /\ UNCHANGED <<obj, home, linked>>
       \/ /\ pc[c] = "remove" /\ Object(c) # Absent
          /\ Becomes(c, Absent) /\ linked' = linked \ SamePath(c)
          /\ Goto(c, "rmdir")
          /\ UNCHANGED home
       \/ /\ pc[c] = "rmdir"
          /\ CleanupEmptyParents
          /\ Goto(c, "ok")
          /\ UNCHANGED <<obj, linked>>
    /\ UNCHANGED <<kind, op, sent, got, alone, faults>>

-----------------------------------------------------------------------------
CloudStep(c) ==
    \/ S3Put(c) \/ S3PutFile(c) \/ AzurePut(c) \/ AzurePutFile(c) \/ GcsPut(c) \/ GcsPutFile(c)
    \/ GcsToken(c)
    \/ S3CreateContainer(c) \/ AzureCreateContainer(c) \/ GcsCreateContainer(c)
    \/ MultipartUpload(c) \/ MultipartUploadFromFile(c)
    \/ S3Download(c) \/ S3DownloadToFile(c) \/ AzureDownload(c) \/ AzureDownloadToFile(c)
    \/ GcsDownload(c) \/ GcsDownloadToFile(c)
    \/ S3Delete(c) \/ AzureDelete(c) \/ GcsDelete(c)

FileStep(c) ==
    \/ LocalUpload(c) \/ LocalUploadFromFile(c) \/ SftpUpload(c) \/ FtpUpload(c)
    \/ HetznerUpload(c) \/ HetznerUploadFromFile(c)
    \/ LocalDownload(c) \/ LocalDownloadToFile(c) \/ SftpDownload(c) \/ FtpDownload(c)
    \/ HetznerDownload(c) \/ HetznerDownloadToFile(c)
    \/ LocalDelete(c) \/ HetznerDelete(c) \/ SftpDelete(c) \/ FtpDelete(c)

Step(c) == CloudStep(c) \/ FileStep(c)

Next ==
    \/ AdminCreate
    \/ \E c \in Calls : Step(c) \/ Interrupted(c) \/ \E o \in Asks[c] : Start(c, o)

\* Every request is answered in the end, or fails.
Spec == Init /\ [][Next]_vars /\ \A c \in Calls : WF_vars(Step(c))

-----------------------------------------------------------------------------
Torn(v) == v \notin {Absent, Whole}

\* A path shows part of a content only on a backend that writes in place, and
\* only while an upload of the path runs, or after one failed or overlapped
\* another upload or delete: no cloud upload, and no local rename, tears it.
TornExplained ==
    \A p \in Paths : Torn(obj[p]) =>
        /\ kind \notin Cloud
        /\ \E c \in Calls : /\ PathOf[c] = p /\ op[c] \in Uploads
                            /\ Running(c) \/ pc[c] = "failed" \/ ~alone[c]

\* A call ends: the container that is missing, the directory that goes away
\* and the conflict are each retried once and never for ever.
CallsReturn == \A c \in Calls : Running(c) ~> pc[c] \in Ended

Shown(v) == IF v = Absent THEN "none" ELSE IF v = Whole THEN "whole" ELSE "torn"
OpOf(o) == IF o \in Uploads THEN "upload" ELSE IF o \in Downloads THEN "download" ELSE o

OS == INSTANCE ObjectStore WITH
        atomic <- kind \in Cloud,
        obj <- [p \in Paths |-> Shown(obj[p])],
        op <- [c \in Calls |-> OpOf(op[c])],
        st <- [c \in Calls |-> IF Running(c) THEN "running" ELSE pc[c]],
        got <- [c \in Calls |-> Shown(got[c])]

\* Every backend keeps the contract of src/storage/traits.rs: cloud calls take
\* effect at once or not at all, a call that met no other upload or delete of
\* its path has its effect when it returns Ok.
Implements == OS!Spec
=============================================================================
