---------------------------- MODULE UploadSession ----------------------------
(***************************************************************************)
(* Resumable (tus) uploads: the upload_sessions table, the temp files on   *)
(* the shared volume, the create, patch and terminate handlers of          *)
(* src/api/uploads.rs, the finalization of the assembled file, and the     *)
(* UploadCleanupWorker of every replica                                    *)
(* (src/workers/upload_cleanup_worker.rs).                                 *)
(*                                                                         *)
(* The client's file is the sequence of byte numbers 1 .. Size, so a temp  *)
(* file shows which bytes it holds and in which order. A body arrives one  *)
(* byte at a time, and every SQL statement and file operation is a step.   *)
(***************************************************************************)
EXTENDS Naturals, Sequences

CONSTANTS
    Sessions,   \* ids of upload_sessions rows
    Patches,    \* PATCH requests
    Nodes,      \* replicas, each with one cleanup worker
    SessionOf,  \* SessionOf[p]: the session PATCH p is for
    TempName,   \* TempName[s]: the UUID in the name of s's temp file
    Size,       \* Upload-Length
    Primaries,  \* what the primary storage may be: "local" renames the temp file into place, "remote" copies it
    MaxFaults,  \* bound: cut connections, database and backend errors
    NoNode

ASSUME ConstantsAssumption ==
    /\ SessionOf \in [Patches -> Sessions]
    /\ Size \in Nat \ {0}
    /\ Primaries \subseteq {"local", "remote"}
    /\ MaxFaults \in Nat
    /\ NoNode \notin Nodes

VARIABLES
    \* upload_sessions
    row,        \* status column; "none" before the INSERT, "gone" once deleted
    offset,     \* offset_bytes
    expired,    \* expires_at is in the past
    \* the temp file: is its name there, and what the file behind it holds
    there,
    data,
    \* the object store and files, file_references
    moved,      \* moved[s]: the hash under which s's file itself became an object
    copies,     \* pairs of a hash and the content uploaded under it
    known,      \* hashes with a files row
    refs,       \* refs[s]: references the finalizations of s have made
    \* the handlers
    cpc,        \* POST and DELETE of a session
    pc,         \* PATCH
    base,       \* the offset the PATCH read
    written,    \* bytes it appended and that are not in offset_bytes
    key,        \* the hash finalize_upload computed
    \* the cleanup workers
    spc,
    lock,       \* the node one of whose connections holds the advisory lock
    fresh,      \* the sweep's lock is the only one its connection holds
    todo,       \* sessions or temp files the sweep has yet to look at
    faults

rowVars == <<row, offset, expired>>
tempVars == <<there, data>>
storeVars == <<moved, copies, known, refs>>
patchVars == <<pc, base, written, key>>
sweepVars == <<spc, lock, fresh, todo>>
vars == <<rowVars, tempVars, storeVars, cpc, patchVars, sweepVars, faults>>

Row == {"none", "in_progress", "completed", "aborted", "gone"}
PC == {"load", "open", "body", "finalize", "store", "refer", "complete", "remove",
       "done", "failed"}
SPC == {"idle", "expired", "abort", "prune", "list", "reconcile", "unlock"}
NoKey == <<0>>

TypeOK ==
    /\ row \in [Sessions -> Row]
    /\ offset \in [Sessions -> 0 .. Size]
    /\ expired \in [Sessions -> BOOLEAN]
    /\ there \in [Sessions -> BOOLEAN]
    /\ data \in [Sessions -> Seq(1 .. Size)]
    /\ moved \in [Sessions -> Seq(1 .. Size) \cup {NoKey}]
    /\ copies \subseteq Seq(1 .. Size) \X Seq(1 .. Size)
    /\ known \subseteq Seq(1 .. Size)
    /\ refs \in [Sessions -> Nat]
    /\ cpc \in [Sessions -> {"new", "insert", "open", "delete", "end"}]
    /\ pc \in [Patches -> PC]
    /\ base \in [Patches -> 0 .. Size]
    /\ written \in [Patches -> 0 .. Size]
    /\ key \in [Patches -> Seq(1 .. Size) \cup {NoKey}]
    /\ spc \in [Nodes -> SPC]
    /\ lock \in Nodes \cup {NoNode}
    /\ fresh \in BOOLEAN
    /\ todo \in [Nodes -> SUBSET Sessions]
    /\ faults \in Nat

Init ==
    /\ row = [s \in Sessions |-> "none"]
    /\ offset = [s \in Sessions |-> 0]
    /\ expired = [s \in Sessions |-> FALSE]
    /\ there = [s \in Sessions |-> FALSE]
    /\ data = [s \in Sessions |-> <<>>]
    /\ moved = [s \in Sessions |-> NoKey]
    /\ copies = {} /\ known = {}
    /\ refs = [s \in Sessions |-> 0]
    /\ cpc = [s \in Sessions |-> "new"]
    /\ pc = [p \in Patches |-> "load"]
    /\ base = [p \in Patches |-> 0]
    /\ written = [p \in Patches |-> 0]
    /\ key = [p \in Patches |-> NoKey]
    /\ spc = [n \in Nodes |-> "idle"]
    /\ lock = NoNode /\ fresh = FALSE
    /\ todo = [n \in Nodes |-> {}]
    /\ faults = 0

Fault ==
    /\ faults < MaxFaults
    /\ faults' = faults + 1

Unlink(s) == there' = [there EXCEPT ![s] = FALSE] /\ UNCHANGED data

-----------------------------------------------------------------------------
(* create: the empty temp file, then the row. The INSERT is not given the  *)
(* UUID of the temp file: the row gets an id of its own.                   *)

CreateTemp(s) ==
    /\ cpc[s] = "new"
    /\ there' = [there EXCEPT ![s] = TRUE]
    /\ cpc' = [cpc EXCEPT ![s] = "insert"]
    /\ UNCHANGED <<rowVars, data, storeVars, patchVars, sweepVars, faults>>

CreateRow(s) ==
    /\ cpc[s] = "insert"
    /\ \/ /\ row' = [row EXCEPT ![s] = "in_progress"]
          /\ cpc' = [cpc EXCEPT ![s] = "open"]
          /\ UNCHANGED faults
       \/ /\ Fault
          /\ cpc' = [cpc EXCEPT ![s] = "end"]
          /\ UNCHANGED row
    /\ UNCHANGED <<offset, expired, tempVars, storeVars, patchVars, sweepVars>>

\* terminate, at any time: the temp file, then the row.
TerminateTemp(s) ==
    /\ cpc[s] = "open"
    /\ row[s] # "gone"
    /\ Unlink(s)
    /\ cpc' = [cpc EXCEPT ![s] = "delete"]
    /\ UNCHANGED <<rowVars, storeVars, patchVars, sweepVars, faults>>

TerminateRow(s) ==
    /\ cpc[s] = "delete"
    /\ \/ row' = [row EXCEPT ![s] = "gone"] /\ UNCHANGED faults
       \/ Fault /\ UNCHANGED row
    /\ cpc' = [cpc EXCEPT ![s] = "end"]
    /\ UNCHANGED <<offset, expired, tempVars, storeVars, patchVars, sweepVars>>

Expire(s) ==
    /\ row[s] # "none"
    /\ ~expired[s]
    /\ expired' = [expired EXCEPT ![s] = TRUE]
    /\ UNCHANGED <<row, offset, tempVars, storeVars, cpc, patchVars, sweepVars, faults>>

-----------------------------------------------------------------------------
(* patch                                                                   *)

Goto(p, l) == pc' = [pc EXCEPT ![p] = l]

\* load_owned_session and the checks on it; a request that fails them changes
\* nothing, so only one that passes is modelled. The client sends the offset
\* the server has.
Load(p) ==
    /\ pc[p] = "load"
    /\ row[SessionOf[p]] = "in_progress"
    /\ base' = [base EXCEPT ![p] = offset[SessionOf[p]]]
    /\ Goto(p, "open")
    /\ UNCHANGED <<rowVars, tempVars, storeVars, cpc, written, key, sweepVars, faults>>

OpenTemp(p) ==
    /\ pc[p] = "open"
    /\ Goto(p, IF there[SessionOf[p]] THEN "body" ELSE "failed")
    /\ UNCHANGED <<rowVars, tempVars, storeVars, cpc, base, written, key, sweepVars, faults>>

\* One more byte of the body, appended to the file the request has open, which
\* may have been unlinked or renamed meanwhile.
Append1(p) ==
    LET s == SessionOf[p] IN
    /\ pc[p] = "body"
    /\ base[p] + written[p] < Size
    /\ data' = [data EXCEPT ![s] = Append(@, base[p] + written[p] + 1)]
    /\ written' = [written EXCEPT ![p] = @ + 1]
    /\ UNCHANGED <<rowVars, there, storeVars, cpc, pc, base, key, sweepVars, faults>>

\* The body breaks off or is longer than Upload-Length, or advance_offset's
\* statement fails: what was appended stays.
BodyFails(p) ==
    /\ pc[p] = "body"
    /\ Fault
    /\ Goto(p, "failed")
    /\ UNCHANGED <<rowVars, tempVars, storeVars, cpc, base, written, key, sweepVars>>

\* Mutants of AdvanceOffset: the row's offset and status are not compared with what
\* was read; the chunk's declared end is stored, not the bytes that came; every
\* chunk is taken for the last one.
AdvanceOffset_NoGuard(p) ==
    LET s == SessionOf[p] IN
    /\ pc[p] = "body"
    /\ offset' = [offset EXCEPT ![s] = base[p] + written[p]]
    /\ written' = [written EXCEPT ![p] = 0]
    /\ Goto(p, IF base[p] + written[p] = Size THEN "finalize" ELSE "done")
    /\ UNCHANGED <<row, expired, tempVars, storeVars, cpc, base, key, sweepVars, faults>>

AdvanceOffset_Declared(p) ==
    LET s == SessionOf[p] IN
    /\ pc[p] = "body"
    /\ row[s] = "in_progress" /\ offset[s] = base[p]
    /\ offset' = [offset EXCEPT ![s] = Size]
    /\ written' = [written EXCEPT ![p] = 0]
    /\ Goto(p, "finalize")
    /\ UNCHANGED <<row, expired, tempVars, storeVars, cpc, base, key, sweepVars, faults>>

AdvanceOffset_Early(p) ==
    LET s == SessionOf[p] IN
    /\ pc[p] = "body"
    /\ row[s] = "in_progress" /\ offset[s] = base[p]
    /\ offset' = [offset EXCEPT ![s] = base[p] + written[p]]
    /\ written' = [written EXCEPT ![p] = 0]
    /\ Goto(p, "finalize")
    /\ UNCHANGED <<row, expired, tempVars, storeVars, cpc, base, key, sweepVars, faults>>

\* advance_offset succeeds only for the offset the request read; else 409.
AdvanceOffset(p) ==
    LET s == SessionOf[p]
        matches == row[s] = "in_progress" /\ offset[s] = base[p] IN
    /\ pc[p] = "body"
    /\ \/ /\ matches
          /\ offset' = [offset EXCEPT ![s] = base[p] + written[p]]
          /\ written' = [written EXCEPT ![p] = 0]
          /\ Goto(p, IF base[p] + written[p] = Size THEN "finalize" ELSE "done")
       \/ /\ ~matches
          /\ Goto(p, "failed")
          /\ UNCHANGED <<offset, written>>
    /\ UNCHANGED <<row, expired, tempVars, storeVars, cpc, base, key, sweepVars, faults>>

-----------------------------------------------------------------------------
(* FileService::finalize_upload, as far as the session's file goes         *)

\* Hash the temp file and insert or find the files row.
HashTemp(p) ==
    LET s == SessionOf[p] IN
    /\ pc[p] = "finalize"
    /\ there[s]
    /\ key' = [key EXCEPT ![p] = data[s]]
    /\ known' = known \cup {data[s]}
    /\ Goto(p, IF data[s] \in known THEN "refer" ELSE "store")
    /\ UNCHANGED <<rowVars, tempVars, moved, copies, refs, cpc, base, written, sweepVars, faults>>

\* upload_from_file to the primary storage, for a new hash.
StoreTemp(p) ==
    LET s == SessionOf[p] IN
    /\ pc[p] = "store"
    /\ there[s]
    /\ \/ /\ "local" \in Primaries
          /\ moved' = [moved EXCEPT ![s] = key[p]]
          /\ Unlink(s)
          /\ UNCHANGED copies
       \/ /\ "remote" \in Primaries
          /\ copies' = copies \cup {<<key[p], data[s]>>}
          /\ UNCHANGED <<moved, tempVars>>
    /\ Goto(p, "refer")
    /\ UNCHANGED <<rowVars, known, refs, cpc, base, written, key, sweepVars, faults>>

Refer(p) ==
    /\ pc[p] = "refer"
    /\ refs' = [refs EXCEPT ![SessionOf[p]] = @ + 1]
    /\ Goto(p, "complete")
    /\ UNCHANGED <<rowVars, tempVars, moved, copies, known, cpc, base, written, key, sweepVars, faults>>

\* The temp file is gone, or the backend or the database fails: the session and
\* the temp file are left for a retry.
FinalizeFails(p) ==
    /\ \/ pc[p] \in {"finalize", "store"} /\ ~there[SessionOf[p]] /\ UNCHANGED faults
       \/ pc[p] \in {"finalize", "store", "refer"} /\ Fault
    /\ Goto(p, "failed")
    /\ UNCHANGED <<rowVars, tempVars, storeVars, cpc, base, written, key, sweepVars>>

SetStatus(s, st) == row' = [row EXCEPT ![s] = IF @ = "gone" THEN @ ELSE st]

\* mark_status, whatever the row's status is now; then the temp file.
Complete(p) ==
    /\ pc[p] = "complete"
    /\ \/ SetStatus(SessionOf[p], "completed") /\ Goto(p, "remove") /\ UNCHANGED faults
       \/ Fault /\ Goto(p, "failed") /\ UNCHANGED row
    /\ UNCHANGED <<offset, expired, tempVars, storeVars, cpc, base, written, key, sweepVars>>

RemoveTemp(p) ==
    /\ pc[p] = "remove"
    /\ Unlink(SessionOf[p])
    /\ Goto(p, "done")
    /\ UNCHANGED <<rowVars, storeVars, cpc, base, written, key, sweepVars, faults>>

-----------------------------------------------------------------------------
(* The cleanup worker. The advisory lock belongs to the connection the     *)
(* pool handed out for that statement, and the unlock may run on another.  *)

SweepGoto(n, l) == spc' = [spc EXCEPT ![n] = l]

\* pg_try_advisory_lock, free; or held already by the very connection the pool
\* hands out, which then holds it twice. Else the sweep is skipped.
TryLock(n) ==
    /\ spc[n] = "idle"
    /\ lock = NoNode
    /\ lock' = n
    /\ fresh' = TRUE
    /\ SweepGoto(n, "expired")
    /\ UNCHANGED <<rowVars, tempVars, storeVars, cpc, patchVars, todo, faults>>

LockAgain(n) ==
    /\ spc[n] = "idle"
    /\ lock = n
    /\ fresh' = FALSE
    /\ SweepGoto(n, "expired")
    /\ UNCHANGED <<rowVars, tempVars, storeVars, cpc, patchVars, lock, todo, faults>>

\* Mutant of FindExpired: only sessions whose temp file is still there.
FindExpired_WithTemp(n) ==
    /\ spc[n] = "expired"
    /\ \/ /\ todo' = [todo EXCEPT ![n] =
                          {s \in Sessions : expired[s] /\ row[s] = "in_progress" /\ there[s]}]
          /\ UNCHANGED faults
       \/ Fault /\ UNCHANGED todo
    /\ SweepGoto(n, "abort")
    /\ UNCHANGED <<rowVars, tempVars, storeVars, cpc, patchVars, lock, fresh>>

\* sweep_expired's SELECT; its error skips to the next part of the sweep.
FindExpired(n) ==
    /\ spc[n] = "expired"
    /\ \/ /\ todo' = [todo EXCEPT ![n] = {s \in Sessions : expired[s] /\ row[s] = "in_progress"}]
          /\ UNCHANGED faults
       \/ Fault /\ UNCHANGED todo
    /\ SweepGoto(n, "abort")
    /\ UNCHANGED <<rowVars, tempVars, storeVars, cpc, patchVars, lock, fresh>>

\* For every session found: remove the temp file, then mark_status 'aborted'
\* whatever the status is now.
AbortTemp(n) ==
    /\ spc[n] = "abort"
    /\ \E s \in todo[n] : there[s] /\ Unlink(s)
    /\ UNCHANGED <<rowVars, storeVars, cpc, patchVars, sweepVars, faults>>

AbortRow(n) ==
    /\ spc[n] = "abort"
    /\ \E s \in todo[n] :
         /\ ~there[s]
         /\ todo' = [todo EXCEPT ![n] = @ \ {s}]
         /\ \/ SetStatus(s, "aborted") /\ UNCHANGED faults
            \/ Fault /\ UNCHANGED row
    /\ UNCHANGED <<offset, expired, tempVars, storeVars, cpc, patchVars, spc, lock, fresh>>

AbortDone(n) ==
    /\ spc[n] = "abort"
    /\ todo[n] = {}
    /\ SweepGoto(n, "prune")
    /\ UNCHANGED <<rowVars, tempVars, storeVars, cpc, patchVars, lock, fresh, todo, faults>>

\* prune_terminal deletes the terminal rows that are old enough by now.
Prune(n) ==
    /\ spc[n] = "prune"
    /\ \E S \in SUBSET {s \in Sessions : row[s] \in {"completed", "aborted"}} :
         row' = [s \in Sessions |-> IF s \in S THEN "gone" ELSE row[s]]
    /\ SweepGoto(n, "list")
    /\ UNCHANGED <<offset, expired, tempVars, storeVars, cpc, patchVars, lock, fresh, todo, faults>>

ListTemps(n) ==
    /\ spc[n] = "list"
    /\ todo' = [todo EXCEPT ![n] = {s \in Sessions : there[s]}]
    /\ SweepGoto(n, "reconcile")
    /\ UNCHANGED <<rowVars, tempVars, storeVars, cpc, patchVars, lock, fresh, faults>>

\* find_by_id of the UUID in the file's name.
Live(s) == TempName[s] \in Sessions /\ row[TempName[s]] = "in_progress"

\* reconcile_orphans, for one *.part file; a failed query counts as not live.
Reconcile(n) ==
    /\ spc[n] = "reconcile"
    /\ \E s \in todo[n] :
         /\ todo' = [todo EXCEPT ![n] = @ \ {s}]
         /\ \/ Live(s) /\ UNCHANGED <<tempVars, faults>>
            \/ ~Live(s) /\ Unlink(s) /\ UNCHANGED faults
            \/ Fault /\ Unlink(s)
    /\ UNCHANGED <<rowVars, storeVars, cpc, patchVars, spc, lock, fresh>>

ReconcileDone(n) ==
    /\ spc[n] = "reconcile"
    /\ todo[n] = {}
    /\ SweepGoto(n, "unlock")
    /\ UNCHANGED <<rowVars, tempVars, storeVars, cpc, patchVars, lock, fresh, todo, faults>>

\* The unlock frees the lock when it runs on the connection that holds it, once;
\* else that connection goes on holding it.
Unlock(n) ==
    /\ spc[n] = "unlock"
    /\ \/ lock = n /\ fresh /\ lock' = NoNode
       \/ UNCHANGED lock
    /\ SweepGoto(n, "idle")
    /\ UNCHANGED <<rowVars, tempVars, storeVars, cpc, patchVars, fresh, todo, faults>>

\* The pool closes an idle connection that is old, also while the node that took
\* the lock with it is sweeping on others; PostgreSQL then releases the lock.
CloseConnection ==
    /\ lock # NoNode
    /\ lock' = NoNode
    /\ UNCHANGED <<rowVars, tempVars, storeVars, cpc, patchVars, spc, fresh, todo, faults>>

\* The process dies in a sweep and starts again.
Restart(n) ==
    /\ spc[n] # "idle"
    /\ Fault
    /\ SweepGoto(n, "idle")
    /\ todo' = [todo EXCEPT ![n] = {}]
    /\ lock' = IF lock = n THEN NoNode ELSE lock
    /\ UNCHANGED <<rowVars, tempVars, storeVars, cpc, patchVars, fresh>>

-----------------------------------------------------------------------------
SessionStep(s) ==
    \/ CreateTemp(s) \/ CreateRow(s) \/ TerminateTemp(s) \/ TerminateRow(s) \/ Expire(s)

PatchStep(p) ==
    \/ Load(p) \/ OpenTemp(p) \/ Append1(p) \/ BodyFails(p) \/ AdvanceOffset(p)
    \/ HashTemp(p) \/ StoreTemp(p) \/ Refer(p) \/ FinalizeFails(p) \/ Complete(p)
    \/ RemoveTemp(p)

SweepStep(n) ==
    \/ TryLock(n) \/ FindExpired(n) \/ AbortTemp(n) \/ AbortRow(n) \/ AbortDone(n) \/ Prune(n)
    \/ ListTemps(n) \/ Reconcile(n) \/ ReconcileDone(n) \/ Unlock(n)

Next ==
    \/ \E s \in Sessions : SessionStep(s)
    \/ \E p \in Patches : PatchStep(p)
    \/ \E n \in Nodes : SweepStep(n) \/ LockAgain(n) \/ Restart(n)
    \/ CloseConnection

Spec == Init /\ [][Next]_vars

\* The cleanup workers run for as long as the service, the pool recycles its
\* connections and time passes. Clients owe nothing, and no lock statement need
\* ever meet the connection that holds the lock.
FairSpec ==
    /\ Spec
    /\ \A n \in Nodes : WF_vars(SweepStep(n))
    /\ WF_vars(CloseConnection)
    /\ \A s \in Sessions : WF_vars(Expire(s))

-----------------------------------------------------------------------------
(* Correctness properties                                                  *)

Whole == [i \in 1 .. Size |-> i]

\* While no byte was appended without being counted, the temp file is exactly the
\* acknowledged prefix of the client's file, whatever PATCHes raced before.
AcknowledgedIntact ==
    \A s \in Sessions :
        (\A p \in Patches : SessionOf[p] = s => written[p] = 0) =>
            data[s] = [i \in 1 .. offset[s] |-> i]

\* The offset a HEAD reports never runs ahead of the bytes that were appended.
OffsetCovered == \A s \in Sessions : offset[s] <= Len(data[s])

\* A completed session has left a reference to the file, and only a session
\* whose last byte was acknowledged gets one.
CompletedIsReferenced ==
    \A s \in Sessions :
        /\ row[s] = "completed" => refs[s] > 0
        /\ refs[s] > 0 => offset[s] = Size

\* Every session ends: completed, aborted by a sweep, or deleted.
SessionsEnd ==
    \A s \in Sessions : row[s] = "in_progress" ~> row[s] # "in_progress"

\* A running session that has not expired keeps its temp file until it is
\* finalized or terminated.
LiveTempKept ==
    \A s \in Sessions :
        (row[s] = "in_progress" /\ ~expired[s] /\ refs[s] = 0 /\ cpc[s] = "open") => there[s]

\* The objects an upload stored, each an address and a content.
Stored == copies \cup {<<moved[s], data[s]>> : s \in {t \in Sessions : moved[t] # NoKey}}

\* When every appended byte was counted, what is stored is the client's file, all
\* of it, under its own address, whatever finalizations, sweeps and terminations
\* overlapped.
StoredIntact ==
    (\A p \in Patches : written[p] = 0) => \A o \in Stored : o = <<Whole, Whole>>
=============================================================================
