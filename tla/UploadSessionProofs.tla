------------------------ MODULE UploadSessionProofs ------------------------
(***************************************************************************)
(* Theorems about UploadSession, for every number of sessions, PATCH       *)
(* requests, replicas and faults, every file size and both kinds of        *)
(* primary storage.                                                        *)
(***************************************************************************)
EXTENDS UploadSession, SequenceTheorems, TLAPS

\* The inductive form of TypeOK: a PATCH appends no more than Upload-Length
\* leaves, starts with nothing written and stores under the hash it computed.
TypeInv ==
    /\ TypeOK
    /\ \A p \in Patches :
         /\ base[p] + written[p] <= Size
         /\ pc[p] \in {"load", "open"} => written[p] = 0
         /\ pc[p] = "store" => key[p] \in Seq(1 .. Size)

\* Removing a temp file's name keeps the types.
LEMMA UnlinkType ==
    ASSUME TypeOK, NEW s \in Sessions, Unlink(s)
    PROVE  there' \in [Sessions -> BOOLEAN] /\ data' = data
  BY Zenon DEF Unlink, TypeOK

\* A status write keeps the type of the column.
LEMMA StatusType ==
    ASSUME TypeOK, NEW s \in Sessions, NEW st \in {"completed", "aborted"}, SetStatus(s, st)
    PROVE  /\ row' \in [Sessions -> Row]
           /\ \A t \in Sessions : row'[t] = row[t] \/ (t = s /\ row'[t] = st)
  BY DEF SetStatus, TypeOK, Row

\* Handlers of a session as a whole write row, expired, there and cpc only.
LEMMA SessionType ==
    ASSUME TypeInv, NEW s \in Sessions, SessionStep(s)
    PROVE  TypeInv'
<1> USE DEF TypeInv
<1>1. UNCHANGED <<offset, data, storeVars, patchVars, sweepVars>>
  BY DEF SessionStep, CreateTemp, CreateRow, TerminateTemp, TerminateRow, Expire, Unlink,
         rowVars, tempVars
<1>2. row' \in [Sessions -> Row]
  BY DEF SessionStep, CreateTemp, CreateRow, TerminateTemp, TerminateRow, Expire,
         rowVars, TypeOK, Row
<1>3. expired' \in [Sessions -> BOOLEAN]
  BY Zenon DEF SessionStep, CreateTemp, CreateRow, TerminateTemp, TerminateRow, Expire,
         rowVars, TypeOK
<1>4. there' \in [Sessions -> BOOLEAN]
  BY UnlinkType, Zenon DEF SessionStep, CreateTemp, CreateRow, TerminateTemp, TerminateRow, Expire,
         tempVars, TypeOK
<1>5. cpc' \in [Sessions -> {"new", "insert", "open", "delete", "end"}]
  BY DEF SessionStep, CreateTemp, CreateRow, TerminateTemp, TerminateRow, Expire, TypeOK
<1>6. faults' \in Nat
  BY DEF SessionStep, CreateTemp, CreateRow, TerminateTemp, TerminateRow, Expire, Fault, TypeOK
<1> QED
  BY <1>1, <1>2, <1>3, <1>4, <1>5, <1>6 DEF storeVars, patchVars, sweepVars, TypeOK

\* All steps of a replica's cleanup worker.
SweepAction(n) == SweepStep(n) \/ LockAgain(n) \/ Restart(n)

\* The cleanup workers write row, there and their own state only.
LEMMA SweepType ==
    ASSUME TypeInv, NEW n \in Nodes, SweepAction(n)
    PROVE  TypeInv'
<1> USE DEF TypeInv
<1> DEFINE Kept == UNCHANGED <<offset, expired, data, storeVars, cpc, patchVars>>
           Typed == /\ row' \in [Sessions -> Row]
                    /\ there' \in [Sessions -> BOOLEAN]
                    /\ spc' \in [Nodes -> SPC]
                    /\ lock' \in Nodes \cup {NoNode}
                    /\ fresh' \in BOOLEAN
                    /\ todo' \in [Nodes -> SUBSET Sessions]
                    /\ faults' \in Nat
<1>a. SUFFICES Kept /\ Typed
  BY DEF storeVars, patchVars, TypeOK
<1>1. CASE TryLock(n)
  BY <1>1 DEF TryLock, SweepGoto, TypeOK, SPC, rowVars, tempVars
<1>2. CASE LockAgain(n)
  BY <1>2 DEF LockAgain, SweepGoto, TypeOK, SPC, rowVars, tempVars
<1>3. CASE FindExpired(n)
  <2> DEFINE E == {s \in Sessions : expired[s] /\ row[s] = "in_progress"}
  <2>1. E \in SUBSET Sessions
    OBVIOUS
  <2>2. /\ todo' = [todo EXCEPT ![n] = E] \/ todo' = todo
        /\ faults' \in Nat
    BY <1>3 DEF FindExpired, Fault, TypeOK
  <2> HIDE DEF E
  <2>3. todo' \in [Nodes -> SUBSET Sessions]
    BY <2>1, <2>2 DEF TypeOK
  <2>4. UNCHANGED <<rowVars, tempVars, storeVars, cpc, patchVars, lock, fresh>> /\ spc' \in [Nodes -> SPC]
    BY <1>3 DEF FindExpired, SweepGoto, TypeOK, SPC
  <2> QED BY <2>2, <2>3, <2>4 DEF TypeOK, rowVars, tempVars
<1>4. CASE AbortTemp(n)
  BY <1>4, UnlinkType DEF AbortTemp, TypeOK, rowVars, sweepVars
<1>5. CASE AbortRow(n)
  <2>1. /\ UNCHANGED <<offset, expired, tempVars, storeVars, cpc, patchVars, spc, lock, fresh>>
        /\ faults' \in Nat
    BY <1>5 DEF AbortRow, Fault, TypeOK
  <2>2. PICK s \in todo[n] :
          /\ todo' = [todo EXCEPT ![n] = @ \ {s}]
          /\ SetStatus(s, "aborted") \/ UNCHANGED row
    BY <1>5 DEF AbortRow
  <2>3. s \in Sessions /\ todo' \in [Nodes -> SUBSET Sessions]
    BY <2>2 DEF TypeOK
  <2>4. row' \in [Sessions -> Row]
    BY <2>2, <2>3, StatusType DEF TypeOK
  <2> QED BY <2>1, <2>3, <2>4 DEF TypeOK, tempVars
<1>6. CASE AbortDone(n)
  BY <1>6 DEF AbortDone, SweepGoto, TypeOK, SPC, rowVars, tempVars
<1>7. CASE Prune(n)
  BY <1>7 DEF Prune, SweepGoto, TypeOK, SPC, Row, tempVars
<1>8. CASE ListTemps(n)
  BY <1>8 DEF ListTemps, SweepGoto, TypeOK, SPC, rowVars, tempVars
<1>9. CASE Reconcile(n)
  <2>1. UNCHANGED <<rowVars, storeVars, cpc, patchVars, spc, lock, fresh>> /\ faults' \in Nat
    BY <1>9 DEF Reconcile, Fault, TypeOK
  <2>2. PICK s \in todo[n] :
          /\ todo' = [todo EXCEPT ![n] = @ \ {s}]
          /\ UNCHANGED tempVars \/ Unlink(s)
    BY <1>9 DEF Reconcile
  <2>3. s \in Sessions /\ todo' \in [Nodes -> SUBSET Sessions]
    BY <2>2 DEF TypeOK
  <2>4. there' \in [Sessions -> BOOLEAN] /\ data' = data
    BY <2>2, <2>3, UnlinkType DEF TypeOK, tempVars
  <2> QED BY <2>1, <2>3, <2>4 DEF TypeOK, rowVars
<1>10. CASE ReconcileDone(n)
  BY <1>10 DEF ReconcileDone, SweepGoto, TypeOK, SPC, rowVars, tempVars
<1>11. CASE Unlock(n)
  BY <1>11 DEF Unlock, SweepGoto, TypeOK, SPC, rowVars, tempVars
<1>12. CASE Restart(n)
  BY <1>12 DEF Restart, Fault, SweepGoto, TypeOK, SPC, rowVars, tempVars
<1> QED
  BY <1>1, <1>2, <1>3, <1>4, <1>5, <1>6, <1>7, <1>8, <1>9, <1>10, <1>11, <1>12
     DEF SweepAction, SweepStep

\* A PATCH writes its own registers, one step of its control at a time.
LEMMA PatchType ==
    ASSUME TypeInv, NEW p \in Patches, PatchStep(p)
    PROVE  TypeInv'
<1> DEFINE s == SessionOf[p]
<1>0. s \in Sessions /\ Size \in Nat
  BY ConstantsAssumption
<1> HIDE DEF s
<1>t. /\ base[p] \in Nat /\ written[p] \in Nat /\ base[p] + written[p] <= Size
      /\ data[s] \in Seq(1 .. Size) /\ offset[s] \in 0 .. Size
  BY <1>0 DEF TypeInv, TypeOK
<1>1. CASE Load(p)
  <2>1. /\ base' = [base EXCEPT ![p] = offset[s]] /\ Goto(p, "open") /\ pc[p] = "load"
        /\ UNCHANGED <<rowVars, tempVars, storeVars, cpc, written, key, sweepVars, faults>>
    BY <1>1 DEF Load, s
  <2>2. base' \in [Patches -> 0 .. Size] /\ pc' \in [Patches -> PC]
    BY <1>t, <2>1 DEF TypeInv, TypeOK, Goto, PC
  <2>3. \A q \in Patches : /\ q # p => pc'[q] = pc[q] /\ base'[q] = base[q]
                           /\ q = p => pc'[q] = "open" /\ base'[q] = offset[s]
    BY <2>1 DEF TypeInv, TypeOK, Goto
  <2>4. written[p] = 0
    BY <2>1 DEF TypeInv
  <2> QED
    BY <1>t, <2>1, <2>2, <2>3, <2>4, <1>0
       DEF TypeInv, TypeOK, rowVars, tempVars, storeVars, sweepVars
<1>2. CASE OpenTemp(p)
  BY <1>2 DEF OpenTemp, Goto, TypeInv, TypeOK, PC, rowVars, tempVars, storeVars, sweepVars
<1>3. CASE Append1(p)
  <2>1. /\ pc[p] = "body" /\ base[p] + written[p] < Size
        /\ data' = [data EXCEPT ![s] = Append(data[s], base[p] + written[p] + 1)]
        /\ written' = [written EXCEPT ![p] = written[p] + 1]
        /\ UNCHANGED <<rowVars, there, storeVars, cpc, pc, base, key, sweepVars, faults>>
    BY <1>3 DEF Append1, s
  <2>2. Append(data[s], base[p] + written[p] + 1) \in Seq(1 .. Size)
    BY <1>t, <2>1, <1>0
  <2>3. data' \in [Sessions -> Seq(1 .. Size)]
    BY <1>0, <2>1, <2>2 DEF TypeInv, TypeOK
  <2>4. written' \in [Patches -> 0 .. Size]
    BY <1>0, <1>t, <2>1 DEF TypeInv, TypeOK
  <2>5. \A q \in Patches : q # p => written'[q] = written[q]
    BY <2>1 DEF TypeInv, TypeOK
  <2>6. written'[p] = written[p] + 1
    BY <2>1 DEF TypeInv, TypeOK
  <2>7. TypeOK'
    BY <2>1, <2>3, <2>4 DEF TypeInv, TypeOK, rowVars, storeVars, sweepVars
  <2>8. ASSUME NEW q \in Patches
        PROVE  /\ base'[q] + written'[q] <= Size
               /\ pc'[q] \in {"load", "open"} => written'[q] = 0
               /\ pc'[q] = "store" => key'[q] \in Seq(1 .. Size)
    <3>1. CASE q = p
      BY <3>1, <1>0, <1>t, <2>1, <2>6
    <3>2. CASE q # p
      BY <3>2, <2>1, <2>5 DEF TypeInv
    <3> QED BY <3>1, <3>2
  <2> QED BY <2>7, <2>8 DEF TypeInv
<1>4. CASE BodyFails(p)
  BY <1>4 DEF BodyFails, Fault, Goto, TypeInv, TypeOK, PC, rowVars, tempVars, storeVars, sweepVars
<1>5. CASE AdvanceOffset(p)
  <2>1. /\ pc[p] = "body"
        /\ UNCHANGED <<row, expired, tempVars, storeVars, cpc, base, key, sweepVars, faults>>
    BY <1>5 DEF AdvanceOffset
  <2>2. CASE /\ offset' = [offset EXCEPT ![s] = base[p] + written[p]]
             /\ written' = [written EXCEPT ![p] = 0]
             /\ Goto(p, IF base[p] + written[p] = Size THEN "finalize" ELSE "done")
    <3>1. /\ offset' \in [Sessions -> 0 .. Size]
          /\ written' \in [Patches -> 0 .. Size]
      BY <1>0, <1>t, <2>2 DEF TypeInv, TypeOK
    <3>2. pc' \in [Patches -> PC]
      BY <2>2 DEF TypeInv, TypeOK, Goto, PC
    <3>3. \A q \in Patches : /\ q # p => pc'[q] = pc[q] /\ written'[q] = written[q]
                             /\ q = p => pc'[q] \in {"finalize", "done"} /\ written'[q] = 0
      BY <2>2 DEF TypeInv, TypeOK, Goto
    <3>4. TypeOK'
      BY <2>1, <3>1, <3>2 DEF TypeInv, TypeOK, tempVars, storeVars, sweepVars
    <3>5. ASSUME NEW q \in Patches
          PROVE  /\ (base[q] + written[q] <= Size)'
                 /\ pc'[q] \in {"load", "open"} => written'[q] = 0
                 /\ pc'[q] = "store" => key'[q] \in Seq(1 .. Size)
      BY <1>0, <1>t, <2>1, <3>3 DEF TypeInv
    <3> QED BY <3>4, <3>5 DEF TypeInv
  <2>3. CASE Goto(p, "failed") /\ UNCHANGED <<offset, written>>
    BY <2>1, <2>3 DEF Goto, TypeInv, TypeOK, PC, tempVars, storeVars, sweepVars
  <2> QED BY <1>5, <2>2, <2>3 DEF AdvanceOffset, s
<1>6. CASE HashTemp(p)
  <2>1. /\ key' = [key EXCEPT ![p] = data[s]]
        /\ known' = known \cup {data[s]}
        /\ Goto(p, IF data[s] \in known THEN "refer" ELSE "store")
        /\ UNCHANGED <<rowVars, tempVars, moved, copies, refs, cpc, base, written, sweepVars, faults>>
    BY <1>6 DEF HashTemp, s
  <2>2. /\ key' \in [Patches -> Seq(1 .. Size) \cup {NoKey}]
        /\ key'[p] = data[s]
        /\ \A q \in Patches : q # p => key'[q] = key[q]
    BY <1>t, <2>1 DEF TypeInv, TypeOK
  <2>3. known' \subseteq Seq(1 .. Size)
    BY <1>t, <2>1 DEF TypeInv, TypeOK
  <2>4. /\ pc' \in [Patches -> PC]
        /\ \A q \in Patches : /\ q # p => pc'[q] = pc[q]
                              /\ q = p => pc'[q] \in {"refer", "store"}
    BY <2>1 DEF TypeInv, TypeOK, Goto, PC
  <2> QED
    BY <1>t, <2>1, <2>2, <2>3, <2>4 DEF TypeInv, TypeOK, rowVars, tempVars, sweepVars
<1>7. CASE StoreTemp(p)
  <2>1. /\ pc[p] = "store" /\ Goto(p, "refer")
        /\ UNCHANGED <<rowVars, known, refs, cpc, base, written, key, sweepVars, faults>>
    BY <1>7 DEF StoreTemp
  <2>2. key[p] \in Seq(1 .. Size)
    BY <2>1 DEF TypeInv
  <2>3. /\ moved' \in [Sessions -> Seq(1 .. Size) \cup {NoKey}]
        /\ there' \in [Sessions -> BOOLEAN] /\ data' = data
        /\ copies' \subseteq Seq(1 .. Size) \X Seq(1 .. Size)
    <3>1. CASE /\ moved' = [moved EXCEPT ![s] = key[p]] /\ Unlink(s) /\ UNCHANGED copies
      BY <1>0, <3>1, <2>2, UnlinkType DEF TypeInv, TypeOK
    <3>2. CASE /\ copies' = copies \cup {<<key[p], data[s]>>} /\ UNCHANGED <<moved, tempVars>>
      BY <1>t, <3>2, <2>2 DEF TypeInv, TypeOK, tempVars
    <3> QED BY <1>7, <3>1, <3>2 DEF StoreTemp, s
  <2>4. /\ pc' \in [Patches -> PC]
        /\ \A q \in Patches : /\ q # p => pc'[q] = pc[q]
                              /\ q = p => pc'[q] = "refer"
    BY <2>1 DEF TypeInv, TypeOK, Goto, PC
  <2> QED
    BY <2>1, <2>3, <2>4 DEF TypeInv, TypeOK, rowVars, sweepVars
<1>8. CASE Refer(p)
  <2>1. refs' \in [Sessions -> Nat]
    BY <1>0, <1>8 DEF Refer, TypeInv, TypeOK, s
  <2> QED
    BY <1>8, <2>1 DEF Refer, Goto, TypeInv, TypeOK, PC, rowVars, tempVars, sweepVars
<1>9. CASE FinalizeFails(p)
  BY <1>9 DEF FinalizeFails, Fault, Goto, TypeInv, TypeOK, PC, rowVars, tempVars, storeVars, sweepVars
<1>10. CASE Complete(p)
  <2>1. row' \in [Sessions -> Row]
    BY <1>0, <1>10, StatusType DEF Complete, TypeInv, TypeOK, s
  <2>2. faults' \in Nat /\ (Goto(p, "remove") \/ Goto(p, "failed"))
    BY <1>10 DEF Complete, Fault, TypeInv, TypeOK
  <2>3. UNCHANGED <<offset, expired, tempVars, storeVars, cpc, base, written, key, sweepVars>>
    BY <1>10 DEF Complete
  <2> QED
    BY <2>1, <2>2, <2>3 DEF Goto, TypeInv, TypeOK, PC, tempVars, storeVars, sweepVars
<1>11. CASE RemoveTemp(p)
  <2>1. there' \in [Sessions -> BOOLEAN] /\ data' = data
    BY <1>0, <1>11, UnlinkType DEF RemoveTemp, TypeInv, s
  <2> QED
    BY <1>11, <2>1 DEF RemoveTemp, Goto, TypeInv, TypeOK, PC, rowVars, storeVars, sweepVars
<1> QED
  BY <1>1, <1>2, <1>3, <1>4, <1>5, <1>6, <1>7, <1>8, <1>9, <1>10, <1>11 DEF PatchStep

\* Every step preserves the types.
LEMMA TypeStep ==
    ASSUME TypeInv, [Next]_vars
    PROVE  TypeInv'
<1>1. CASE UNCHANGED vars
  BY <1>1 DEF vars, rowVars, tempVars, storeVars, patchVars, sweepVars, TypeInv, TypeOK
<1>2. CASE CloseConnection
  BY <1>2 DEF CloseConnection, rowVars, tempVars, storeVars, patchVars, TypeInv, TypeOK
<1> QED
  BY <1>1, <1>2, SessionType, PatchType, SweepType DEF Next, SweepAction

\* The empty tables and the handlers at their first step have their types.
LEMMA InitType == Init => TypeInv
<1>1. <<>> \in Seq(1 .. Size) /\ 0 \in 0 .. Size
  BY ConstantsAssumption
<1>2. Init => TypeOK
  <2> SUFFICES ASSUME Init PROVE TypeOK
    OBVIOUS
  <2>1. /\ data \in [Sessions -> Seq(1 .. Size)]
        /\ copies \subseteq Seq(1 .. Size) \X Seq(1 .. Size)
        /\ known \subseteq Seq(1 .. Size)
    BY <1>1 DEF Init
  <2>2. /\ moved \in [Sessions -> Seq(1 .. Size) \cup {NoKey}]
        /\ key \in [Patches -> Seq(1 .. Size) \cup {NoKey}]
    BY DEF Init
  <2>3. /\ offset \in [Sessions -> 0 .. Size] /\ refs \in [Sessions -> Nat]
        /\ base \in [Patches -> 0 .. Size] /\ written \in [Patches -> 0 .. Size]
        /\ faults \in Nat
    BY <1>1 DEF Init
  <2>4. /\ expired \in [Sessions -> BOOLEAN] /\ there \in [Sessions -> BOOLEAN]
        /\ fresh \in BOOLEAN
    BY Zenon DEF Init
  <2>5. /\ row \in [Sessions -> Row] /\ pc \in [Patches -> PC] /\ spc \in [Nodes -> SPC]
        /\ cpc \in [Sessions -> {"new", "insert", "open", "delete", "end"}]
        /\ lock \in Nodes \cup {NoNode} /\ todo \in [Nodes -> SUBSET Sessions]
    BY DEF Init, Row, PC, SPC
  <2> QED BY <2>1, <2>2, <2>3, <2>4, <2>5 DEF TypeOK
<1>3. Init => \A p \in Patches : /\ base[p] + written[p] <= Size
                                 /\ written[p] = 0 /\ pc[p] = "load"
  BY ConstantsAssumption DEF Init
<1> QED BY <1>2, <1>3 DEF TypeInv

\* Columns, registers and the order in which PATCHes reach their steps keep
\* their types, whatever handlers and sweeps of any number of replicas overlap.
THEOREM TypeCorrect == Spec => []TypeOK
<1>1. Init => TypeInv
  BY InitType
<1>2. TypeInv /\ [Next]_vars => TypeInv'
  BY TypeStep
<1>3. TypeInv => TypeOK
  BY DEF TypeInv
<1> QED BY <1>1, <1>2, <1>3, PTL DEF Spec

-----------------------------------------------------------------------------
(* Offsets and references                                                  *)

\* A PATCH that has not ended will claim no more bytes than there are, and one
\* that finalizes has seen the last byte acknowledged.
Finalizing == {"finalize", "store", "refer", "complete", "remove"}

PatchInv(p) ==
    LET s == SessionOf[p] IN
    /\ pc[p] \in {"open", "body"} => base[p] + written[p] <= Len(data[s])
    /\ pc[p] \in Finalizing => offset[s] = Size
    /\ pc[p] \in {"complete", "remove"} => refs[s] > 0

SessionInv(s) ==
    /\ offset[s] <= Len(data[s])
    /\ row[s] = "completed" => refs[s] > 0
    /\ refs[s] > 0 => offset[s] = Size

UploadInv ==
    /\ TypeInv
    /\ \A p \in Patches : PatchInv(p)
    /\ \A s \in Sessions : SessionInv(s)

\* Whatever leaves offsets, data, references and PATCHes alone and completes no
\* session preserves the invariant: every step of create, terminate and a sweep.
LEMMA UploadFrame ==
    ASSUME UploadInv, TypeInv', UNCHANGED <<offset, data, refs, pc, base, written>>,
           \A s \in Sessions : row'[s] = "completed" => row[s] = "completed"
    PROVE  UploadInv'
  BY DEF UploadInv, PatchInv, SessionInv

\* Every step preserves the invariant: of a PATCH one action at a time.
LEMMA UploadStepLemma ==
    ASSUME UploadInv, [Next]_vars
    PROVE  UploadInv'
<1>0. TypeInv /\ TypeInv'
  BY TypeStep DEF UploadInv
<1>1. CASE UNCHANGED vars
  BY <1>0, <1>1, UploadFrame DEF vars, rowVars, tempVars, storeVars, patchVars
<1>2. CASE CloseConnection
  BY <1>0, <1>2, UploadFrame DEF CloseConnection, rowVars, tempVars, storeVars, patchVars
<1>3. ASSUME NEW s \in Sessions, SessionStep(s) PROVE UploadInv'
  <2>1. UNCHANGED <<offset, data, refs, pc, base, written>>
    BY <1>3 DEF SessionStep, CreateTemp, CreateRow, TerminateTemp, TerminateRow, Expire, Unlink,
                rowVars, tempVars, storeVars, patchVars
  <2>2. \A t \in Sessions : row'[t] = "completed" => row[t] = "completed"
    BY <1>0, <1>3 DEF SessionStep, CreateTemp, CreateRow, TerminateTemp, TerminateRow, Expire,
                      rowVars, TypeInv, TypeOK
  <2> QED BY <1>0, <2>1, <2>2, UploadFrame
<1>4. ASSUME NEW n \in Nodes, SweepAction(n) PROVE UploadInv'
  <2>1. UNCHANGED <<offset, data, refs, pc, base, written>>
    BY <1>4 DEF SweepAction, SweepStep, TryLock, LockAgain, FindExpired, AbortTemp, AbortRow,
                AbortDone, Prune, ListTemps, Reconcile, ReconcileDone, Unlock, Restart, Unlink,
                rowVars, tempVars, storeVars, patchVars
  <2>2. \A t \in Sessions : row'[t] = "completed" => row[t] = "completed"
    <3>1. CASE AbortRow(n)
      BY <1>0, <3>1, StatusType DEF AbortRow, TypeInv, TypeOK
    <3>2. CASE Prune(n)
      BY <3>2 DEF Prune
    <3>3. CASE UNCHANGED row
      BY <3>3
    <3> QED
      BY <1>4, <3>1, <3>2, <3>3
         DEF SweepAction, SweepStep, TryLock, LockAgain, FindExpired, AbortTemp,
             AbortDone, ListTemps, Reconcile, ReconcileDone, Unlock, Restart, rowVars
  <2> QED BY <1>0, <2>1, <2>2, UploadFrame
<1>5. ASSUME NEW p \in Patches, PatchStep(p) PROVE UploadInv'
  <2> DEFINE s == SessionOf[p]
  <2>0. s \in Sessions /\ Size \in Nat /\ \A q \in Patches : SessionOf[q] \in Sessions
    BY ConstantsAssumption
  <2> HIDE DEF s
  <2>t. /\ base[p] \in Nat /\ written[p] \in Nat /\ base[p] + written[p] <= Size
        /\ data[s] \in Seq(1 .. Size) /\ offset[s] \in Nat /\ refs[s] \in Nat
        /\ Len(data[s]) \in Nat
    BY <1>0, <2>0 DEF TypeInv, TypeOK
  <2>p. PatchInv(p) /\ SessionInv(s)
    BY <2>0 DEF UploadInv
  \* A step that only moves p on keeps everything but PatchInv(p).
  <2>q. ASSUME UNCHANGED <<offset, data, refs, base, written>>,
               NEW l, Goto(p, l), PatchInv(p)',
               \A t \in Sessions : row'[t] = "completed" => (row[t] = "completed" \/ refs[t] > 0)
        PROVE  UploadInv'
    <3>1. \A q \in Patches : q # p => pc'[q] = pc[q]
      BY <1>0, <2>q DEF Goto, TypeInv, TypeOK
    <3>2. ASSUME NEW q \in Patches PROVE PatchInv(q)'
      BY <2>q, <3>1 DEF UploadInv, PatchInv
    <3>3. ASSUME NEW t \in Sessions PROVE SessionInv(t)'
      BY <2>q DEF UploadInv, SessionInv
    <3> QED BY <1>0, <3>2, <3>3 DEF UploadInv
  <2>1. CASE Load(p)
    <3>1. /\ base' = [base EXCEPT ![p] = offset[s]] /\ Goto(p, "open") /\ pc[p] = "load"
          /\ UNCHANGED <<row, offset, data, refs, written>>
      BY <2>1 DEF Load, s, rowVars, tempVars, storeVars
    <3>2. \A q \in Patches : /\ q # p => pc'[q] = pc[q] /\ base'[q] = base[q]
                             /\ q = p => pc'[q] = "open" /\ base'[q] = offset[s]
      BY <1>0, <3>1 DEF TypeInv, TypeOK, Goto
    <3>3. written[p] = 0 /\ offset[s] <= Len(data[s])
      BY <1>0, <2>p, <3>1 DEF TypeInv, SessionInv
    <3>4. PatchInv(p)'
      BY <2>t, <3>1, <3>2, <3>3 DEF PatchInv, Finalizing, s
    <3>5. ASSUME NEW q \in Patches, q # p PROVE PatchInv(q)'
      BY <3>1, <3>2, <3>5 DEF UploadInv, PatchInv
    <3>6. ASSUME NEW t \in Sessions PROVE SessionInv(t)'
      BY <3>1 DEF UploadInv, SessionInv
    <3> QED BY <1>0, <3>4, <3>5, <3>6 DEF UploadInv
  <2>2. CASE OpenTemp(p)
    <3>1. /\ pc[p] = "open" /\ UNCHANGED <<row, offset, data, refs, base, written>>
          /\ Goto(p, "body") \/ Goto(p, "failed")
      BY <2>2 DEF OpenTemp, rowVars, tempVars, storeVars
    <3>2. pc'[p] \in {"body", "failed"}
      BY <1>0, <3>1 DEF Goto, TypeInv, TypeOK
    <3>3. PatchInv(p)'
      BY <2>p, <3>1, <3>2 DEF PatchInv, Finalizing
    <3> QED BY <2>q, <3>1, <3>3
  <2>3. CASE Append1(p)
    <3>1. /\ pc[p] = "body"
          /\ data' = [data EXCEPT ![s] = Append(data[s], base[p] + written[p] + 1)]
          /\ written' = [written EXCEPT ![p] = written[p] + 1]
          /\ UNCHANGED <<row, offset, refs, pc, base>>
      BY <2>3 DEF Append1, s, rowVars, storeVars
    <3>2. \A q \in Patches : q # p => written'[q] = written[q]
      BY <1>0, <3>1 DEF TypeInv, TypeOK
    <3>3. written'[p] = written[p] + 1
      BY <1>0, <3>1 DEF TypeInv, TypeOK
    <3>4. Len(data'[s]) = Len(data[s]) + 1
      BY <1>0, <2>0, <2>t, <3>1 DEF TypeInv, TypeOK
    <3>5. \A t \in Sessions : t # s => data'[t] = data[t]
      BY <1>0, <3>1 DEF TypeInv, TypeOK
    <3>6. \A t \in Sessions : Len(data'[t]) \in Nat /\ Len(data[t]) \in Nat
                             /\ Len(data'[t]) >= Len(data[t]) /\ offset[t] \in Nat
      <4>1. \A t \in Sessions : Len(data'[t]) \in Nat /\ Len(data[t]) \in Nat /\ offset[t] \in Nat
        <5>1. /\ data \in [Sessions -> Seq(1 .. Size)] /\ data' \in [Sessions -> Seq(1 .. Size)]
              /\ offset \in [Sessions -> 0 .. Size]
          BY <1>0 DEF TypeInv, TypeOK
        <5>2. \A t \in Sessions : data[t] \in Seq(1 .. Size) /\ data'[t] \in Seq(1 .. Size)
          BY <5>1
        <5> QED BY <2>0, <5>1, <5>2, LenProperties
      <4> QED BY <2>t, <3>4, <3>5, <4>1
    <3>7. PatchInv(p)'
      BY <2>t, <2>p, <3>1, <3>3, <3>4 DEF PatchInv, s
    <3>8. ASSUME NEW q \in Patches, q # p PROVE PatchInv(q)'
      <4>1. base[q] \in Nat /\ written[q] \in Nat
        BY <1>0, <2>0 DEF TypeInv, TypeOK
      <4>2. base[q] + written[q] \in Nat
        BY <4>1
      <4> QED BY <2>0, <3>1, <3>2, <3>6, <3>8, <4>2 DEF UploadInv, PatchInv
    <3>9. ASSUME NEW t \in Sessions PROVE SessionInv(t)'
      BY <3>1, <3>6 DEF UploadInv, SessionInv
    <3> QED BY <1>0, <3>7, <3>8, <3>9 DEF UploadInv
  <2>4. CASE BodyFails(p)
    <3>1. UNCHANGED <<row, offset, data, refs, base, written>> /\ Goto(p, "failed")
      BY <2>4 DEF BodyFails, rowVars, tempVars, storeVars
    <3>2. pc'[p] = "failed"
      BY <1>0, <3>1 DEF Goto, TypeInv, TypeOK
    <3>3. PatchInv(p)'
      BY <3>2 DEF PatchInv, Finalizing
    <3> QED BY <2>q, <3>1, <3>3
  <2>5. CASE AdvanceOffset(p)
    <3>1. pc[p] = "body" /\ UNCHANGED <<row, data, refs, base>>
      BY <2>5 DEF AdvanceOffset, tempVars, storeVars
    <3>2. CASE /\ offset[s] = base[p]
               /\ offset' = [offset EXCEPT ![s] = base[p] + written[p]]
               /\ written' = [written EXCEPT ![p] = 0]
               /\ Goto(p, IF base[p] + written[p] = Size THEN "finalize" ELSE "done")
      <4>1. \A q \in Patches : q # p => pc'[q] = pc[q] /\ written'[q] = written[q]
        BY <1>0, <3>2 DEF TypeInv, TypeOK, Goto
      <4>2. /\ pc'[p] \in {"finalize", "done"}
            /\ pc'[p] = "finalize" => base[p] + written[p] = Size
        BY <1>0, <3>2 DEF TypeInv, TypeOK, Goto
      <4>3. offset'[s] = base[p] + written[p] /\ \A t \in Sessions : t # s => offset'[t] = offset[t]
        BY <1>0, <2>0, <3>2 DEF TypeInv, TypeOK
      <4>4. offset[s] = Size => offset'[s] = Size
        BY <2>0, <2>t, <3>2, <4>3
      <4>5. offset'[s] <= Len(data[s])
        BY <2>p, <3>1, <4>3 DEF PatchInv, s
      <4>6. PatchInv(p)'
        <5>1. /\ pc'[p] \notin {"open", "body", "complete", "remove"}
              /\ pc'[p] \in Finalizing => pc'[p] = "finalize"
          BY <4>2 DEF Finalizing
        <5>2. pc'[p] = "finalize" => offset'[SessionOf[p]] = Size
          BY <4>2, <4>3 DEF s
        <5> QED BY <5>1, <5>2 DEF PatchInv
      <4>7. ASSUME NEW q \in Patches, q # p PROVE PatchInv(q)'
        BY <2>0, <3>1, <4>1, <4>3, <4>4, <4>7 DEF UploadInv, PatchInv
      <4>8. ASSUME NEW t \in Sessions PROVE SessionInv(t)'
        BY <3>1, <4>3, <4>4, <4>5 DEF UploadInv, SessionInv
      <4> QED BY <1>0, <4>6, <4>7, <4>8 DEF UploadInv
    <3>3. CASE Goto(p, "failed") /\ UNCHANGED <<offset, written>>
      <4>1. pc'[p] = "failed"
        BY <1>0, <3>3 DEF Goto, TypeInv, TypeOK
      <4>2. PatchInv(p)'
        BY <4>1 DEF PatchInv, Finalizing
      <4> QED BY <2>q, <3>1, <3>3, <4>2
    <3> QED BY <2>5, <3>2, <3>3 DEF AdvanceOffset, s
  <2>6. CASE HashTemp(p)
    <3>1. /\ pc[p] = "finalize" /\ UNCHANGED <<row, offset, data, refs, base, written>>
          /\ Goto(p, "refer") \/ Goto(p, "store")
      BY <2>6 DEF HashTemp, rowVars, tempVars
    <3>2. pc'[p] \in {"refer", "store"}
      BY <1>0, <3>1 DEF Goto, TypeInv, TypeOK
    <3>3. PatchInv(p)'
      BY <2>p, <3>1, <3>2 DEF PatchInv, Finalizing
    <3> QED BY <2>q, <3>1, <3>3
  <2>7. CASE StoreTemp(p)
    <3>1. /\ pc[p] = "store" /\ UNCHANGED <<row, offset, data, refs, base, written>>
          /\ Goto(p, "refer")
      BY <2>7 DEF StoreTemp, Unlink, rowVars, tempVars
    <3>2. pc'[p] = "refer"
      BY <1>0, <3>1 DEF Goto, TypeInv, TypeOK
    <3>3. PatchInv(p)'
      BY <2>p, <3>1, <3>2 DEF PatchInv, Finalizing
    <3> QED BY <2>q, <3>1, <3>3
  <2>8. CASE Refer(p)
    <3>1. /\ pc[p] = "refer" /\ Goto(p, "complete")
          /\ refs' = [refs EXCEPT ![s] = refs[s] + 1]
          /\ UNCHANGED <<row, offset, data, base, written>>
      BY <2>8 DEF Refer, rowVars, tempVars, s
    <3>2. /\ pc'[p] = "complete"
          /\ \A q \in Patches : q # p => pc'[q] = pc[q]
      BY <1>0, <3>1 DEF Goto, TypeInv, TypeOK
    <3>3. refs'[s] = refs[s] + 1 /\ \A t \in Sessions : t # s => refs'[t] = refs[t]
      BY <1>0, <2>0, <3>1 DEF TypeInv, TypeOK
    <3>4. offset[s] = Size /\ refs'[s] > 0
      BY <2>t, <2>p, <3>1, <3>3 DEF PatchInv, Finalizing, s
    <3>5. PatchInv(p)'
      BY <3>1, <3>2, <3>4 DEF PatchInv, s
    <3>6. ASSUME NEW q \in Patches, q # p PROVE PatchInv(q)'
      BY <2>0, <3>1, <3>2, <3>3, <3>4, <3>6 DEF UploadInv, PatchInv
    <3>7. ASSUME NEW t \in Sessions PROVE SessionInv(t)'
      BY <3>1, <3>3, <3>4 DEF UploadInv, SessionInv
    <3> QED BY <1>0, <3>5, <3>6, <3>7 DEF UploadInv
  <2>9. CASE FinalizeFails(p)
    <3>1. UNCHANGED <<row, offset, data, refs, base, written>> /\ Goto(p, "failed")
      BY <2>9 DEF FinalizeFails, rowVars, tempVars, storeVars
    <3>2. pc'[p] = "failed"
      BY <1>0, <3>1 DEF Goto, TypeInv, TypeOK
    <3>3. PatchInv(p)'
      BY <3>2 DEF PatchInv, Finalizing
    <3> QED BY <2>q, <3>1, <3>3
  <2>10. CASE Complete(p)
    <3>1. /\ pc[p] = "complete" /\ UNCHANGED <<offset, data, refs, base, written>>
          /\ Goto(p, "remove") \/ Goto(p, "failed")
      BY <2>10 DEF Complete, tempVars, storeVars
    <3>2. pc'[p] \in {"remove", "failed"}
      BY <1>0, <3>1 DEF Goto, TypeInv, TypeOK
    <3>3. PatchInv(p)' /\ refs[s] > 0
      BY <2>p, <3>1, <3>2 DEF PatchInv, Finalizing, s
    <3>4. \A t \in Sessions : row'[t] = "completed" => (row[t] = "completed" \/ refs[t] > 0)
      BY <1>0, <2>0, <2>10, <3>3, StatusType DEF Complete, TypeInv, s
    <3> QED BY <2>q, <3>1, <3>3, <3>4
  <2>11. CASE RemoveTemp(p)
    <3>1. UNCHANGED <<row, offset, data, refs, base, written>> /\ Goto(p, "done")
      BY <2>11 DEF RemoveTemp, Unlink, rowVars, storeVars
    <3>2. pc'[p] = "done"
      BY <1>0, <3>1 DEF Goto, TypeInv, TypeOK
    <3>3. PatchInv(p)'
      BY <3>2 DEF PatchInv, Finalizing
    <3> QED BY <2>q, <3>1, <3>3
  <2> QED
    BY <1>5, <2>1, <2>2, <2>3, <2>4, <2>5, <2>6, <2>7, <2>8, <2>9, <2>10, <2>11 DEF PatchStep
<1> QED
  BY <1>1, <1>2, <1>3, <1>4, <1>5 DEF Next, SweepAction

\* The invariant holds in every reachable state.
LEMMA UploadInvariant == Spec => []UploadInv
<1>1. Init => TypeInv
  BY InitType
<1>2. Init => UploadInv
  BY <1>1, ConstantsAssumption DEF Init, UploadInv, PatchInv, SessionInv, Finalizing
<1>3. UploadInv /\ [Next]_vars => UploadInv'
  BY UploadStepLemma
<1> QED BY <1>2, <1>3, PTL DEF Spec

\* The offset a HEAD reports is covered by bytes, however PATCHes race, break off
\* or outlive their session.
THEOREM OffsetSafe == Spec => []OffsetCovered
<1>1. UploadInv => OffsetCovered
  BY DEF UploadInv, SessionInv, OffsetCovered
<1> QED BY <1>1, UploadInvariant, PTL

\* A completed session has its reference, and no session gets one before its last
\* byte was acknowledged.
THEOREM CompletedSafe == Spec => []CompletedIsReferenced
<1>1. UploadInv => CompletedIsReferenced
  BY DEF UploadInv, SessionInv, CompletedIsReferenced
<1> QED BY <1>1, UploadInvariant, PTL

-----------------------------------------------------------------------------
(* The bytes: what the temp file and the stored objects hold               *)

Prefix(n) == [i \in 1 .. n |-> i]

\* No PATCH of s has appended a byte that offset_bytes does not count.
Clean(s) == \A p \in Patches : SessionOf[p] = s => written[p] = 0

\* A PATCH read an offset the row has not gone back from. While the row still has
\* that offset and no other PATCH has bytes in the file, the file is the prefix
\* this PATCH is about to acknowledge; and what it stores is addressed by the
\* hash of the whole file unless bytes went in uncounted.
PatchIntact(p) ==
    LET s == SessionOf[p] IN
    /\ base[p] <= offset[s]
    /\ (base[p] = offset[s] /\ \A q \in Patches \ {p} : SessionOf[q] = s => written[q] = 0)
          => data[s] = Prefix(base[p] + written[p])
    /\ (pc[p] = "store" /\ Clean(s)) => key[p] = Prefix(Size)

SessionIntact(s) ==
    /\ Clean(s) => data[s] = Prefix(offset[s])
    /\ moved[s] # NoKey => (offset[s] = Size /\ (Clean(s) => moved[s] = Prefix(Size)))

\* Every copy was taken of a session that was acknowledged to its last byte.
CopyIntact(o) ==
    \E s \in Sessions :
        offset[s] = Size /\ (Clean(s) => o = <<Prefix(Size), Prefix(Size)>>)

IntactInv ==
    /\ UploadInv
    /\ \A p \in Patches : PatchIntact(p)
    /\ \A s \in Sessions : SessionIntact(s)
    /\ \A o \in copies : CopyIntact(o)

\* The next byte of the client's file extends the prefix by one.
LEMMA PrefixAppend ==
    ASSUME NEW n \in Nat
    PROVE  Append(Prefix(n), n + 1) = Prefix(n + 1)
<1>1. Prefix(n) \in Seq(Nat) /\ Len(Prefix(n)) = n /\ Prefix(n + 1) \in Seq(Nat)
      /\ Len(Prefix(n + 1)) = n + 1
  BY DEF Prefix
<1>2. /\ Append(Prefix(n), n + 1) \in Seq(Nat)
      /\ Len(Append(Prefix(n), n + 1)) = n + 1
  BY <1>1
<1>3. ASSUME NEW i \in 1 .. n + 1
      PROVE  Append(Prefix(n), n + 1)[i] = Prefix(n + 1)[i]
  <2>1. CASE i = n + 1
    BY <1>1, <2>1 DEF Prefix
  <2>2. CASE i # n + 1
    <3>1. i \in 1 .. n
      BY <2>2
    <3>2. Append(Prefix(n), n + 1)[i] = Prefix(n)[i]
      BY <1>1, <3>1
    <3> QED BY <3>1, <3>2 DEF Prefix
  <2> QED BY <2>1, <2>2
<1> QED BY <1>1, <1>2, <1>3, SeqEqual

\* Steps that leave the bytes, their counts and the stored objects alone and take
\* no PATCH to the store step preserve the invariant.
LEMMA IntactFrame ==
    ASSUME IntactInv, UploadInv',
           UNCHANGED <<offset, data, base, written, key, moved, copies>>,
           \A q \in Patches : pc'[q] = "store" => pc[q] = "store"
    PROVE  IntactInv'
<1>1. ASSUME NEW s \in Sessions PROVE Clean(s)' <=> Clean(s)
  BY DEF Clean
<1>2. ASSUME NEW q \in Patches PROVE PatchIntact(q)'
  <2>1. PatchIntact(q) /\ SessionOf[q] \in Sessions
    BY ConstantsAssumption DEF IntactInv
  <2> QED BY <1>1, <2>1 DEF PatchIntact
<1>3. ASSUME NEW s \in Sessions PROVE SessionIntact(s)'
  BY <1>1 DEF IntactInv, SessionIntact
<1>4. ASSUME NEW o \in copies' PROVE CopyIntact(o)'
  <2>1. CopyIntact(o)
    BY DEF IntactInv
  <2> QED BY <1>1, <2>1 DEF CopyIntact
<1> QED BY <1>2, <1>3, <1>4 DEF IntactInv

\* A step of an acknowledged session counts no byte that was left uncounted, and
\* so does every step that changes neither counts nor offsets.
LEMMA IntactStep ==
    ASSUME IntactInv, [Next]_vars
    PROVE  IntactInv'
<1>0. UploadInv /\ UploadInv' /\ TypeInv /\ TypeInv'
  BY UploadStepLemma DEF IntactInv, UploadInv
<1>1. CASE UNCHANGED vars
  BY <1>0, <1>1, IntactFrame DEF vars, rowVars, tempVars, storeVars, patchVars
<1>2. CASE CloseConnection
  BY <1>0, <1>2, IntactFrame DEF CloseConnection, rowVars, tempVars, storeVars, patchVars
<1>3. ASSUME NEW s \in Sessions, SessionStep(s) PROVE IntactInv'
  <2>1. UNCHANGED <<offset, data, base, written, key, moved, copies, pc>>
    BY <1>3 DEF SessionStep, CreateTemp, CreateRow, TerminateTemp, TerminateRow, Expire, Unlink,
                rowVars, tempVars, storeVars, patchVars
  <2> QED BY <1>0, <2>1, IntactFrame
<1>4. ASSUME NEW n \in Nodes, SweepAction(n) PROVE IntactInv'
  <2>1. UNCHANGED <<offset, data, base, written, key, moved, copies, pc>>
    BY <1>4 DEF SweepAction, SweepStep, TryLock, LockAgain, FindExpired, AbortTemp, AbortRow,
                AbortDone, Prune, ListTemps, Reconcile, ReconcileDone, Unlock, Restart, Unlink,
                rowVars, tempVars, storeVars, patchVars
  <2> QED BY <1>0, <2>1, IntactFrame
<1>5. ASSUME NEW p \in Patches, PatchStep(p) PROVE IntactInv'
  <2> DEFINE s == SessionOf[p]
  <2>0. s \in Sessions /\ Size \in Nat /\ \A q \in Patches : SessionOf[q] \in Sessions
    BY ConstantsAssumption
  <2> HIDE DEF s
  <2>s. s = SessionOf[p]
    BY DEF s
  <2>t. /\ \A q \in Patches : base[q] \in Nat /\ written[q] \in Nat /\ base[q] + written[q] <= Size
        /\ \A t \in Sessions : offset[t] \in Nat
        /\ data[s] \in Seq(1 .. Size)
    BY <1>0, <2>0 DEF TypeInv, TypeOK
  <2>p. PatchIntact(p) /\ SessionIntact(s) /\ PatchInv(p)
    BY <1>0, <2>0 DEF IntactInv, UploadInv
  \* A step that only moves p on, to another step than the store.
  <2>q. ASSUME UNCHANGED <<offset, data, base, written, key, moved, copies>>,
               NEW l, Goto(p, l), l # "store"
        PROVE  IntactInv'
    <3>1. \A q \in Patches : pc'[q] = "store" => pc[q] = "store"
      BY <1>0, <2>q DEF Goto, TypeInv, TypeOK
    <3> QED BY <1>0, <2>q, <3>1, IntactFrame
  <2>1. CASE Load(p)
    <3>1. /\ base' = [base EXCEPT ![p] = offset[s]] /\ Goto(p, "open") /\ pc[p] = "load"
          /\ UNCHANGED <<offset, data, written, key, moved, copies>>
      BY <2>1 DEF Load, s, rowVars, tempVars, storeVars
    <3>2. \A q \in Patches : /\ q # p => pc'[q] = pc[q] /\ base'[q] = base[q]
                             /\ q = p => pc'[q] = "open" /\ base'[q] = offset[s]
      BY <1>0, <3>1 DEF TypeInv, TypeOK, Goto
    <3>3. written[p] = 0
      BY <1>0, <3>1 DEF TypeInv
    <3>4. \A t \in Sessions : Clean(t)' <=> Clean(t)
      BY <3>1 DEF Clean
    <3>5. ASSUME \A q \in Patches \ {p} : SessionOf[q] = s => written[q] = 0
          PROVE  data[s] = Prefix(offset[s])
      <4>1. Clean(s)
        BY <3>3, <3>5 DEF Clean
      <4> QED BY <2>p, <4>1 DEF SessionIntact
    <3>6. PatchIntact(p)'
      <4>1. offset[s] + written[p] = offset[s] /\ offset[s] <= offset[s]
        BY <2>0, <2>t, <3>3
      <4> QED BY <2>s, <3>1, <3>2, <3>5, <4>1 DEF PatchIntact
    <3>7. ASSUME NEW q \in Patches, q # p PROVE PatchIntact(q)'
      <4>1. PatchIntact(q) /\ SessionOf[q] \in Sessions
        BY <2>0 DEF IntactInv
      <4> QED BY <3>1, <3>2, <3>4, <3>7, <4>1 DEF PatchIntact
    <3>8. ASSUME NEW t \in Sessions PROVE SessionIntact(t)'
      BY <3>1, <3>4 DEF IntactInv, SessionIntact
    <3>9. ASSUME NEW o \in copies' PROVE CopyIntact(o)'
      <4>1. CopyIntact(o)
        BY <3>1 DEF IntactInv
      <4> QED BY <3>1, <3>4, <4>1 DEF CopyIntact
    <3> QED BY <1>0, <3>6, <3>7, <3>8, <3>9 DEF IntactInv
  <2>2. CASE OpenTemp(p)
    <3>1. /\ UNCHANGED <<offset, data, base, written, key, moved, copies>>
          /\ Goto(p, "body") \/ Goto(p, "failed")
      BY <2>2 DEF OpenTemp, rowVars, tempVars, storeVars
    <3> QED BY <2>q, <3>1
  <2>4. CASE BodyFails(p)
    <3>1. UNCHANGED <<offset, data, base, written, key, moved, copies>> /\ Goto(p, "failed")
      BY <2>4 DEF BodyFails, rowVars, tempVars, storeVars
    <3> QED BY <2>q, <3>1
  <2>8. CASE Refer(p)
    <3>1. UNCHANGED <<offset, data, base, written, key, moved, copies>> /\ Goto(p, "complete")
      BY <2>8 DEF Refer, rowVars, tempVars
    <3> QED BY <2>q, <3>1
  <2>9. CASE FinalizeFails(p)
    <3>1. UNCHANGED <<offset, data, base, written, key, moved, copies>> /\ Goto(p, "failed")
      BY <2>9 DEF FinalizeFails, rowVars, tempVars, storeVars
    <3> QED BY <2>q, <3>1
  <2>10. CASE Complete(p)
    <3>1. /\ UNCHANGED <<offset, data, base, written, key, moved, copies>>
          /\ Goto(p, "remove") \/ Goto(p, "failed")
      BY <2>10 DEF Complete, tempVars, storeVars
    <3> QED BY <2>q, <3>1
  <2>11. CASE RemoveTemp(p)
    <3>1. UNCHANGED <<offset, data, base, written, key, moved, copies>> /\ Goto(p, "done")
      BY <2>11 DEF RemoveTemp, Unlink, rowVars, storeVars
    <3> QED BY <2>q, <3>1
  <2>3. CASE Append1(p)
    <3>1. /\ pc[p] = "body" /\ base[p] + written[p] < Size
          /\ data' = [data EXCEPT ![s] = Append(data[s], base[p] + written[p] + 1)]
          /\ written' = [written EXCEPT ![p] = written[p] + 1]
          /\ UNCHANGED <<offset, base, key, moved, copies, pc>>
      BY <2>3 DEF Append1, s, rowVars, storeVars
    <3>2. /\ \A q \in Patches : q # p => written'[q] = written[q]
          /\ written'[p] = written[p] + 1
      BY <1>0, <3>1 DEF TypeInv, TypeOK
    <3>3. /\ \A t \in Sessions : t # s => data'[t] = data[t]
          /\ data'[s] = Append(data[s], base[p] + written[p] + 1)
      BY <1>0, <2>0, <3>1 DEF TypeInv, TypeOK
    <3>4. written'[p] # 0
      BY <2>t, <3>2
    <3>5. ~Clean(s)'
      BY <2>s, <3>4 DEF Clean
    <3>6. \A t \in Sessions : t # s => (Clean(t)' <=> Clean(t))
      BY <2>s, <3>2 DEF Clean
    <3>7. PatchIntact(p)'
      <4>1. ASSUME base[p] = offset[s],
                   \A q \in Patches \ {p} : SessionOf[q] = s => written[q] = 0
            PROVE  data'[s] = Prefix(base[p] + (written[p] + 1))
        <5>1. data[s] = Prefix(base[p] + written[p])
          BY <2>p, <2>s, <4>1 DEF PatchIntact
        <5>2. base[p] + written[p] \in Nat /\ base[p] + (written[p] + 1) = base[p] + written[p] + 1
          BY <2>t
        <5> QED BY <3>3, <5>1, <5>2, PrefixAppend
      <4>2. base[p] <= offset[s]
        BY <2>p, <2>s DEF PatchIntact
      <4> QED BY <2>s, <3>1, <3>2, <3>5, <4>1, <4>2 DEF PatchIntact
    <3>8. ASSUME NEW q \in Patches, q # p PROVE PatchIntact(q)'
      <4>1. PatchIntact(q) /\ SessionOf[q] \in Sessions
        BY <2>0 DEF IntactInv
      <4>2. CASE SessionOf[q] = s
        BY <2>s, <3>1, <3>2, <3>4, <3>5, <3>8, <4>1, <4>2 DEF PatchIntact
      <4>3. CASE SessionOf[q] # s
        <5>1. (\A r \in Patches \ {q} : SessionOf[r] = SessionOf[q] => written'[r] = 0)
               => (\A r \in Patches \ {q} : SessionOf[r] = SessionOf[q] => written[r] = 0)
          BY <2>s, <3>2, <4>3
        <5> QED BY <3>1, <3>2, <3>3, <3>6, <3>8, <4>1, <4>3, <5>1 DEF PatchIntact
      <4> QED BY <4>2, <4>3
    <3>9. ASSUME NEW t \in Sessions PROVE SessionIntact(t)'
      BY <3>1, <3>3, <3>5, <3>6 DEF IntactInv, SessionIntact
    <3>10. ASSUME NEW o \in copies' PROVE CopyIntact(o)'
      <4>1. CopyIntact(o)
        BY <3>1 DEF IntactInv
      <4> QED BY <3>1, <3>5, <3>6, <4>1 DEF CopyIntact
    <3> QED BY <1>0, <3>7, <3>8, <3>9, <3>10 DEF IntactInv
  <2>5. CASE AdvanceOffset(p)
    <3>1. pc[p] = "body" /\ UNCHANGED <<data, base, key, moved, copies>>
      BY <2>5 DEF AdvanceOffset, tempVars, storeVars
    <3>2. CASE /\ offset[s] = base[p]
               /\ offset' = [offset EXCEPT ![s] = base[p] + written[p]]
               /\ written' = [written EXCEPT ![p] = 0]
               /\ Goto(p, IF base[p] + written[p] = Size THEN "finalize" ELSE "done")
      <4>1. \A q \in Patches : /\ q # p => pc'[q] = pc[q] /\ written'[q] = written[q]
                               /\ q = p => pc'[q] # "store" /\ written'[q] = 0
        BY <1>0, <3>2 DEF TypeInv, TypeOK, Goto
      <4>2. offset'[s] = base[p] + written[p] /\ \A t \in Sessions : t # s => offset'[t] = offset[t]
        BY <1>0, <2>0, <3>2 DEF TypeInv, TypeOK
      <4>3. ASSUME \A q \in Patches \ {p} : SessionOf[q] = s => written[q] = 0
            PROVE  data[s] = Prefix(offset'[s])
        BY <2>p, <2>s, <3>2, <4>2, <4>3 DEF PatchIntact
      \* The row of an acknowledged session stays as it is, and so does what was left uncounted.
      <4>4. ASSUME NEW t \in Sessions, offset[t] = Size
            PROVE  offset'[t] = Size /\ (Clean(t)' => Clean(t))
        <5>1. CASE t = s
          <6>1. written[p] = 0
            BY <2>0, <2>t, <3>2, <4>4, <5>1
          <6>2. offset'[t] = Size
            BY <2>0, <2>t, <3>2, <4>2, <4>4, <5>1, <6>1
          <6> QED BY <4>1, <6>1, <6>2 DEF Clean
        <5>2. CASE t # s
          BY <2>s, <4>1, <4>2, <4>4, <5>2 DEF Clean
        <5> QED BY <5>1, <5>2
      <4>5. offset'[s] \in Nat /\ offset[s] <= offset'[s]
        BY <2>0, <2>t, <3>2, <4>2
      <4>6. PatchIntact(p)'
        <5>1. (\A q \in Patches \ {p} : SessionOf[q] = s => written'[q] = 0)
                => data[s] = Prefix(offset'[s])
          BY <4>1, <4>3
        <5>2. base[p] + written'[p] = base[p] /\ base[p] <= offset'[s]
          BY <2>t, <3>2, <4>1, <4>5
        <5> QED BY <2>s, <3>1, <4>1, <5>1, <5>2 DEF PatchIntact
      <4>7. ASSUME NEW q \in Patches, q # p PROVE PatchIntact(q)'
        <5>1. PatchIntact(q) /\ SessionOf[q] \in Sessions /\ PatchInv(q) /\ written'[q] = written[q]
              /\ pc'[q] = pc[q]
          BY <1>0, <2>0, <4>1, <4>7 DEF IntactInv, UploadInv
        <5>2. ASSUME pc'[q] = "store", Clean(SessionOf[q])'
              PROVE  key'[q] = Prefix(Size)
          <6>1. offset[SessionOf[q]] = Size
            BY <5>1, <5>2 DEF PatchInv, Finalizing
          <6> QED BY <3>1, <4>4, <5>1, <5>2, <6>1 DEF PatchIntact
        <5>3. CASE SessionOf[q] = s
          <6>1. base[q] <= offset[s] /\ base[q] <= offset'[s]
            <7>1. base[q] <= offset[s]
              BY <5>1, <5>3 DEF PatchIntact
            <7> QED BY <2>0, <2>t, <4>5, <7>1
          <6>2. ASSUME base[q] = offset'[s],
                       \A r \in Patches \ {q} : SessionOf[r] = s => written'[r] = 0
                PROVE  data[s] = Prefix(base[q] + written[q])
            <7>1. written[p] = 0 /\ base[q] = offset[s]
              BY <2>0, <2>t, <3>2, <4>2, <4>5, <6>1, <6>2
            <7>2. \A r \in Patches \ {q} : SessionOf[r] = s => written[r] = 0
              BY <4>1, <6>2, <7>1
            <7> QED BY <5>1, <5>3, <7>1, <7>2 DEF PatchIntact
          <6> QED BY <3>1, <5>1, <5>2, <5>3, <6>1, <6>2 DEF PatchIntact
        <5>4. CASE SessionOf[q] # s
          <6>1. (\A r \in Patches \ {q} : SessionOf[r] = SessionOf[q] => written'[r] = 0)
                 => (\A r \in Patches \ {q} : SessionOf[r] = SessionOf[q] => written[r] = 0)
            BY <2>s, <4>1, <5>4
          <6>2. offset'[SessionOf[q]] = offset[SessionOf[q]]
            BY <4>2, <5>1, <5>4
          <6> QED BY <3>1, <5>1, <5>2, <6>1, <6>2 DEF PatchIntact
        <5> QED BY <5>3, <5>4
      <4>8. ASSUME NEW t \in Sessions PROVE SessionIntact(t)'
        <5>1. SessionIntact(t)
          BY DEF IntactInv
        <5>2. ASSUME Clean(t)' PROVE data'[t] = Prefix(offset'[t])
          <6>1. CASE t = s
            <7>1. \A q \in Patches \ {p} : SessionOf[q] = s => written[q] = 0
              BY <4>1, <5>2, <6>1 DEF Clean
            <7> QED BY <3>1, <4>3, <6>1, <7>1
          <6>2. CASE t # s
            <7>1. Clean(t)
              BY <2>s, <4>1, <5>2, <6>2 DEF Clean
            <7> QED BY <3>1, <4>2, <5>1, <6>2, <7>1 DEF SessionIntact
          <6> QED BY <6>1, <6>2
        <5>3. moved'[t] # NoKey => (offset'[t] = Size /\ (Clean(t)' => moved'[t] = Prefix(Size)))
          BY <3>1, <4>4, <5>1 DEF SessionIntact
        <5> QED BY <5>2, <5>3 DEF SessionIntact
      <4>9. ASSUME NEW o \in copies' PROVE CopyIntact(o)'
        <5>1. CopyIntact(o)
          BY <3>1 DEF IntactInv
        <5> QED BY <4>4, <5>1 DEF CopyIntact
      <4> QED BY <1>0, <4>6, <4>7, <4>8, <4>9 DEF IntactInv
    <3>3. CASE Goto(p, "failed") /\ UNCHANGED <<offset, written>>
      BY <2>q, <3>1, <3>3
    <3> QED BY <2>5, <3>2, <3>3 DEF AdvanceOffset, s
  <2>6. CASE HashTemp(p)
    <3>1. /\ pc[p] = "finalize" /\ UNCHANGED <<offset, data, base, written, moved, copies>>
          /\ key' = [key EXCEPT ![p] = data[s]]
          /\ Goto(p, IF data[s] \in known THEN "refer" ELSE "store")
      BY <2>6 DEF HashTemp, rowVars, tempVars, s
    <3>2. /\ key'[p] = data[s]
          /\ \A q \in Patches : q # p => key'[q] = key[q] /\ pc'[q] = pc[q]
      BY <1>0, <3>1 DEF Goto, TypeInv, TypeOK
    <3>3. \A t \in Sessions : Clean(t)' <=> Clean(t)
      BY <3>1 DEF Clean
    <3>4. offset[s] = Size
      BY <2>p, <2>s, <3>1 DEF PatchInv, Finalizing
    <3>5. Clean(s) => key'[p] = Prefix(Size)
      BY <2>p, <3>2, <3>4 DEF SessionIntact
    <3>6. PatchIntact(p)'
      BY <2>0, <2>p, <2>s, <3>1, <3>3, <3>5 DEF PatchIntact
    <3>7. ASSUME NEW q \in Patches, q # p PROVE PatchIntact(q)'
      <4>1. PatchIntact(q) /\ SessionOf[q] \in Sessions
        BY <2>0 DEF IntactInv
      <4> QED BY <3>1, <3>2, <3>3, <3>7, <4>1 DEF PatchIntact
    <3>8. ASSUME NEW t \in Sessions PROVE SessionIntact(t)'
      BY <3>1, <3>3 DEF IntactInv, SessionIntact
    <3>9. ASSUME NEW o \in copies' PROVE CopyIntact(o)'
      <4>1. CopyIntact(o)
        BY <3>1 DEF IntactInv
      <4> QED BY <3>1, <3>3, <4>1 DEF CopyIntact
    <3> QED BY <1>0, <3>6, <3>7, <3>8, <3>9 DEF IntactInv
  <2>7. CASE StoreTemp(p)
    <3>1. /\ pc[p] = "store" /\ Goto(p, "refer")
          /\ UNCHANGED <<offset, data, base, written, key>>
      BY <2>7 DEF StoreTemp, Unlink, rowVars, tempVars
    <3>2. \A q \in Patches : pc'[q] = "store" => pc[q] = "store"
      BY <1>0, <3>1 DEF Goto, TypeInv, TypeOK
    <3>3. \A t \in Sessions : Clean(t)' <=> Clean(t)
      BY <3>1 DEF Clean
    <3>4. offset[s] = Size
      BY <2>p, <2>s, <3>1 DEF PatchInv, Finalizing
    <3>5. Clean(s) => key[p] = Prefix(Size) /\ data[s] = Prefix(Size)
      BY <2>p, <2>s, <3>1, <3>4 DEF PatchIntact, SessionIntact
    <3>6. ASSUME NEW q \in Patches PROVE PatchIntact(q)'
      <4>1. PatchIntact(q) /\ SessionOf[q] \in Sessions
        BY <2>0 DEF IntactInv
      <4> QED BY <3>1, <3>2, <3>3, <4>1 DEF PatchIntact
    <3>7. ASSUME NEW t \in Sessions PROVE SessionIntact(t)'
      <4>1. moved' = [moved EXCEPT ![s] = key[p]] \/ moved' = moved
        BY <2>7 DEF StoreTemp, s
      <4>2. moved'[t] = moved[t] \/ (t = s /\ moved'[t] = key[p])
        BY <1>0, <4>1 DEF TypeInv, TypeOK
      <4>3. SessionIntact(t)
        BY DEF IntactInv
      <4> QED BY <3>1, <3>3, <3>4, <3>5, <4>2, <4>3 DEF SessionIntact
    <3>8. ASSUME NEW o \in copies' PROVE CopyIntact(o)'
      <4>1. o \in copies \/ o = <<key[p], data[s]>>
        BY <2>7 DEF StoreTemp, s
      <4>2. CASE o \in copies
        <5>1. CopyIntact(o)
          BY <4>2 DEF IntactInv
        <5> QED BY <3>1, <3>3, <5>1 DEF CopyIntact
      <4>3. CASE o = <<key[p], data[s]>>
        BY <2>0, <3>1, <3>3, <3>4, <3>5, <4>3 DEF CopyIntact
      <4> QED BY <4>1, <4>2, <4>3
    <3> QED BY <1>0, <3>6, <3>7, <3>8 DEF IntactInv
  <2> QED
    BY <1>5, <2>1, <2>2, <2>3, <2>4, <2>5, <2>6, <2>7, <2>8, <2>9, <2>10, <2>11 DEF PatchStep
<1> QED
  BY <1>1, <1>2, <1>3, <1>4, <1>5 DEF Next, SweepAction

\* The invariant holds in every reachable state.
LEMMA IntactInvariant == Spec => []IntactInv
<1>1. Init => IntactInv
  <2> SUFFICES ASSUME Init PROVE IntactInv
    OBVIOUS
  <2>1. UploadInv
    BY InitType, ConstantsAssumption DEF Init, UploadInv, PatchInv, SessionInv, Finalizing
  <2>2. Prefix(0) = <<>>
    BY DEF Prefix
  <2>3. ASSUME NEW p \in Patches PROVE PatchIntact(p)
    BY <2>2, ConstantsAssumption DEF Init, PatchIntact
  <2>4. ASSUME NEW s \in Sessions PROVE SessionIntact(s)
    BY <2>2 DEF Init, SessionIntact
  <2> QED BY <2>1, <2>3, <2>4 DEF IntactInv, Init
<1>2. IntactInv /\ [Next]_vars => IntactInv'
  BY IntactStep
<1> QED BY <1>1, <1>2, PTL DEF Spec

\* While every appended byte is counted, the temp file is exactly the acknowledged
\* prefix of the client's file: of PATCHes that read the same offset at most one
\* has its bytes counted, and the bytes of the others stay uncounted for good.
THEOREM AcknowledgedSafe == Spec => []AcknowledgedIntact
<1>1. IntactInv => AcknowledgedIntact
  BY DEF IntactInv, SessionIntact, Clean, Prefix, AcknowledgedIntact
<1> QED BY <1>1, IntactInvariant, PTL

\* What finalizations store is then the client's whole file under its own address,
\* renamed into place or copied, whatever sweeps and terminations overlap.
THEOREM StoredSafe == Spec => []StoredIntact
<1>1. ASSUME IntactInv, \A p \in Patches : written[p] = 0, NEW o \in Stored
      PROVE  o = <<Whole, Whole>>
  <2>1. Whole = Prefix(Size) /\ \A s \in Sessions : Clean(s)
    BY <1>1 DEF Whole, Prefix, Clean
  <2>2. CASE o \in copies
    BY <1>1, <2>1, <2>2 DEF IntactInv, CopyIntact
  <2>3. CASE o \notin copies
    <3>1. PICK s \in Sessions : moved[s] # NoKey /\ o = <<moved[s], data[s]>>
      BY <2>3 DEF Stored
    <3>2. SessionIntact(s)
      BY <1>1 DEF IntactInv
    <3> QED BY <2>1, <3>1, <3>2 DEF SessionIntact
  <2> QED BY <2>2, <2>3
<1>2. IntactInv => StoredIntact
  BY <1>1 DEF StoredIntact
<1> QED BY <1>2, IntactInvariant, PTL
=============================================================================
