---------------------------- MODULE BackupProofs ----------------------------
(***************************************************************************)
(* Proofs about Backup, for every number of replicas, requests,            *)
(* connections, rows and cron slots. The inductive invariant has five      *)
(* parts: types with the ranges of row ids, the advisory lock and who may  *)
(* rely on it, the slots of the rows, the rows of the dumps on the storage *)
(* and, while nobody edits retention_count, the dumps a cleanup lists.     *)
(***************************************************************************)
EXTENDS Backup, WellFoundedInduction, NaturalsInduction, FiniteSetTheorems, TLAPS

\* p has a row whose dump it makes or has just made.
Own(p) ==
    /\ p \in Runners
    /\ pc[p] \in {"dump", "done"} \/ (p \in Triggers /\ pc[p] = "lock")

TypeInv ==
    /\ TypeOK
    /\ scheduled \subseteq 1..last /\ objects \subseteq 1..last
    /\ \A p \in Procs : todo[p] \subseteq 1..last
    /\ \A p \in Runners : Own(p) \/ pc[p] \in {"fail", "stale"} => rec[p] \in 1..last
    /\ \A p \in Procs : pc[p] = "row" => rec[p] \in 1..last

\* Steps that need the lock.
Guarded(p) == pc[p] = "dump" \/ (p \in Workers /\ pc[p] = "insert")

LockInv ==
    /\ \A c, d \in Conns : held[c] > 0 /\ held[d] > 0 => c = d
    /\ \A p \in Procs : conn[p] # NoConn => held[conn[p]] > 0 /\ PoolOf[conn[p]] = Home[p]
    /\ \A p, q \in Procs : conn[p] # NoConn /\ conn[p] = conn[q] => p = q
    /\ \A p \in Procs : Guarded(p) => conn[p] # NoConn

-----------------------------------------------------------------------------
(* Types                                                                   *)

\* The rows are ids that were handed out.
LEMMA RowsHanded == TypeInv => Rows \subseteq 1..last
BY DEF TypeInv, TypeOK, Rows, Records

\* Writing a status that is not "none" keeps the type of the column, and which
\* rows there are: SetStatus leaves unknown rows alone.
LEMMA SetStatusType ==
    ASSUME TypeInv, NEW i, NEW s \in Status \ {"none"}, SetStatus(i, s), last' = last
    PROVE  /\ status' \in [Records -> Status]
           /\ \A j \in Records : status'[j] = "none" <=> j > last'
<1>1. CASE i \in Rows
  <2>1. i \in Records /\ status' = [status EXCEPT ![i] = s] /\ i \in 1..last
    BY <1>1, RowsHanded DEF SetStatus, Rows
  <2> QED BY <2>1 DEF TypeInv, TypeOK, Records
<1>2. CASE i \notin Rows
  BY <1>2 DEF SetStatus, TypeInv, TypeOK
<1> QED BY <1>1, <1>2

\* A step of process p leaves the registers of the others alone and gives p
\* the row id its next step needs.
LEMMA Registers ==
    ASSUME TypeInv, NEW p \in Procs, NEW l \in PC, Goto(p, l),
           last' \in Records \cup {0}, last <= last',
           rec' \in [Procs -> Records \cup {0}], \A q \in Procs \ {p} : rec'[q] = rec[q],
           todo' \in [Procs -> SUBSET (1..last)],
           \/ l \notin {"dump", "done", "fail", "stale", "lock", "row"}
           \/ l = "lock" /\ p \in Workers
           \/ rec'[p] \in 1..last'
    PROVE  /\ pc' \in [Procs -> PC] /\ rec' \in [Procs -> Records \cup {0}]
           /\ todo' \in [Procs -> SUBSET Records]
           /\ \A q \in Procs : todo'[q] \subseteq 1..last'
           /\ \A q \in Runners : Own(q)' \/ pc'[q] \in {"fail", "stale"} => rec'[q] \in 1..last'
           /\ \A q \in Procs : pc'[q] = "row" => rec'[q] \in 1..last'
<1>1. /\ pc' = [pc EXCEPT ![p] = l] /\ pc \in [Procs -> PC]
      /\ Runners \subseteq Procs /\ Workers \cap Triggers = {}
  BY ConstantsAssumption DEF Goto, TypeInv, TypeOK, Procs
<1>2. /\ last \in Nat /\ last' \in Nat /\ 1..last' \subseteq Records
      /\ 1..last \subseteq 1..last'
  BY ConstantsAssumption DEF TypeInv, TypeOK, Records
<1>3. \A q \in Runners : Own(q)' \/ pc'[q] \in {"fail", "stale"} => rec'[q] \in 1..last'
  <2> TAKE q \in Runners
  <2>1. CASE q = p
    BY <2>1, <1>1 DEF Own
  <2>2. CASE q # p
    <3>1. pc'[q] = pc[q] /\ rec'[q] = rec[q] /\ (Own(q)' <=> Own(q))
      BY <2>2, <1>1 DEF Own
    <3> QED BY <3>1, <1>2 DEF TypeInv
  <2> QED BY <2>1, <2>2
<1>4. \A q \in Procs : pc'[q] = "row" => rec'[q] \in 1..last'
  <2> TAKE q \in Procs
  <2>1. CASE q = p
    BY <2>1, <1>1
  <2>2. CASE q # p
    BY <2>2, <1>1, <1>2 DEF TypeInv
  <2> QED BY <2>1, <2>2
<1>5. todo' \in [Procs -> SUBSET Records] /\ \A q \in Procs : todo'[q] \subseteq 1..last'
  BY <1>2
<1> QED BY <1>1, <1>3, <1>4, <1>5

\* The registers as TypeInv has them, for steps that leave them alone.
LEMMA TypedRegisters ==
    TypeInv => /\ rec \in [Procs -> Records \cup {0}] /\ todo \in [Procs -> SUBSET (1..last)]
               /\ last \in Records \cup {0} /\ last <= last
BY ConstantsAssumption DEF TypeInv, TypeOK, Records

\* What is_backup_due leads to, with and without the lock.
LEMMA DecideGoto ==
    ASSUME NEW w, NEW due \in BOOLEAN, Decide(w, due)
    PROVE  \E l \in {"lock", "idle", "insert", "unlock"} :
             /\ Goto(w, l) /\ (conn[w] = NoConn => l \in {"lock", "idle"})
             /\ (conn[w] # NoConn => l \in {"insert", "unlock"})
             /\ (l \in {"lock", "insert"} => due)
BY DEF Decide

\* A set of row ids that is not empty has a greatest one.
LEMMA GreatestRow ==
    ASSUME NEW S, S \subseteq Records, S # {}
    PROVE  \E i \in S : \A j \in S : j <= i
<1> DEFINE T == {MaxRecords - i : i \in S}
<1>1. T \subseteq Nat /\ T # {}
  <2>1. \A i \in S : MaxRecords - i \in Nat
    BY ConstantsAssumption DEF Records
  <2>2. PICK i \in S : TRUE
    OBVIOUS
  <2>3. MaxRecords - i \in T
    OBVIOUS
  <2> QED BY <2>1, <2>3
<1>2. PICK x \in T : \A y \in T : ~(<<y, x>> \in OpToRel(<, Nat))
  BY <1>1, NatLessThanWellFounded, WFMin
<1>3. PICK i \in S : x = MaxRecords - i
  OBVIOUS
<1>4. ASSUME NEW j \in S PROVE j <= i
  <2>1. MaxRecords - j \in T
    OBVIOUS
  <2>2. ~(MaxRecords - j < x)
    BY <1>1, <1>2, <2>1 DEF OpToRel
  <2> QED BY <1>3, <2>2, ConstantsAssumption DEF Records
<1> QED BY <1>4

\* find_latest_by_config returns a row of the config, the last inserted one.
LEMMA LatestRow ==
    ConfigRows # {} => Latest \in ConfigRows /\ \A j \in ConfigRows : j <= Latest
BY GreatestRow DEF Latest, ConfigRows, Rows

\* The row of an INSERT has the next id, which the process keeps.
LEMMA NewRowType ==
    ASSUME TypeInv, NEW p \in Procs, NewRow(p)
    PROVE  /\ last' = last + 1 /\ last' \in Records /\ last <= last'
           /\ status' \in [Records -> Status] /\ slot' \in [Records -> Nat]
           /\ \A j \in Records : status'[j] = "none" <=> j > last'
           /\ rec' \in [Procs -> Records \cup {0}] /\ \A q \in Procs \ {p} : rec'[q] = rec[q]
           /\ rec'[p] = last' /\ rec'[p] \in 1..last' /\ 1..last \subseteq 1..last'
           /\ last + 1 \in 1..last' /\ last + 1 \in Records
<1>1. last \in Nat /\ last + 1 \in Records
  BY ConstantsAssumption DEF NewRow, TypeInv, TypeOK, Records
<1>2. /\ last' = last + 1 /\ status' = [status EXCEPT ![last + 1] = "running"]
      /\ slot' = [slot EXCEPT ![last + 1] = now] /\ rec' = [rec EXCEPT ![p] = last + 1]
  BY DEF NewRow
<1>3. \A j \in Records : status'[j] = "none" <=> j > last'
  BY <1>1, <1>2 DEF TypeInv, TypeOK, Records
<1>4. status' \in [Records -> Status] /\ slot' \in [Records -> Nat]
  BY <1>1, <1>2 DEF TypeInv, TypeOK, Status
<1>5. rec' \in [Procs -> Records \cup {0}] /\ rec'[p] = last + 1 /\ \A q \in Procs \ {p} : rec'[q] = rec[q]
  BY <1>1, <1>2 DEF TypeInv, TypeOK
<1> QED BY <1>1, <1>2, <1>3, <1>4, <1>5

-----------------------------------------------------------------------------
\* The steps of the schedule keep the types.
LEMMA WorkerType ==
    ASSUME TypeInv, NEW w \in Workers, WorkerStep(w)
    PROVE  TypeInv'
<1>1. w \in Runners /\ w \in Procs /\ w \notin Triggers
  BY ConstantsAssumption DEF Runners, Procs
<1>2. CASE Scan(w)
  <2>1. /\ Goto(w, "check") /\ keep' = [keep EXCEPT ![w] = retention]
        /\ UNCHANGED <<rowVars, objects, now, held, configVars, rec, conn, todo, removed, faults>>
    BY <1>2 DEF Scan
  <2>2. last' = last /\ rec' = rec /\ todo' = todo /\ "check" \in PC
    BY <2>1 DEF rowVars, PC
  <2>3. keep' \in [Procs -> Nat \ {0}]
    BY <2>1 DEF TypeInv, TypeOK
  <2> QED
    BY <1>1, <2>1, <2>2, <2>3, Registers, TypedRegisters DEF rowVars, configVars, TypeInv, TypeOK
<1>3. CASE CheckDue(w)
  <2>1. UNCHANGED <<rowVars, objects, now, held, configVars, conn, todo, keep, removed, faults>>
    BY <1>3 DEF CheckDue
  <2>2. \E l \in PC : Goto(w, l) /\ l \notin {"dump", "done", "fail", "row"}
                       /\ (l = "stale" => ConfigRows # {} /\ rec' = [rec EXCEPT ![w] = Latest])
                       /\ (l # "stale" => rec' = rec)
    <3>1. CASE UNCHANGED rec /\ \E due \in BOOLEAN : Decide(w, due)
      <4>1. PICK due \in BOOLEAN : Decide(w, due)
        BY <3>1
      <4>2. PICK l \in {"lock", "idle", "insert", "unlock"} : Goto(w, l)
        BY <4>1, DecideGoto
      <4> QED BY <3>1, <4>2 DEF PC
    <3>2. CASE rec' = [rec EXCEPT ![w] = Latest] /\ Goto(w, "stale") /\ ConfigRows # {}
      BY <3>2 DEF PC
    <3>3. (now > 0) \in BOOLEAN /\ (now > slot[Latest]) \in BOOLEAN
      OBVIOUS
    <3> QED BY <1>3, <3>1, <3>2, <3>3 DEF CheckDue
  <2>3. PICK l \in PC : Goto(w, l) /\ l \notin {"dump", "done", "fail", "row"}
                       /\ (l = "stale" => ConfigRows # {} /\ rec' = [rec EXCEPT ![w] = Latest])
                       /\ (l # "stale" => rec' = rec)
    BY <2>2
  <2>4. last' = last /\ todo' = todo
    BY <2>1 DEF rowVars
  <2>5. /\ rec' \in [Procs -> Records \cup {0}] /\ \A q \in Procs \ {w} : rec'[q] = rec[q]
        /\ l = "stale" => rec'[w] \in 1..last'
    <3>1. CASE l # "stale"
      BY <3>1, <2>3, TypedRegisters
    <3>2. CASE l = "stale"
      <4>1. Latest \in 1..last /\ Latest \in Records
        BY <3>2, <2>3, LatestRow, RowsHanded DEF ConfigRows, Rows
      <4> QED BY <3>2, <2>3, <2>4, <4>1, <1>1, TypedRegisters
    <3> QED BY <3>1, <3>2
  <2> QED
    BY <1>1, <2>1, <2>3, <2>4, <2>5, Registers, TypedRegisters DEF rowVars, configVars, TypeInv, TypeOK
<1>4. CASE MarkStale(w)
  <2>1. /\ Decide(w, now > slot[rec[w]]) /\ rec' = [rec EXCEPT ![w] = 0]
        /\ UNCHANGED <<slot, scheduled, last, objects, now, held, configVars, conn, todo, keep, removed>>
    BY <1>4 DEF MarkStale
  <2>2. PICK l \in {"lock", "idle", "insert", "unlock"} : Goto(w, l)
    <3>1. (now > slot[rec[w]]) \in BOOLEAN
      OBVIOUS
    <3> QED BY <2>1, <3>1, DecideGoto
  <2>3. SetStatus(rec[w], "failed") \/ status' = status
    BY <1>4 DEF MarkStale
  <2>4. status' \in [Records -> Status] /\ \A j \in Records : status'[j] = "none" <=> j > last'
    BY <2>1, <2>3, SetStatusType DEF Status, TypeInv, TypeOK
  <2>5. faults' \in Nat
    BY <1>4 DEF MarkStale, Fault, TypeInv, TypeOK
  <2>6. l \in PC /\ rec' \in [Procs -> Records \cup {0}] /\ \A q \in Procs \ {w} : rec'[q] = rec[q]
    BY <2>1, <2>2, TypedRegisters DEF PC
  <2> QED
    BY <1>1, <2>1, <2>2, <2>4, <2>5, <2>6, Registers, TypedRegisters DEF configVars, TypeInv, TypeOK
<1>5. CASE CheckError(w)
  <2>1. /\ Goto(w, "idle") /\ conn' = [conn EXCEPT ![w] = NoConn]
        /\ UNCHANGED <<rowVars, objects, now, held, configVars, rec, todo, keep, removed>>
    BY <1>5 DEF CheckError
  <2>2. faults' \in Nat /\ conn' \in [Procs -> Conns \cup {NoConn}]
    <3>1. faults' \in Nat
      BY <1>5 DEF CheckError, Fault, TypeInv, TypeOK
    <3>2. conn' \in [Procs -> Conns \cup {NoConn}]
      BY <2>1 DEF TypeInv, TypeOK
    <3> QED BY <3>1, <3>2
  <2>3. last' = last /\ rec' = rec /\ todo' = todo /\ "idle" \in PC
    BY <2>1 DEF rowVars, PC
  <2>4. /\ pc' \in [Procs -> PC] /\ rec' \in [Procs -> Records \cup {0}]
        /\ todo' \in [Procs -> SUBSET Records]
        /\ \A q \in Procs : todo'[q] \subseteq 1..last'
        /\ \A q \in Runners : Own(q)' \/ pc'[q] \in {"fail", "stale"} => rec'[q] \in 1..last'
        /\ \A q \in Procs : pc'[q] = "row" => rec'[q] \in 1..last'
    BY <1>1, <2>1, <2>3, Registers, TypedRegisters
  <2> QED
    BY <2>1, <2>2, <2>4 DEF rowVars, configVars, TypeInv, TypeOK
<1>6. CASE InsertScheduled(w)
  <2>1. UNCHANGED <<objects, now, held, configVars, conn, todo, keep, removed>>
    BY <1>6 DEF InsertScheduled
  <2>2. faults' \in Nat
    BY <1>6 DEF InsertScheduled, Fault, TypeInv, TypeOK
  <2>3. CASE NewRow(w) /\ scheduled' = scheduled \cup {last + 1} /\ (Goto(w, "dump") \/ Goto(w, "fail"))
    <3>1. PICK l \in {"dump", "fail"} : Goto(w, l)
      BY <2>3
    <3>2. l \in PC
      BY DEF PC
    <3> QED BY <1>1, <2>1, <2>2, <2>3, <3>1, <3>2, NewRowType, Registers, TypedRegisters
         DEF configVars, TypeInv, TypeOK
  <2>4. CASE Goto(w, "unlock") /\ UNCHANGED <<status, slot, last, rec, scheduled>>
    <3>1. "unlock" \in PC
      BY DEF PC
    <3> QED BY <1>1, <2>1, <2>2, <2>4, <3>1, Registers, TypedRegisters DEF configVars, TypeInv, TypeOK
  <2> QED BY <1>6, <2>3, <2>4 DEF InsertScheduled
<1> QED BY <1>2, <1>3, <1>4, <1>5, <1>6 DEF WorkerStep

\* So do those of a trigger request.
LEMMA TriggerType ==
    ASSUME TypeInv, NEW t \in Triggers, TriggerStep(t)
    PROVE  TypeInv'
<1>1. t \in Runners /\ t \in Procs /\ t \notin Workers
  BY ConstantsAssumption DEF Runners, Procs
<1>2. CASE TriggerStale(t)
  <2>1. /\ Goto(t, "count")
        /\ status' = [i \in Records |-> IF status[i] = "stale" THEN "failed" ELSE status[i]]
        /\ UNCHANGED <<slot, scheduled, last, objects, now, held, configVars, procVars, removed, faults>>
    BY <1>2 DEF TriggerStale
  <2>2. status' \in [Records -> Status] /\ \A j \in Records : status'[j] = "none" <=> j > last'
    BY <2>1 DEF TypeInv, TypeOK, Status
  <2>3. rec' = rec /\ todo' = todo /\ conn' = conn /\ keep' = keep /\ "count" \in PC
    BY <2>1 DEF procVars, PC
  <2> QED BY <1>1, <2>1, <2>2, <2>3, Registers, TypedRegisters DEF configVars, TypeInv, TypeOK
<1>3. CASE TriggerCount(t)
  <2>1. /\ Goto(t, "end") \/ Goto(t, "insert")
        /\ UNCHANGED <<rowVars, objects, now, held, configVars, procVars, removed, faults>>
    BY <1>3 DEF TriggerCount
  <2>2. PICK l \in {"end", "insert"} : Goto(t, l)
    BY <2>1
  <2>3. last' = last /\ rec' = rec /\ todo' = todo /\ conn' = conn /\ keep' = keep /\ l \in PC
    BY <2>1 DEF rowVars, procVars, PC
  <2> QED BY <1>1, <2>1, <2>2, <2>3, Registers, TypedRegisters DEF rowVars, configVars, TypeInv, TypeOK
<1>4. CASE TriggerInsert(t)
  <2>1. UNCHANGED <<scheduled, objects, now, held, configVars, conn, todo, keep, removed, faults>>
    BY <1>4 DEF TriggerInsert
  <2>2. CASE NewRow(t) /\ Goto(t, "lock")
    <3>1. "lock" \in PC
      BY DEF PC
    <3> QED BY <1>1, <2>1, <2>2, <3>1, NewRowType, Registers, TypedRegisters DEF configVars, TypeInv, TypeOK
  <2>3. CASE Goto(t, "end") /\ UNCHANGED <<status, slot, last, rec>>
    <3>1. "end" \in PC
      BY DEF PC
    <3> QED BY <1>1, <2>1, <2>3, <3>1, Registers, TypedRegisters DEF configVars, TypeInv, TypeOK
  <2> QED BY <1>4, <2>2, <2>3 DEF TriggerInsert
<1> QED BY <1>2, <1>3, <1>4 DEF TriggerStep

\* Where Unlock leads.
LEMMA UnlockGoto ==
    ASSUME NEW p, Unlock(p)
    PROVE  \E l \in {"list", "idle", "end"} : Goto(p, l)
<1>1. Goto(p, CASE pc[p] = "release" -> "list"
                [] p \in Workers /\ pc[p] = "unlock" -> "idle"
                [] OTHER -> "end")
  BY DEF Unlock
<1>2. CASE pc[p] = "release"
  <2>1. ~(p \in Workers /\ pc[p] = "unlock")
    BY <1>2
  <2> QED BY <1>1, <1>2, <2>1, Zenon
<1>3. CASE pc[p] # "release" /\ p \in Workers /\ pc[p] = "unlock"
  BY <1>1, <1>3, Zenon
<1>4. CASE pc[p] # "release" /\ ~(p \in Workers /\ pc[p] = "unlock")
  BY <1>1, <1>4, Zenon
<1> QED BY <1>2, <1>3, <1>4

\* Where a process goes when its deletes are done or one of them failed.
LEMMA CleanedGoto ==
    ASSUME NEW p \in Procs
    PROVE  Cleaned(p) \in {"idle", "unlock", "end", "config"}
           /\ Aborted(p) \in {"idle", "unlock", "end", "config"}
<1>1. p \in Workers \/ p \in Triggers \/ p \in Deletes \/ p \in ConfigDeletes
  BY DEF Procs, Runners, Admins
<1>2. Cleaned(p) \in {"idle", "unlock", "end", "config"}
  <2>1. CASE p \in Workers
    <3>1. p \notin Triggers /\ p \notin Deletes /\ p \notin ConfigDeletes
      BY <2>1, ConstantsAssumption DEF Runners, Admins
    <3> QED BY <2>1, <3>1, Zenon DEF Cleaned
  <2>2. CASE p \in Triggers
    <3>1. p \notin Workers /\ p \notin Deletes /\ p \notin ConfigDeletes
      BY <2>2, ConstantsAssumption DEF Runners, Admins
    <3> QED BY <2>2, <3>1, Zenon DEF Cleaned
  <2>3. CASE p \in Deletes
    <3>1. p \notin Workers /\ p \notin Triggers /\ p \notin ConfigDeletes
      BY <2>3, ConstantsAssumption DEF Runners, Admins
    <3> QED BY <2>3, <3>1, Zenon DEF Cleaned
  <2>4. CASE p \in ConfigDeletes
    <3>1. p \notin Workers /\ p \notin Triggers /\ p \notin Deletes
      BY <2>4, ConstantsAssumption DEF Runners, Admins
    <3> QED BY <2>4, <3>1, Zenon DEF Cleaned
  <2> QED BY <1>1, <2>1, <2>2, <2>3, <2>4
<1> QED BY <1>2 DEF Aborted

\* So do the lock, the dump and the marks; an unlock needs that the connection
\* has the lock.
LEMMA RunType ==
    ASSUME TypeInv, LockInv, NEW p \in Runners, RunStep(p)
    PROVE  TypeInv'
<1>1. p \in Procs
  BY DEF Procs
<1>2. CASE Lock(p)
  <2>1. UNCHANGED <<rowVars, objects, now, configVars, rec, todo, keep, removed>> /\ pc[p] = "lock"
    BY <1>2 DEF Lock
  <2>2. last' = last /\ rec' = rec /\ todo' = todo
    BY <2>1 DEF rowVars
  <2>3. faults' \in Nat
    BY <1>2 DEF Lock, Fault, TypeInv, TypeOK
  <2>4. held' \in [Conns -> Nat] /\ conn' \in [Procs -> Conns \cup {NoConn}]
    <3>1. CASE UNCHANGED <<held, conn>>
      BY <3>1 DEF TypeInv, TypeOK
    <3>2. CASE \E c \in Conns : held' = [held EXCEPT ![c] = @ + 1] /\ conn' = [conn EXCEPT ![p] = c]
      <4>1. PICK c \in Conns : held' = [held EXCEPT ![c] = @ + 1] /\ conn' = [conn EXCEPT ![p] = c]
        BY <3>2
      <4>2. held' \in [Conns -> Nat]
        BY <4>1 DEF TypeInv, TypeOK
      <4>3. conn' \in [Procs -> Conns \cup {NoConn}]
        BY <4>1 DEF TypeInv, TypeOK
      <4> QED BY <4>2, <4>3
    <3> QED BY <1>2, <3>1, <3>2 DEF Lock
  <2>5. \E l \in {"check", "dump", "idle", "fail"} : Goto(p, l) /\ (p \in Workers => l \in {"check", "idle"})
    BY <1>2 DEF Lock, Unlocked
  <2>6. PICK l \in {"check", "dump", "idle", "fail"} : Goto(p, l) /\ (p \in Workers => l \in {"check", "idle"})
    BY <2>5
  <2>7. l \in PC
    BY DEF PC
  <2>8. l \notin {"dump", "done", "fail", "stale", "lock", "row"} \/ rec'[p] \in 1..last'
    BY <2>1, <2>2, <2>6 DEF TypeInv, Own, Runners
  <2> QED
    BY <1>1, <2>1, <2>2, <2>3, <2>4, <2>6, <2>7, <2>8, Registers, TypedRegisters
    DEF rowVars, configVars, TypeInv, TypeOK
<1>3. CASE Unlock(p)
  <2>1. /\ UNCHANGED <<rowVars, objects, now, configVars, todo, keep, removed>>
        /\ rec' = [rec EXCEPT ![p] = 0] /\ conn' = [conn EXCEPT ![p] = NoConn]
    BY <1>3 DEF Unlock
  <2>2. PICK l \in {"list", "idle", "end"} : Goto(p, l)
    BY <1>3, UnlockGoto
  <2>3. faults' \in Nat
    BY <1>3 DEF Unlock, Fault, TypeInv, TypeOK
  <2>4. held' \in [Conns -> Nat]
    <3>1. \A c \in Conns : c = conn[p] => held[c] > 0
      BY <1>1, ConstantsAssumption DEF LockInv
    <3>2. \A c \in Conns : held[c] \in Nat /\ (c = conn[p] => held[c] - 1 \in Nat)
      BY <3>1 DEF TypeInv, TypeOK
    <3> QED BY <1>3, <3>2 DEF Unlock
  <2>5. conn' \in [Procs -> Conns \cup {NoConn}]
    BY <2>1 DEF TypeInv, TypeOK
  <2>6. /\ rec' \in [Procs -> Records \cup {0}] /\ \A q \in Procs \ {p} : rec'[q] = rec[q]
        /\ last' = last /\ todo' = todo /\ l \in PC
    BY <2>1, TypedRegisters DEF rowVars, PC
  <2> QED
    BY <1>1, <2>1, <2>2, <2>3, <2>4, <2>5, <2>6, Registers, TypedRegisters
    DEF rowVars, configVars, TypeInv, TypeOK
<1>4. CASE Dump(p)
  <2>1. UNCHANGED <<rowVars, now, held, configVars, procVars, removed>> /\ pc[p] = "dump"
    BY <1>4 DEF Dump
  <2>2. last' = last /\ rec' = rec /\ todo' = todo /\ conn' = conn /\ keep' = keep
    BY <2>1 DEF rowVars, procVars
  <2>3. rec[p] \in 1..last
    BY <2>1 DEF TypeInv, Own
  <2>4. faults' \in Nat
    BY <1>4 DEF Dump, Fault, TypeInv, TypeOK
  <2>5. objects' \subseteq 1..last /\ objects' \subseteq Records
    <3>1. objects' \subseteq objects \cup {rec[p]}
      BY <1>4 DEF Dump
    <3> QED BY <2>3, <3>1, ConstantsAssumption DEF TypeInv, TypeOK, Records
  <2>6. PICK l \in {"done", "fail"} : Goto(p, l)
    BY <1>4 DEF Dump
  <2>7. l \in PC
    BY DEF PC
  <2> QED
    BY <1>1, <2>1, <2>2, <2>3, <2>4, <2>5, <2>6, <2>7, Registers, TypedRegisters
    DEF rowVars, configVars, TypeInv, TypeOK
<1>5. CASE MarkCompleted(p) \/ MarkFailed(p)
  <2>1. UNCHANGED <<slot, scheduled, last, objects, now, held, configVars, procVars, removed>>
    BY <1>5 DEF MarkCompleted, MarkFailed
  <2>2. SetStatus(rec[p], "completed") \/ SetStatus(rec[p], "failed") \/ status' = status
    BY <1>5 DEF MarkCompleted, MarkFailed
  <2>3. status' \in [Records -> Status] /\ \A j \in Records : status'[j] = "none" <=> j > last'
    BY <2>1, <2>2, SetStatusType DEF Status, TypeInv, TypeOK
  <2>4. faults' \in Nat
    BY <1>5 DEF MarkCompleted, MarkFailed, Missed, Fault, TypeInv, TypeOK
  <2>5. PICK l \in {"release", "list", "unlock"} : Goto(p, l)
    BY <1>5 DEF MarkCompleted, MarkFailed
  <2>6. l \in PC /\ rec' = rec /\ todo' = todo /\ conn' = conn /\ keep' = keep
    BY <2>1 DEF PC, procVars
  <2> QED
    BY <1>1, <2>1, <2>3, <2>4, <2>5, <2>6, Registers, TypedRegisters DEF configVars, TypeInv, TypeOK
<1>6. CASE ListOld(p)
  <2>1. UNCHANGED <<rowVars, objects, now, held, configVars, rec, conn, removed>>
    BY <1>6 DEF ListOld
  <2>2. faults' \in Nat
    BY <1>6 DEF ListOld, Fault, TypeInv, TypeOK
  <2>3. keep' \in [Procs -> Nat \ {0}]
    BY <1>6, <1>1 DEF ListOld, TypeInv, TypeOK
  <2>4. todo' \in [Procs -> SUBSET (1..last)]
    <3>1. \A n : Beyond(n) \subseteq 1..last
      BY RowsHanded DEF Beyond, Completed, ConfigRows
    <3>2. todo' = todo \/ todo' = [todo EXCEPT ![p] = Beyond(keep'[p])]
      BY <1>6 DEF ListOld
    <3> QED BY <3>1, <3>2, TypedRegisters
  <2>5. \E l \in {"clean", "unlock", "idle", "end", "config"} : Goto(p, l)
    BY <1>6, <1>1, CleanedGoto DEF ListOld
  <2>6. PICK l \in {"clean", "unlock", "idle", "end", "config"} : Goto(p, l)
    BY <2>5
  <2>7. l \in PC /\ last' = last /\ rec' = rec
    BY <2>1 DEF PC, rowVars
  <2> QED
    BY <1>1, <2>1, <2>2, <2>3, <2>4, <2>6, <2>7, Registers, TypedRegisters
    DEF rowVars, configVars, TypeInv, TypeOK
<1> QED BY <1>2, <1>3, <1>4, <1>5, <1>6 DEF RunStep

\* So do the deletes, of the retention and of an admin.
LEMMA DeleteType ==
    ASSUME TypeInv, NEW p \in Procs, DeleteStep(p)
    PROVE  TypeInv'
<1>1. CASE DeleteFile(p)
  <2>1. UNCHANGED <<rowVars, now, held, configVars, conn, keep>>
    BY <1>1 DEF DeleteFile
  <2>2. PICK i \in todo[p] :
          /\ todo' = [todo EXCEPT ![p] = @ \ {i}]
          /\ \/ /\ objects' = objects \ {i}
                /\ rec' = [rec EXCEPT ![p] = i]
                /\ removed' = IF p \in Admins THEN removed \cup {i} ELSE removed
                /\ Goto(p, "row")
                /\ UNCHANGED faults
             \/ Fault /\ UNCHANGED <<objects, rec, removed, pc>>
    BY <1>1 DEF DeleteFile
  <2>3. i \in 1..last /\ i \in Records /\ last' = last
    BY <2>1, ConstantsAssumption DEF TypeInv, TypeOK, Records, rowVars
  <2>4. todo' \in [Procs -> SUBSET (1..last)]
    BY <2>2, TypedRegisters
  <2>5. CASE UNCHANGED <<objects, rec, removed, pc>> /\ Fault
    <3>1. todo' \in [Procs -> SUBSET Records] /\ \A q \in Procs : todo'[q] \subseteq 1..last
      BY <2>4, ConstantsAssumption DEF TypeInv, TypeOK, Records
    <3>2. faults' \in Nat
      BY <2>5 DEF Fault, TypeInv, TypeOK
    <3>3. \A q \in Procs : Own(q)' <=> Own(q)
      BY <2>5 DEF Own
    <3> QED BY <2>1, <2>3, <2>5, <3>1, <3>2, <3>3 DEF rowVars, configVars, TypeInv, TypeOK, Procs
  <2>6. CASE /\ objects' = objects \ {i} /\ rec' = [rec EXCEPT ![p] = i]
             /\ removed' = (IF p \in Admins THEN removed \cup {i} ELSE removed)
             /\ Goto(p, "row") /\ UNCHANGED faults
    <3>1. /\ rec' \in [Procs -> Records \cup {0}] /\ rec'[p] = i
          /\ \A q \in Procs \ {p} : rec'[q] = rec[q]
      BY <2>3, <2>6, TypedRegisters
    <3>2. "row" \in PC /\ removed' \in SUBSET Records /\ objects' \in SUBSET Records
      BY <2>3, <2>6 DEF PC, TypeInv, TypeOK
    <3>3. objects' \subseteq 1..last /\ rec'[p] \in 1..last'
      BY <2>3, <2>6, <3>1 DEF TypeInv
    <3> QED
      BY <2>1, <2>3, <2>4, <2>6, <3>1, <3>2, <3>3, Registers, TypedRegisters
      DEF rowVars, configVars, TypeInv, TypeOK
  <2> QED BY <2>2, <2>5, <2>6
<1>2. CASE DeleteRow(p)
  <2>1. /\ rec' = [rec EXCEPT ![p] = 0]
        /\ UNCHANGED <<slot, scheduled, last, objects, now, held, configVars, conn, keep, removed>>
    BY <1>2 DEF DeleteRow
  <2>2. SetStatus(rec[p], "deleted") \/ status' = status
    BY <1>2 DEF DeleteRow
  <2>3. status' \in [Records -> Status] /\ \A j \in Records : status'[j] = "none" <=> j > last'
    BY <2>1, <2>2, SetStatusType DEF Status, TypeInv, TypeOK
  <2>4. faults' \in Nat
    BY <1>2 DEF DeleteRow, Missed, Fault, TypeInv, TypeOK
  <2>5. todo' \in [Procs -> SUBSET (1..last)]
    BY <1>2, TypedRegisters DEF DeleteRow
  <2>6. PICK l \in {"clean", "unlock", "idle", "end", "config"} : Goto(p, l)
    BY <1>2, CleanedGoto DEF DeleteRow
  <2>7. l \in PC /\ rec' \in [Procs -> Records \cup {0}] /\ \A q \in Procs \ {p} : rec'[q] = rec[q]
    BY <2>1, TypedRegisters DEF PC
  <2> QED
    BY <2>1, <2>3, <2>4, <2>5, <2>6, <2>7, Registers, TypedRegisters DEF configVars, TypeInv, TypeOK
<1>3. CASE DeletesDone(p)
  <2>1. /\ Goto(p, Cleaned(p))
        /\ UNCHANGED <<rowVars, objects, now, held, configVars, procVars, removed, faults>>
    BY <1>3 DEF DeletesDone
  <2>2. PICK l \in {"unlock", "idle", "end", "config"} : Goto(p, l)
    BY <2>1, CleanedGoto
  <2>3. l \in PC /\ last' = last /\ rec' = rec /\ todo' = todo /\ conn' = conn /\ keep' = keep
    BY <2>1 DEF PC, rowVars, procVars
  <2> QED
    BY <2>1, <2>2, <2>3, Registers, TypedRegisters DEF rowVars, configVars, TypeInv, TypeOK
<1> QED BY <1>1, <1>2, <1>3 DEF DeleteStep

\* The requests and edits of an admin, time, the pool and a restart.
Other ==
    \/ \E p \in Admins : AdminRequest(p)
    \/ \E p \in ConfigDeletes : DeleteConfig(p)
    \/ UpdateConfig \/ Tick
    \/ \E i \in Records : Expire(i)
    \/ \E c \in Conns : CloseConn(c)

\* They keep the types too.
LEMMA OtherType ==
    ASSUME TypeInv, Other
    PROVE  TypeInv'
<1>1. ASSUME NEW p \in Admins, AdminRequest(p) PROVE TypeInv'
  <2>1. /\ Goto(p, "clean") /\ p \in Procs /\ "clean" \in PC
        /\ UNCHANGED <<rowVars, objects, now, held, configVars, rec, conn, keep, removed, faults>>
    BY <1>1 DEF AdminRequest, Procs, PC
  <2>2. PICK S \in SUBSET Rows : todo' = [todo EXCEPT ![p] = S]
    BY <1>1 DEF AdminRequest, ConfigRows
  <2>3. todo' \in [Procs -> SUBSET (1..last)] /\ last' = last /\ rec' = rec
    BY <2>1, <2>2, RowsHanded, TypedRegisters DEF rowVars
  <2> QED BY <2>1, <2>3, Registers, TypedRegisters DEF rowVars, configVars, TypeInv, TypeOK
<1>2. ASSUME NEW p \in ConfigDeletes, DeleteConfig(p) PROVE TypeInv'
  <2>1. /\ Goto(p, "end") /\ p \in Procs /\ "end" \in PC /\ config' = "deleted"
        /\ UNCHANGED <<rowVars, objects, now, held, retention, edits, procVars, removed, faults>>
    BY <1>2 DEF DeleteConfig, Procs, Admins, PC
  <2>2. last' = last /\ rec' = rec /\ todo' = todo /\ conn' = conn /\ keep' = keep
    BY <2>1 DEF rowVars, procVars
  <2> QED BY <2>1, <2>2, Registers, TypedRegisters DEF rowVars, TypeInv, TypeOK
<1>3. CASE UpdateConfig
  <2>1. /\ UNCHANGED <<rowVars, objects, now, held, pc, procVars, removed, faults>>
        /\ config' \in {"enabled", "disabled"} /\ retention' \in 1..MaxRetention /\ edits' = edits + 1
    BY <1>3 DEF UpdateConfig
  <2>2. retention' \in Nat \ {0} /\ edits' \in Nat
    BY <2>1, ConstantsAssumption DEF TypeInv, TypeOK
  <2>3. \A q \in Procs : Own(q)' <=> Own(q)
    BY <2>1 DEF Own
  <2> QED BY <2>1, <2>2, <2>3 DEF rowVars, procVars, TypeInv, TypeOK, Procs
<1>4. CASE Tick
  <2>1. /\ UNCHANGED <<rowVars, objects, held, configVars, pc, procVars, removed, faults>>
        /\ now' = now + 1
    BY <1>4 DEF Tick
  <2>2. \A q \in Procs : Own(q)' <=> Own(q)
    BY <2>1 DEF Own
  <2> QED BY <2>1, <2>2 DEF rowVars, configVars, procVars, TypeInv, TypeOK, Procs
<1>5. ASSUME NEW i \in Records, Expire(i) PROVE TypeInv'
  <2>1. /\ SetStatus(i, "stale")
        /\ UNCHANGED <<slot, scheduled, last, objects, now, held, configVars, pc, procVars, removed, faults>>
    BY <1>5 DEF Expire
  <2>2. status' \in [Records -> Status] /\ \A j \in Records : status'[j] = "none" <=> j > last'
    BY <2>1, SetStatusType DEF Status
  <2>3. \A q \in Procs : Own(q)' <=> Own(q)
    BY <2>1 DEF Own
  <2> QED BY <2>1, <2>2, <2>3 DEF configVars, procVars, TypeInv, TypeOK, Procs
<1>6. ASSUME NEW c \in Conns, CloseConn(c) PROVE TypeInv'
  <2>1. /\ held' = [held EXCEPT ![c] = 0]
        /\ UNCHANGED <<rowVars, objects, now, configVars, pc, procVars, removed, faults>>
    BY <1>6 DEF CloseConn
  <2>2. held' \in [Conns -> Nat]
    BY <2>1 DEF TypeInv, TypeOK
  <2>3. \A q \in Procs : Own(q)' <=> Own(q)
    BY <2>1 DEF Own
  <2> QED BY <2>1, <2>2, <2>3 DEF rowVars, configVars, procVars, TypeInv, TypeOK, Procs
<1> QED BY <1>1, <1>2, <1>3, <1>4, <1>5, <1>6 DEF Other

\* After a restart every process of the replica is idle, gone, or has not begun.
LEMMA RestartGoto ==
    ASSUME TypeInv, NEW w \in Workers, Restart(w), NEW p \in Procs
    PROVE  \/ Home[p] = w /\ pc'[p] \in {"idle", "end", "request"}
           \/ Home[p] # w /\ pc'[p] = pc[p]
<1>1. pc'[p] = CASE p = w -> "idle"
                 [] p # w /\ Home[p] = w /\ pc[p] # "request" -> "end"
                 [] OTHER -> pc[p]
  BY Zenon DEF Restart
<1>2. CASE p = w
  <2>1. ~(p # w /\ Home[p] = w /\ pc[p] # "request") /\ Home[p] = w
    BY <1>2, ConstantsAssumption
  <2> QED BY <1>1, <1>2, <2>1, Zenon
<1>3. CASE p # w /\ Home[p] = w /\ pc[p] # "request"
  BY <1>1, <1>3, Zenon
<1>4. CASE p # w /\ ~(p # w /\ Home[p] = w /\ pc[p] # "request")
  <2>1. pc'[p] = pc[p]
    BY <1>1, <1>4, Zenon
  <2> QED BY <1>4, <2>1
<1> QED BY <1>2, <1>3, <1>4

\* A restart keeps the types.
LEMMA RestartType ==
    ASSUME TypeInv, NEW w \in Workers, Restart(w)
    PROVE  TypeInv'
<1>1. /\ conn' = [p \in Procs |-> IF Home[p] = w THEN NoConn ELSE conn[p]]
      /\ todo' = [p \in Procs |-> IF Home[p] = w THEN {} ELSE todo[p]]
      /\ rec' = [p \in Procs |-> IF Home[p] = w THEN 0 ELSE rec[p]]
      /\ held' = [c \in Conns |-> IF PoolOf[c] = w THEN 0 ELSE held[c]]
      /\ UNCHANGED <<rowVars, objects, now, configVars, keep, removed>>
  BY DEF Restart
<1>2. faults' \in Nat
  BY DEF Restart, Fault, TypeInv, TypeOK
<1>3. held' \in [Conns -> Nat]
  BY <1>1 DEF TypeInv, TypeOK
<1>4. conn' \in [Procs -> Conns \cup {NoConn}]
  BY <1>1 DEF TypeInv, TypeOK
<1>5. rec' \in [Procs -> Records \cup {0}]
  BY <1>1 DEF TypeInv, TypeOK
<1>6. todo' \in [Procs -> SUBSET Records] /\ \A q \in Procs : todo'[q] \subseteq 1..last
  BY <1>1 DEF TypeInv, TypeOK
<1>7. pc' \in [Procs -> PC]
  <2>1. pc' = [p \in Procs |-> pc'[p]]
    BY Zenon DEF Restart
  <2>2. \A p \in Procs : pc'[p] \in PC
    BY RestartGoto DEF TypeInv, TypeOK, PC
  <2> QED BY <2>1, <2>2
<1>8. last' = last /\ Runners \subseteq Procs
  BY <1>1 DEF rowVars, Procs
<1>9. \A q \in Runners : Own(q)' \/ pc'[q] \in {"fail", "stale"} => rec'[q] \in 1..last'
  <2> TAKE q \in Runners
  <2>1. CASE Home[q] = w
    BY <2>1, <1>8, RestartGoto DEF Own
  <2>2. CASE Home[q] # w
    <3>1. pc'[q] = pc[q] /\ rec'[q] = rec[q] /\ (Own(q)' <=> Own(q))
      BY <2>2, <1>1, <1>8, RestartGoto DEF Own
    <3> QED BY <3>1, <1>8 DEF TypeInv
  <2> QED BY <2>1, <2>2
<1>10. \A q \in Procs : pc'[q] = "row" => rec'[q] \in 1..last'
  <2> TAKE q \in Procs
  <2>1. CASE Home[q] = w
    BY <2>1, RestartGoto
  <2>2. CASE Home[q] # w
    BY <2>2, <1>1, <1>8, RestartGoto DEF TypeInv
  <2> QED BY <2>1, <2>2
<1> QED
  BY <1>1, <1>2, <1>3, <1>4, <1>5, <1>6, <1>7, <1>8, <1>9, <1>10 DEF rowVars, configVars, TypeInv, TypeOK

\* The actions of Next by their groups.
LEMMA NextCases ==
    Next => \/ \E w \in Workers : WorkerStep(w)
            \/ \E w \in Workers : Restart(w)
            \/ \E t \in Triggers : TriggerStep(t)
            \/ \E p \in Runners : RunStep(p)
            \/ \E p \in Procs : DeleteStep(p)
            \/ Other
BY DEF Next, Other

\* Every step keeps the types and the ranges of the row ids.
LEMMA TypeStep ==
    ASSUME TypeInv, LockInv, [Next]_vars
    PROVE  TypeInv'
<1>1. CASE UNCHANGED vars
  <2>1. \A q \in Procs : Own(q)' <=> Own(q)
    BY <1>1 DEF vars, Own
  <2> QED BY <1>1, <2>1 DEF vars, rowVars, configVars, procVars, TypeInv, TypeOK, Procs
<1>2. CASE Next
  BY <1>2, NextCases, WorkerType, RestartType, TriggerType, RunType, DeleteType, OtherType
<1> QED BY <1>1, <1>2

-----------------------------------------------------------------------------
(* The advisory lock                                                       *)

\* A step that leaves locks and connections alone, and takes p only where its
\* connection lets it.
LEMMA LockFrame ==
    ASSUME TypeInv, LockInv, UNCHANGED <<held, conn>>, NEW p \in Procs, NEW l, Goto(p, l),
           l = "dump" \/ (l = "insert" /\ p \in Workers) => conn[p] # NoConn
    PROVE  LockInv'
<1>1. pc \in [Procs -> PC] /\ pc' = [pc EXCEPT ![p] = l]
  BY DEF Goto, TypeInv, TypeOK
<1>2. \A q \in Procs : Guarded(q)' => conn[q] # NoConn
  BY <1>1 DEF Guarded, LockInv
<1> QED BY <1>2 DEF LockInv

\* A step that leaves the program counters alone as well.
LEMMA LockStill ==
    ASSUME LockInv, UNCHANGED <<held, conn, pc>>
    PROVE  LockInv'
BY DEF LockInv, Guarded

\* A step that gives p's connection back and perhaps its lock.
LEMMA LockDrop ==
    ASSUME TypeInv, LockInv, NEW p \in Procs, NEW l, Goto(p, l), l \notin {"dump", "insert"},
           conn' = [conn EXCEPT ![p] = NoConn],
           \A c \in Conns : held'[c] > 0 => held[c] > 0,
           \A c \in Conns : c # conn[p] => held'[c] = held[c]
    PROVE  LockInv'
<1>1. /\ pc \in [Procs -> PC] /\ pc' = [pc EXCEPT ![p] = l]
      /\ conn \in [Procs -> Conns \cup {NoConn}]
  BY DEF Goto, TypeInv, TypeOK
<1>2. \A q \in Procs : conn'[q] # NoConn => q # p /\ conn'[q] = conn[q] /\ conn[q] \in Conns
  BY <1>1
<1>3. \A q \in Procs : conn'[q] # NoConn => held'[conn'[q]] > 0 /\ PoolOf[conn'[q]] = Home[q]
  <2> SUFFICES ASSUME NEW q \in Procs, conn'[q] # NoConn
               PROVE  held'[conn'[q]] > 0 /\ PoolOf[conn'[q]] = Home[q]
    OBVIOUS
  <2>1. conn[q] # conn[p]
    BY <1>2 DEF LockInv
  <2> QED BY <1>2, <2>1 DEF LockInv
<1>4. \A q, r \in Procs : conn'[q] # NoConn /\ conn'[q] = conn'[r] => q = r
  BY <1>2 DEF LockInv
<1>5. \A q \in Procs : Guarded(q)' => conn'[q] # NoConn
  BY <1>1 DEF Guarded, LockInv
<1>6. \A c, d \in Conns : held'[c] > 0 /\ held'[d] > 0 => c = d
  BY DEF LockInv
<1> QED BY <1>3, <1>4, <1>5, <1>6 DEF LockInv

\* Taking the lock.
LEMMA LockTake ==
    ASSUME TypeInv, LockInv, NEW p \in Runners, Lock(p)
    PROVE  LockInv'
<1>1. p \in Procs
  BY DEF Procs
<1>2. CASE UNCHANGED <<held, conn>> /\ Goto(p, Unlocked(p))
  <2>1. Unlocked(p) \in {"idle", "fail"}
    BY DEF Unlocked
  <2> QED BY <1>1, <1>2, <2>1, LockFrame
<1>3. ASSUME NEW c \in Conns, PoolOf[c] = Home[p], Idle(c), \A d \in Conns \ {c} : held[d] = 0,
             held' = [held EXCEPT ![c] = @ + 1], conn' = [conn EXCEPT ![p] = c],
             Goto(p, IF p \in Workers THEN "check" ELSE "dump")
      PROVE  LockInv'
  <2>1. /\ pc \in [Procs -> PC] /\ conn \in [Procs -> Conns \cup {NoConn}]
        /\ held \in [Conns -> Nat]
        /\ pc' = [pc EXCEPT ![p] = IF p \in Workers THEN "check" ELSE "dump"]
    BY <1>3 DEF Goto, TypeInv, TypeOK
  <2>2. /\ held'[c] > 0 /\ \A d \in Conns : held'[d] > 0 => d = c
        /\ conn'[p] = c /\ c # NoConn
    BY <1>1, <1>3, <2>1, ConstantsAssumption
  <2>3. \A q \in Procs \ {p} : conn'[q] = NoConn
    <3> SUFFICES ASSUME NEW q \in Procs \ {p}, conn'[q] # NoConn PROVE FALSE
      OBVIOUS
    <3>1. conn[q] = conn'[q] /\ conn[q] \in Conns /\ conn[q] # c
      BY <1>3, <2>1 DEF Idle
    <3>2. held[conn[q]] > 0 /\ held[conn[q]] = 0
      BY <1>3, <3>1, <2>1 DEF LockInv
    <3> QED BY <3>2
  <2>4. \A q \in Procs : Guarded(q)' => conn'[q] # NoConn
    <3> SUFFICES ASSUME NEW q \in Procs, Guarded(q)' PROVE conn'[q] # NoConn
      OBVIOUS
    <3>1. CASE q = p
      BY <3>1, <2>2
    <3>2. CASE q # p
      BY <3>2, <1>3, <2>1 DEF Guarded, LockInv
    <3> QED BY <3>1, <3>2
  <2> QED BY <1>1, <1>3, <2>2, <2>3, <2>4 DEF LockInv
<1> QED BY <1>2, <1>3 DEF Lock

\* The lock invariant is kept.
LEMMA LockStep ==
    ASSUME TypeInv, LockInv, [Next]_vars
    PROVE  LockInv'
<1>1. CASE UNCHANGED vars
  BY <1>1, LockStill DEF vars, procVars
<1>2. ASSUME NEW w \in Workers, WorkerStep(w) PROVE LockInv'
  <2>1. w \in Procs /\ w \in Runners
    BY DEF Procs, Runners
  <2>2. CASE Scan(w)
    BY <2>1, <2>2, LockFrame DEF Scan
  <2>3. CASE CheckDue(w) \/ MarkStale(w)
    <3>1. UNCHANGED <<held, conn>>
      BY <2>3 DEF CheckDue, MarkStale
    <3>2. CASE \E due \in BOOLEAN : Decide(w, due)
      <4>1. PICK due \in BOOLEAN : Decide(w, due)
        BY <3>2
      <4>2. PICK l \in {"lock", "idle", "insert", "unlock"} :
              Goto(w, l) /\ (conn[w] = NoConn => l \in {"lock", "idle"})
        BY <4>1, DecideGoto
      <4> QED BY <2>1, <3>1, <4>2, LockFrame
    <3>3. CASE Goto(w, "stale")
      BY <2>1, <3>1, <3>3, LockFrame
    <3>4. /\ (now > 0) \in BOOLEAN /\ (now > slot[Latest]) \in BOOLEAN
          /\ (now > slot[rec[w]]) \in BOOLEAN
      OBVIOUS
    <3> QED BY <2>3, <3>2, <3>3, <3>4 DEF CheckDue, MarkStale
  <2>4. CASE CheckError(w)
    BY <2>1, <2>4, LockDrop DEF CheckError
  <2>5. CASE InsertScheduled(w)
    <3>1. conn[w] # NoConn /\ UNCHANGED <<held, conn>>
      BY <2>1, <2>5 DEF InsertScheduled, LockInv, Guarded
    <3>2. PICK l \in {"dump", "fail", "unlock"} : Goto(w, l)
      BY <2>5 DEF InsertScheduled
    <3> QED BY <2>1, <3>1, <3>2, LockFrame
  <2> QED BY <1>2, <2>2, <2>3, <2>4, <2>5 DEF WorkerStep
<1>3. ASSUME NEW t \in Triggers, TriggerStep(t) PROVE LockInv'
  <2>1. t \in Procs /\ t \notin Workers /\ UNCHANGED <<held, conn>>
    BY <1>3, ConstantsAssumption
    DEF Procs, Runners, TriggerStep, TriggerStale, TriggerCount, TriggerInsert, procVars
  <2>2. PICK l \in {"count", "end", "insert", "lock"} : Goto(t, l)
    BY <1>3 DEF TriggerStep, TriggerStale, TriggerCount, TriggerInsert
  <2> QED BY <2>1, <2>2, LockFrame
<1>4. ASSUME NEW p \in Runners, RunStep(p) PROVE LockInv'
  <2>1. p \in Procs
    BY DEF Procs
  <2>2. CASE Unlock(p)
    <3>1. PICK l \in {"list", "idle", "end"} : Goto(p, l)
      BY <2>2, UnlockGoto
    <3>2. \A c \in Conns : held[c] \in Nat
      BY DEF TypeInv, TypeOK
    <3>3. /\ \A c \in Conns : held'[c] > 0 => held[c] > 0
          /\ \A c \in Conns : c # conn[p] => held'[c] = held[c]
      BY <2>2, <3>2 DEF Unlock
    <3>4. conn' = [conn EXCEPT ![p] = NoConn]
      BY <2>2 DEF Unlock
    <3> QED BY <2>1, <3>1, <3>3, <3>4, LockDrop
  <2>3. CASE Dump(p) \/ MarkCompleted(p) \/ MarkFailed(p)
    <3>1. PICK l \in {"done", "fail", "release", "list", "unlock"} : Goto(p, l)
      BY <2>3 DEF Dump, MarkCompleted, MarkFailed
    <3>2. UNCHANGED <<held, conn>>
      BY <2>3 DEF Dump, MarkCompleted, MarkFailed, procVars
    <3> QED BY <2>1, <3>1, <3>2, LockFrame
  <2>4. CASE ListOld(p)
    <3>1. \E l \in {"clean", "unlock", "idle", "end", "config"} : Goto(p, l)
      BY <2>1, <2>4, CleanedGoto DEF ListOld
    <3>2. PICK l \in {"clean", "unlock", "idle", "end", "config"} : Goto(p, l)
      BY <3>1
    <3>3. UNCHANGED <<held, conn>>
      BY <2>4 DEF ListOld
    <3> QED BY <2>1, <3>2, <3>3, LockFrame
  <2> QED BY <1>4, <2>2, <2>3, <2>4, LockTake DEF RunStep
<1>5. ASSUME NEW p \in Procs, DeleteStep(p) PROVE LockInv'
  <2>1. UNCHANGED <<held, conn>>
    BY <1>5 DEF DeleteStep, DeleteFile, DeleteRow, DeletesDone, procVars
  <2>2. pc' = pc \/ \E l \in {"row", "clean", "unlock", "idle", "end", "config"} : Goto(p, l)
    BY <1>5, CleanedGoto DEF DeleteStep, DeleteFile, DeleteRow, DeletesDone
  <2> QED BY <2>1, <2>2, LockFrame, LockStill
<1>6. CASE Other
  <2>1. ASSUME NEW p \in Admins, AdminRequest(p) PROVE LockInv'
    BY <2>1, LockFrame DEF AdminRequest, Procs
  <2>2. ASSUME NEW p \in ConfigDeletes, DeleteConfig(p) PROVE LockInv'
    BY <2>2, LockFrame DEF DeleteConfig, Procs, Admins, procVars
  <2>3. CASE UpdateConfig \/ Tick \/ \E i \in Records : Expire(i)
    BY <2>3, LockStill DEF UpdateConfig, Tick, Expire, procVars
  <2>4. ASSUME NEW c \in Conns, CloseConn(c) PROVE LockInv'
    <3>1. /\ Idle(c) /\ held' = [held EXCEPT ![c] = 0] /\ UNCHANGED <<pc, conn>>
          /\ held \in [Conns -> Nat] /\ conn \in [Procs -> Conns \cup {NoConn}]
      BY <2>4 DEF CloseConn, procVars, TypeInv, TypeOK
    <3>2. \A q \in Procs : Guarded(q)' <=> Guarded(q)
      BY <3>1 DEF Guarded
    <3> QED BY <3>1, <3>2 DEF LockInv, Idle
  <2> QED BY <1>6, <2>1, <2>2, <2>3, <2>4 DEF Other
<1>7. ASSUME NEW w \in Workers, Restart(w) PROVE LockInv'
  <2>1. /\ conn' = [p \in Procs |-> IF Home[p] = w THEN NoConn ELSE conn[p]]
        /\ held' = [c \in Conns |-> IF PoolOf[c] = w THEN 0 ELSE held[c]]
        /\ conn \in [Procs -> Conns \cup {NoConn}]
    BY <1>7 DEF Restart, TypeInv, TypeOK
  <2>2. \A q \in Procs : conn'[q] # NoConn => conn'[q] = conn[q] /\ conn[q] \in Conns /\ Home[q] # w
    BY <2>1
  <2>3. \A q \in Procs : conn'[q] # NoConn => held'[conn'[q]] > 0 /\ PoolOf[conn'[q]] = Home[q]
    BY <2>1, <2>2 DEF LockInv
  <2>4. \A q, r \in Procs : conn'[q] # NoConn /\ conn'[q] = conn'[r] => q = r
    BY <2>2 DEF LockInv
  <2>5. \A q \in Procs : Guarded(q)' => conn'[q] # NoConn
    BY <1>7, <2>1, RestartGoto DEF Guarded, LockInv
  <2>6. \A c, d \in Conns : held'[c] > 0 /\ held'[d] > 0 => c = d
    BY <2>1 DEF LockInv
  <2> QED BY <2>3, <2>4, <2>5, <2>6 DEF LockInv
<1> QED BY <1>1, <1>2, <1>3, <1>4, <1>5, <1>6, <1>7, NextCases

\* A new config, its rows and locks.
LEMMA InitLock == Init => TypeInv /\ LockInv
<1> SUFFICES ASSUME Init PROVE TypeInv /\ LockInv
  OBVIOUS
<1>1. pc \in [Procs -> PC] /\ \A p \in Procs : pc[p] \in {"idle", "request"}
  BY DEF Init, PC
<1>2. TypeOK
  <2>1. /\ status \in [Records -> Status] /\ \A i \in Records : status[i] = "none" <=> i > last
        /\ slot \in [Records -> Nat] /\ last \in Records \cup {0}
    BY DEF Init, Status, Records
  <2>2. held \in [Conns -> Nat] /\ conn \in [Procs -> Conns \cup {NoConn}]
    BY DEF Init
  <2>3. rec \in [Procs -> Records \cup {0}] /\ todo \in [Procs -> SUBSET Records]
    BY DEF Init
  <2>4. keep \in [Procs -> Nat \ {0}] /\ retention \in Nat \ {0}
    BY ConstantsAssumption DEF Init
  <2> QED BY <1>1, <2>1, <2>2, <2>3, <2>4 DEF Init, TypeOK
<1>3. TypeInv
  BY <1>1, <1>2 DEF TypeInv, Own, Init, Procs
<1>4. LockInv
  BY <1>1, <1>2 DEF LockInv, Guarded, Init
<1> QED BY <1>3, <1>4

\* Types and the lock, in every reachable state.
LEMMA LockAlways == Spec => [](TypeInv /\ LockInv)
<1>1. TypeInv /\ LockInv /\ [Next]_vars => (TypeInv /\ LockInv)'
  BY TypeStep, LockStep
<1> QED BY <1>1, InitLock, PTL DEF Spec

\* Columns and registers keep their types, retention_count stays positive and
\* rows are inserted one after the other.
THEOREM TypeCorrect == Spec => []TypeOK
<1>1. TypeInv => TypeOK
  BY DEF TypeInv
<1> QED BY <1>1, LockAlways, PTL

\* No two dumps of a config run at once, whatever locks leak from failed checks
\* and whichever connections the pools close: a dump has a connection with the
\* lock, and no two processes have one.
THEOREM OneDumpSafe == Spec => []OneDump
<1>1. TypeInv /\ LockInv => OneDump
  <2> SUFFICES ASSUME TypeInv, LockInv, NEW p \in Runners, NEW q \in Runners,
                      pc[p] = "dump", pc[q] = "dump"
               PROVE  p = q
    BY DEF OneDump
  <2>1. conn[p] # NoConn /\ conn[q] # NoConn /\ p \in Procs /\ q \in Procs
    BY DEF LockInv, Guarded, Procs
  <2>2. conn[p] \in Conns /\ conn[q] \in Conns
    BY <2>1 DEF TypeInv, TypeOK
  <2>3. conn[p] = conn[q]
    BY <2>1, <2>2 DEF LockInv
  <2> QED BY <2>1, <2>3 DEF LockInv
<1> QED BY <1>1, LockAlways, PTL

-----------------------------------------------------------------------------
(* The schedule                                                            *)

\* Slots grow with the row ids; a worker about to insert under the lock, or
\* about to decide on a stale row under it, knows that its slot is unused.
SlotInv ==
    /\ \A i, j \in 1..last : i <= j => slot[i] <= slot[j]
    /\ \A i \in 1..last : slot[i] <= now
    /\ \A w \in Workers :
         pc[w] = "insert" /\ config # "deleted" => \A i \in scheduled \cap Rows : slot[i] < now
    /\ \A w \in Workers :
         pc[w] = "stale" /\ conn[w] # NoConn /\ config # "deleted" =>
           \A i \in scheduled \cap Rows : slot[i] <= slot[rec[w]]
    /\ OncePerSlot

\* A step that inserts no row and gives no worker the right to insert one.
LEMMA SlotFrame ==
    ASSUME TypeInv, SlotInv, UNCHANGED <<slot, scheduled, last>>, now <= now', now' \in Nat,
           Rows' \subseteq Rows, config = "deleted" => config' = "deleted",
           \A w \in Workers : pc'[w] = "insert" => pc[w] = "insert",
           \A w \in Workers : pc'[w] = "stale" /\ conn'[w] # NoConn =>
             pc[w] = "stale" /\ conn[w] # NoConn /\ rec'[w] = rec[w]
    PROVE  SlotInv'
<1>1. now \in Nat /\ last \in Nat /\ \A i \in 1..last : slot[i] \in Nat
  BY ConstantsAssumption DEF TypeInv, TypeOK, Records
<1>2. \A i, j \in 1..last' : i <= j => slot'[i] <= slot'[j]
  BY DEF SlotInv
<1>3. \A i \in 1..last' : slot'[i] <= now'
  BY <1>1 DEF SlotInv
<1>4. scheduled' \cap Rows' \subseteq scheduled \cap Rows /\ scheduled \subseteq 1..last
  BY DEF TypeInv
<1>5. ASSUME NEW w \in Workers, pc'[w] = "insert", config' # "deleted", NEW i \in scheduled' \cap Rows'
      PROVE  slot'[i] < now'
  <2>1. slot[i] < now /\ slot[i] \in Nat
    BY <1>1, <1>4, <1>5 DEF SlotInv
  <2> QED BY <1>1, <2>1
<1>6. ASSUME NEW w \in Workers, pc'[w] = "stale", conn'[w] # NoConn, config' # "deleted",
             NEW i \in scheduled' \cap Rows'
      PROVE  slot'[i] <= slot'[rec'[w]]
  BY <1>4, <1>6 DEF SlotInv
<1>7. OncePerSlot'
  BY <1>4 DEF SlotInv, OncePerSlot
<1> QED BY <1>2, <1>3, <1>5, <1>6, <1>7 DEF SlotInv

\* Writing a status brings no row back.
LEMMA RowsShrink ==
    ASSUME TypeInv, NEW i, NEW s \in Status, SetStatus(i, s)
    PROVE  Rows' \subseteq Rows
<1>1. CASE i \in Rows
  BY <1>1 DEF SetStatus, Rows, TypeInv, TypeOK
<1>2. CASE i \notin Rows
  BY <1>2 DEF SetStatus, Rows
<1> QED BY <1>1, <1>2

\* Only one process has a connection with the lock.
LEMMA Exclusive ==
    ASSUME TypeInv, LockInv, NEW p \in Procs, NEW q \in Procs, conn[p] # NoConn, conn[q] # NoConn
    PROVE  p = q
<1>1. conn[p] \in Conns /\ conn[q] \in Conns
  BY DEF TypeInv, TypeOK
<1>2. conn[p] = conn[q]
  BY <1>1 DEF LockInv
<1> QED BY <1>2 DEF LockInv

\* A step of p that goes neither to an INSERT nor to a stale row.
LEMMA SlotGoto ==
    ASSUME TypeInv, SlotInv, UNCHANGED <<slot, scheduled, last>>, now' = now,
           Rows' \subseteq Rows, config = "deleted" => config' = "deleted",
           NEW p \in Procs, NEW l, Goto(p, l), p \in Workers => l \notin {"insert", "stale"},
           \A q \in Procs \ {p} : conn'[q] = conn[q] /\ rec'[q] = rec[q]
    PROVE  SlotInv'
<1>1. pc \in [Procs -> PC] /\ pc' = [pc EXCEPT ![p] = l] /\ Workers \subseteq Procs
  BY DEF Goto, TypeInv, TypeOK, Procs, Runners
<1>2. now \in Nat /\ now <= now'
  BY DEF TypeInv, TypeOK
<1>3. \A w \in Workers : pc'[w] \in {"insert", "stale"} => w # p /\ pc'[w] = pc[w]
  BY <1>1
<1> QED BY <1>1, <1>2, <1>3, SlotFrame

\* An INSERT, by whom ever, has the newest slot and changes no other.
LEMMA SlotNewRow ==
    ASSUME TypeInv, SlotInv, NEW p \in Procs, NewRow(p), now' = now
    PROVE  /\ \A i, j \in 1..last' : i <= j => slot'[i] <= slot'[j]
           /\ \A i \in 1..last' : slot'[i] <= now'
           /\ \A i \in 1..last : slot'[i] = slot[i]
           /\ slot'[last + 1] = now
           /\ Rows' = Rows \cup {last + 1} /\ last + 1 \notin Rows
<1>1. /\ last \in Nat /\ last + 1 \in Records /\ last' = last + 1 /\ now \in Nat
      /\ slot \in [Records -> Nat] /\ slot' = [slot EXCEPT ![last + 1] = now]
      /\ status \in [Records -> Status] /\ status' = [status EXCEPT ![last + 1] = "running"]
  BY ConstantsAssumption DEF NewRow, TypeInv, TypeOK, Records
<1>2. 1..last \subseteq Records /\ \A i \in 1..last : i # last + 1
  BY <1>1, ConstantsAssumption DEF Records
<1>3. /\ \A i \in 1..last : slot'[i] = slot[i] /\ slot'[i] <= now
      /\ slot'[last + 1] = now
  BY <1>1, <1>2 DEF SlotInv
<1>4. \A i \in 1..last' : slot'[i] <= now'
  BY <1>1, <1>3
<1>5. \A i, j \in 1..last' : i <= j => slot'[i] <= slot'[j]
  <2> SUFFICES ASSUME NEW i \in 1..last', NEW j \in 1..last', i <= j PROVE slot'[i] <= slot'[j]
    OBVIOUS
  <2>1. CASE j = last + 1
    BY <2>1, <1>1, <1>3, <1>4
  <2>2. CASE j # last + 1
    <3>1. i \in 1..last /\ j \in 1..last
      BY <2>2, <1>1
    <3> QED BY <3>1, <1>3 DEF SlotInv
  <2> QED BY <2>1, <2>2
<1>6. Rows' = Rows \cup {last + 1}
  BY <1>1 DEF Rows
<1>7. last + 1 \notin Rows
  BY <1>1, RowsHanded
<1> QED BY <1>3, <1>4, <1>5, <1>6, <1>7

\* The steps of the schedule.
LEMMA WorkerSlot ==
    ASSUME TypeInv, LockInv, SlotInv, NEW w \in Workers, WorkerStep(w)
    PROVE  SlotInv'
<1>1. w \in Procs /\ Workers \subseteq Procs /\ pc \in [Procs -> PC] /\ now \in Nat
  BY DEF Procs, Runners, TypeInv, TypeOK
<1>2. CASE Scan(w)
  <2>1. /\ UNCHANGED <<slot, scheduled, last, now, config, conn, rec, status>> /\ Goto(w, "check")
    BY <1>2 DEF Scan, rowVars, configVars
  <2>2. Rows' = Rows
    BY <2>1 DEF Rows
  <2> QED BY <1>1, <2>1, <2>2, SlotGoto
<1>3. CASE CheckDue(w)
  <2>1. UNCHANGED <<slot, scheduled, last, now, config, conn, status>> /\ pc[w] = "check"
    BY <1>3 DEF CheckDue, rowVars, configVars
  <2>2. Rows' = Rows
    BY <2>1 DEF Rows
  <2>3. ASSUME config # "deleted", ConfigRows # {}
        PROVE  Latest \in Rows /\ \A i \in scheduled \cap Rows : slot[i] <= slot[Latest]
    <3>1. ConfigRows = Rows /\ Latest \in Rows /\ \A j \in Rows : j <= Latest
      BY <2>3, LatestRow DEF ConfigRows
    <3> QED BY <3>1, RowsHanded DEF SlotInv
  <2>4. CASE Goto(w, "stale") /\ rec' = [rec EXCEPT ![w] = Latest] /\ ConfigRows # {}
    <3>1. /\ pc' = [pc EXCEPT ![w] = "stale"] /\ rec'[w] = Latest
          /\ \A q \in Procs \ {w} : rec'[q] = rec[q]
      BY <1>1, <2>4, TypedRegisters DEF Goto
    <3>2. \A v \in Workers : pc'[v] = "insert" => pc[v] = "insert"
      BY <1>1, <3>1
    <3>3. ASSUME NEW v \in Workers, pc'[v] = "stale", conn'[v] # NoConn, config' # "deleted",
                 NEW i \in scheduled' \cap Rows'
          PROVE  slot'[i] <= slot'[rec'[v]]
      <4>1. CASE v = w
        BY <4>1, <2>1, <2>2, <2>3, <2>4, <3>1, <3>3
      <4>2. CASE v # w
        BY <4>2, <1>1, <2>1, <2>2, <3>1, <3>3 DEF SlotInv
      <4> QED BY <4>1, <4>2
    <3>4. OncePerSlot'
      BY <2>1, <2>2 DEF SlotInv, OncePerSlot
    <3> QED BY <2>1, <2>2, <3>2, <3>3, <3>4 DEF SlotInv
  <2>5. ASSUME NEW due \in BOOLEAN, Decide(w, due), UNCHANGED rec,
               due /\ config # "deleted" => \A i \in scheduled \cap Rows : slot[i] < now
        PROVE  SlotInv'
    <3>1. PICK l \in {"lock", "idle", "insert", "unlock"} :
            Goto(w, l) /\ (l \in {"lock", "insert"} => due)
      BY <2>5, DecideGoto
    <3>2. pc' = [pc EXCEPT ![w] = l]
      BY <3>1 DEF Goto
    <3>3. ASSUME NEW v \in Workers, pc'[v] = "insert", config' # "deleted", NEW i \in scheduled' \cap Rows'
          PROVE  slot'[i] < now'
      <4>1. CASE v = w
        BY <4>1, <1>1, <2>1, <2>2, <2>5, <3>1, <3>2, <3>3
      <4>2. CASE v # w
        BY <4>2, <1>1, <2>1, <2>2, <3>2, <3>3 DEF SlotInv
      <4> QED BY <4>1, <4>2
    <3>4. \A v \in Workers : pc'[v] = "stale" => pc[v] = "stale"
      BY <1>1, <3>2
    <3>5. OncePerSlot'
      BY <2>1, <2>2 DEF SlotInv, OncePerSlot
    <3> QED BY <2>1, <2>2, <2>5, <3>3, <3>4, <3>5 DEF SlotInv
  <2>6. CASE ConfigRows = {} /\ Decide(w, now > 0) /\ UNCHANGED rec
    <3>1. config # "deleted" => Rows = {}
      BY <2>6 DEF ConfigRows
    <3>2. (now > 0) \in BOOLEAN
      OBVIOUS
    <3> QED BY <2>5, <2>6, <3>1, <3>2
  <2>7. CASE ConfigRows # {} /\ Decide(w, now > slot[Latest]) /\ UNCHANGED rec
    <3>1. ASSUME now > slot[Latest], config # "deleted", NEW i \in scheduled \cap Rows
          PROVE  slot[i] < now
      <4>1. slot[i] <= slot[Latest] /\ i \in Records /\ Latest \in Records
        BY <2>3, <2>7, <3>1 DEF Rows
      <4>2. slot[i] \in Nat /\ slot[Latest] \in Nat
        BY <4>1 DEF TypeInv, TypeOK
      <4> QED BY <1>1, <3>1, <4>1, <4>2
    <3>2. (now > slot[Latest]) \in BOOLEAN
      OBVIOUS
    <3> QED BY <2>5, <2>7, <3>1, <3>2
  <2>8. CASE Decide(w, FALSE) /\ UNCHANGED rec
    BY <2>5, <2>8
  <2> QED BY <1>3, <2>4, <2>6, <2>7, <2>8 DEF CheckDue
<1>4. CASE MarkStale(w)
  <2>1. /\ UNCHANGED <<slot, scheduled, last, now, config, conn>> /\ pc[w] = "stale"
        /\ Decide(w, now > slot[rec[w]]) /\ rec' = [rec EXCEPT ![w] = 0]
    BY <1>4 DEF MarkStale, configVars
  <2>2. Rows' \subseteq Rows
    <3>1. CASE SetStatus(rec[w], "failed")
      BY <3>1, RowsShrink DEF Status
    <3>2. CASE status' = status
      BY <3>2 DEF Rows
    <3> QED BY <1>4, <3>1, <3>2 DEF MarkStale
  <2>3. (now > slot[rec[w]]) \in BOOLEAN
    OBVIOUS
  <2>4. PICK l \in {"lock", "idle", "insert", "unlock"} :
          /\ Goto(w, l) /\ (conn[w] = NoConn => l \in {"lock", "idle"})
          /\ (l \in {"lock", "insert"} => now > slot[rec[w]])
    BY <2>1, <2>3, DecideGoto
  <2>5. /\ pc' = [pc EXCEPT ![w] = l] /\ \A q \in Procs \ {w} : rec'[q] = rec[q]
        /\ scheduled' \cap Rows' \subseteq scheduled \cap Rows
    BY <1>1, <2>1, <2>2, <2>4, TypedRegisters DEF Goto
  <2>6. ASSUME NEW v \in Workers, pc'[v] = "insert", config' # "deleted", NEW i \in scheduled' \cap Rows'
        PROVE  slot'[i] < now'
    <3>1. CASE v = w
      <4>1. l = "insert" /\ conn[w] # NoConn /\ now > slot[rec[w]]
        BY <3>1, <1>1, <2>4, <2>5, <2>6
      <4>2. slot[i] <= slot[rec[w]]
        BY <2>1, <2>5, <2>6, <4>1 DEF SlotInv
      <4>3. rec[w] \in Records /\ i \in Records
        BY <2>1, <2>5, ConstantsAssumption DEF TypeInv, TypeOK, Rows, Runners, Records
      <4>4. slot[i] \in Nat /\ slot[rec[w]] \in Nat
        BY <4>3 DEF TypeInv, TypeOK
      <4> QED BY <1>1, <2>1, <4>1, <4>2, <4>4
    <3>2. CASE v # w
      BY <3>2, <1>1, <2>1, <2>5, <2>6 DEF SlotInv
    <3> QED BY <3>1, <3>2
  <2>7. ASSUME NEW v \in Workers, pc'[v] = "stale", conn'[v] # NoConn, config' # "deleted",
               NEW i \in scheduled' \cap Rows'
        PROVE  slot'[i] <= slot'[rec'[v]]
    <3>1. v # w /\ pc[v] = "stale"
      BY <1>1, <2>4, <2>5, <2>7
    <3> QED BY <1>1, <2>1, <2>5, <2>7, <3>1 DEF SlotInv
  <2>8. OncePerSlot'
    BY <2>1, <2>5 DEF SlotInv, OncePerSlot
  <2> QED BY <2>1, <2>6, <2>7, <2>8 DEF SlotInv
<1>5. CASE CheckError(w)
  <2>1. /\ UNCHANGED <<slot, scheduled, last, now, config, rec, status>> /\ Goto(w, "idle")
        /\ \A q \in Procs \ {w} : conn'[q] = conn[q]
    BY <1>5 DEF CheckError, rowVars, configVars, TypeInv, TypeOK
  <2>2. Rows' = Rows
    BY <2>1 DEF Rows
  <2> QED BY <1>1, <2>1, <2>2, SlotGoto
<1>6. CASE InsertScheduled(w)
  <2>1. UNCHANGED <<now, config, conn>> /\ pc[w] = "insert" /\ conn[w] # NoConn
    BY <1>1, <1>6 DEF InsertScheduled, configVars, LockInv, Guarded
  <2>2. CASE Goto(w, "unlock") /\ UNCHANGED <<status, slot, last, rec, scheduled>>
    <3>1. Rows' = Rows
      BY <2>2 DEF Rows
    <3> QED BY <1>1, <2>1, <2>2, <3>1, SlotGoto
  <2>3. ASSUME NEW l \in {"dump", "fail"}, Goto(w, l), NewRow(w), scheduled' = scheduled \cup {last + 1}
        PROVE  SlotInv'
    <3>1. config # "deleted" /\ pc' = [pc EXCEPT ![w] = l]
      BY <2>3 DEF NewRow, Goto
    <3>2. \A i \in scheduled \cap Rows : slot[i] < now /\ i \in 1..last
      BY <2>1, <3>1 DEF SlotInv, TypeInv
    <3>3. /\ \A i, j \in 1..last' : i <= j => slot'[i] <= slot'[j]
          /\ \A i \in 1..last' : slot'[i] <= now'
          /\ \A i \in 1..last : slot'[i] = slot[i]
          /\ slot'[last + 1] = now /\ Rows' = Rows \cup {last + 1} /\ last + 1 \notin Rows
      BY <1>1, <2>1, <2>3, SlotNewRow
    <3>4. \A i \in scheduled' \cap Rows' : i = last + 1 \/ (i \in scheduled \cap Rows /\ slot'[i] = slot[i])
      BY <2>3, <3>2, <3>3 DEF TypeInv
    <3>5. \A i \in scheduled \cap Rows : slot[i] \in Nat
      BY DEF TypeInv, TypeOK, Rows
    <3>6. OncePerSlot'
      <4> SUFFICES ASSUME NEW i \in scheduled' \cap Rows', NEW j \in scheduled' \cap Rows', slot'[i] = slot'[j]
                   PROVE  i = j
        BY DEF OncePerSlot
      <4>1. CASE i = last + 1 /\ j = last + 1
        BY <4>1
      <4>2. CASE i = last + 1 /\ j # last + 1
        BY <4>2, <1>1, <3>2, <3>3, <3>4, <3>5
      <4>3. CASE i # last + 1 /\ j = last + 1
        BY <4>3, <1>1, <3>2, <3>3, <3>4, <3>5
      <4>4. CASE i # last + 1 /\ j # last + 1
        BY <4>4, <3>4 DEF SlotInv, OncePerSlot
      <4> QED BY <4>1, <4>2, <4>3, <4>4
    <3>7. \A v \in Workers : pc'[v] # "insert" /\ (pc'[v] = "stale" => conn'[v] = NoConn)
      <4> TAKE v \in Workers
      <4>1. CASE v = w
        BY <4>1, <1>1, <3>1, <2>3
      <4>2. CASE v # w
        <5>1. conn[v] = NoConn
          BY <4>2, <1>1, <2>1, Exclusive
        <5> QED BY <4>2, <5>1, <1>1, <2>1, <3>1 DEF LockInv, Guarded
      <4> QED BY <4>1, <4>2
    <3> QED BY <3>3, <3>6, <3>7 DEF SlotInv
  <2> QED BY <1>6, <2>2, <2>3 DEF InsertScheduled
<1> QED BY <1>2, <1>3, <1>4, <1>5, <1>6 DEF WorkerStep

\* A trigger's row is none of the schedule.
LEMMA TriggerSlot ==
    ASSUME TypeInv, SlotInv, NEW t \in Triggers, TriggerStep(t)
    PROVE  SlotInv'
<1>1. /\ t \in Procs /\ t \notin Workers /\ Workers \subseteq Procs /\ Workers \subseteq Runners
      /\ pc \in [Procs -> PC] /\ now \in Nat
  BY ConstantsAssumption DEF Procs, Runners, TypeInv, TypeOK
<1>2. CASE TriggerStale(t)
  <2>1. UNCHANGED <<slot, scheduled, last, now, config, conn, rec>> /\ Goto(t, "count")
    BY <1>2 DEF TriggerStale, configVars, procVars
  <2>2. Rows' \subseteq Rows
    BY <1>2 DEF TriggerStale, Rows
  <2> QED BY <1>1, <2>1, <2>2, SlotGoto
<1>3. CASE TriggerCount(t)
  <2>1. UNCHANGED <<slot, scheduled, last, now, config, conn, rec, status>>
    BY <1>3 DEF TriggerCount, rowVars, configVars, procVars
  <2>2. Rows' = Rows
    BY <2>1 DEF Rows
  <2>3. PICK l \in {"end", "insert"} : Goto(t, l)
    BY <1>3 DEF TriggerCount
  <2> QED BY <1>1, <2>1, <2>2, <2>3, SlotGoto
<1>4. CASE TriggerInsert(t)
  <2>1. UNCHANGED <<scheduled, now, config, conn>>
    BY <1>4 DEF TriggerInsert, configVars
  <2>2. CASE Goto(t, "end") /\ UNCHANGED <<status, slot, last, rec>>
    <3>1. Rows' = Rows
      BY <2>2 DEF Rows
    <3> QED BY <1>1, <2>1, <2>2, <3>1, SlotGoto
  <2>3. CASE NewRow(t) /\ Goto(t, "lock")
    <3>1. /\ pc' = [pc EXCEPT ![t] = "lock"]
          /\ \A q \in Procs \ {t} : rec'[q] = rec[q]
      BY <1>1, <2>3, NewRowType DEF Goto
    <3>2. /\ \A i, j \in 1..last' : i <= j => slot'[i] <= slot'[j]
          /\ \A i \in 1..last' : slot'[i] <= now'
          /\ \A i \in 1..last : slot'[i] = slot[i]
          /\ Rows' = Rows \cup {last + 1} /\ last + 1 \notin 1..last
      <4>1. last \in Nat
        BY ConstantsAssumption DEF TypeInv, TypeOK, Records
      <4>2. last + 1 \notin 1..last
        BY <4>1
      <4> QED BY <1>1, <2>1, <2>3, <4>2, SlotNewRow
    <3>3. scheduled' \cap Rows' = scheduled \cap Rows /\ \A i \in scheduled : slot'[i] = slot[i]
      BY <2>1, <3>2 DEF TypeInv
    <3>4. \A v \in Workers : pc'[v] = pc[v] /\ rec'[v] = rec[v]
      BY <1>1, <3>1
    <3>5. ASSUME NEW v \in Workers, pc'[v] = "stale", conn'[v] # NoConn, config' # "deleted",
                 NEW i \in scheduled' \cap Rows'
          PROVE  slot'[i] <= slot'[rec'[v]]
      <4>1. rec[v] \in 1..last
        BY <1>1, <3>4, <3>5 DEF TypeInv
      <4>2. slot[i] <= slot[rec[v]]
        BY <2>1, <3>3, <3>4, <3>5 DEF SlotInv
      <4> QED BY <3>2, <3>3, <3>4, <3>5, <4>1, <4>2
    <3>6. ASSUME NEW v \in Workers, pc'[v] = "insert", config' # "deleted", NEW i \in scheduled' \cap Rows'
          PROVE  slot'[i] < now'
      BY <2>1, <3>3, <3>4, <3>6 DEF SlotInv
    <3>7. OncePerSlot'
      BY <3>3 DEF SlotInv, OncePerSlot
    <3> QED BY <3>2, <3>5, <3>6, <3>7 DEF SlotInv
  <2> QED BY <1>4, <2>2, <2>3 DEF TriggerInsert
<1> QED BY <1>2, <1>3, <1>4 DEF TriggerStep

\* The slot invariant is kept.
LEMMA SlotStep ==
    ASSUME TypeInv, LockInv, SlotInv, [Next]_vars
    PROVE  SlotInv'
<1>0. /\ now \in Nat /\ Workers \subseteq Procs /\ Runners \subseteq Procs /\ pc \in [Procs -> PC]
      /\ rec \in [Procs -> Records \cup {0}] /\ conn \in [Procs -> Conns \cup {NoConn}]
  BY DEF Procs, Runners, TypeInv, TypeOK
<1>1. CASE UNCHANGED vars
  <2>1. /\ UNCHANGED <<slot, scheduled, last, config, pc, conn, rec>> /\ now' = now /\ Rows' = Rows
    BY <1>1 DEF vars, rowVars, configVars, procVars, Rows
  <2> QED BY <1>0, <2>1, SlotFrame
<1>2. ASSUME NEW p \in Runners, RunStep(p) PROVE SlotInv'
  <2>1. p \in Procs
    BY <1>0
  <2>2. CASE Lock(p) \/ Unlock(p) \/ Dump(p) \/ ListOld(p)
    <3>1. /\ UNCHANGED <<status, slot, scheduled, last, now, config>>
          /\ \A q \in Procs \ {p} : conn'[q] = conn[q] /\ rec'[q] = rec[q]
      <4>1. CASE Lock(p)
        BY <1>0, <4>1 DEF Lock, rowVars, configVars
      <4>2. CASE Unlock(p)
        BY <1>0, <4>2 DEF Unlock, rowVars, configVars
      <4>3. CASE Dump(p)
        BY <1>0, <4>3 DEF Dump, rowVars, configVars, procVars
      <4>4. CASE ListOld(p)
        BY <1>0, <4>4 DEF ListOld, rowVars, configVars
      <4> QED BY <2>2, <4>1, <4>2, <4>3, <4>4
    <3>2. \E l : Goto(p, l) /\ l \notin {"insert", "stale"}
      <4>1. CASE Lock(p)
        BY <4>1 DEF Lock, Unlocked
      <4>2. CASE Unlock(p)
        BY <4>2, UnlockGoto
      <4>3. CASE Dump(p)
        BY <4>3 DEF Dump
      <4>4. CASE ListOld(p)
        BY <2>1, <4>4, CleanedGoto DEF ListOld
      <4> QED BY <2>2, <4>1, <4>2, <4>3, <4>4
    <3>3. Rows' = Rows
      BY <3>1 DEF Rows
    <3> QED BY <2>1, <3>1, <3>2, <3>3, SlotGoto
  <2>3. CASE MarkCompleted(p) \/ MarkFailed(p)
    <3>1. UNCHANGED <<slot, scheduled, last, now, config, conn, rec>>
      BY <2>3 DEF MarkCompleted, MarkFailed, configVars, procVars
    <3>2. SetStatus(rec[p], "completed") \/ SetStatus(rec[p], "failed") \/ status' = status
      BY <2>3 DEF MarkCompleted, MarkFailed
    <3>3. Rows' \subseteq Rows
      <4>1. CASE status' = status
        BY <4>1 DEF Rows
      <4> QED BY <3>2, <4>1, RowsShrink DEF Status
    <3>4. PICK l \in {"release", "list", "unlock"} : Goto(p, l)
      BY <2>3 DEF MarkCompleted, MarkFailed
    <3> QED BY <2>1, <3>1, <3>3, <3>4, SlotGoto
  <2> QED BY <1>2, <2>2, <2>3 DEF RunStep
<1>3. ASSUME NEW p \in Procs, DeleteStep(p) PROVE SlotInv'
  <2>1. /\ UNCHANGED <<slot, scheduled, last, now, config, conn>>
        /\ \A q \in Procs \ {p} : conn'[q] = conn[q] /\ rec'[q] = rec[q]
    BY <1>0, <1>3 DEF DeleteStep, DeleteFile, DeleteRow, DeletesDone, rowVars, configVars, procVars
  <2>2. Rows' \subseteq Rows
    <3>1. CASE DeleteRow(p)
      <4>1. SetStatus(rec[p], "deleted") \/ status' = status
        BY <3>1 DEF DeleteRow
      <4>2. CASE status' = status
        BY <4>2 DEF Rows
      <4> QED BY <4>1, <4>2, RowsShrink DEF Status
    <3>2. CASE DeleteFile(p) \/ DeletesDone(p)
      BY <3>2 DEF DeleteFile, DeletesDone, rowVars, Rows
    <3> QED BY <1>3, <3>1, <3>2 DEF DeleteStep
  <2>3. CASE \E l \in {"row", "clean", "unlock", "idle", "end", "config"} : Goto(p, l)
    BY <2>1, <2>2, <2>3, SlotGoto
  <2>4. CASE pc' = pc /\ rec' = rec
    BY <1>0, <2>1, <2>2, <2>4, SlotFrame
  <2> QED
    BY <1>3, <2>3, <2>4, CleanedGoto DEF DeleteStep, DeleteFile, DeleteRow, DeletesDone
<1>4. CASE Other
  <2>1. ASSUME NEW p \in Admins, AdminRequest(p) PROVE SlotInv'
    <3>1. UNCHANGED <<status, slot, scheduled, last, now, config, conn, rec>> /\ Goto(p, "clean")
      BY <2>1 DEF AdminRequest, rowVars, configVars
    <3>2. Rows' = Rows /\ p \in Procs
      BY <3>1 DEF Rows, Procs
    <3> QED BY <3>1, <3>2, SlotGoto
  <2>2. ASSUME NEW p \in ConfigDeletes, DeleteConfig(p) PROVE SlotInv'
    <3>1. /\ UNCHANGED <<status, slot, scheduled, last, now, conn, rec>> /\ Goto(p, "end")
          /\ config' = "deleted"
      BY <2>2 DEF DeleteConfig, rowVars, procVars
    <3>2. Rows' = Rows /\ p \in Procs
      BY <3>1 DEF Rows, Procs, Admins
    <3> QED BY <3>1, <3>2, SlotGoto
  <2>3. CASE UpdateConfig \/ Tick \/ \E i \in Records : Expire(i)
    <3>1. /\ UNCHANGED <<slot, scheduled, last, pc, conn, rec>> /\ (config = "deleted" => config' = "deleted")
          /\ now <= now' /\ now' \in Nat
      BY <1>0, <2>3 DEF UpdateConfig, Tick, Expire, rowVars, configVars, procVars
    <3>2. status' = status \/ \E i \in Records : SetStatus(i, "stale")
      BY <2>3 DEF UpdateConfig, Tick, Expire, rowVars
    <3>3. Rows' \subseteq Rows
      <4>1. CASE status' = status
        BY <4>1 DEF Rows
      <4> QED BY <3>2, <4>1, RowsShrink DEF Status
    <3> QED BY <3>1, <3>3, SlotFrame
  <2>4. ASSUME NEW c \in Conns, CloseConn(c) PROVE SlotInv'
    <3>1. UNCHANGED <<status, slot, scheduled, last, now, config, pc, conn, rec>>
      BY <2>4 DEF CloseConn, rowVars, configVars, procVars
    <3>2. Rows' = Rows
      BY <3>1 DEF Rows
    <3> QED BY <1>0, <3>1, <3>2, SlotFrame
  <2> QED BY <1>4, <2>1, <2>2, <2>3, <2>4 DEF Other
<1>5. ASSUME NEW w \in Workers, Restart(w) PROVE SlotInv'
  <2>1. UNCHANGED <<status, slot, scheduled, last, now, config>>
    BY <1>5 DEF Restart, rowVars, configVars
  <2>2. /\ conn' = [p \in Procs |-> IF Home[p] = w THEN NoConn ELSE conn[p]]
        /\ rec' = [p \in Procs |-> IF Home[p] = w THEN 0 ELSE rec[p]]
    BY <1>5 DEF Restart
  <2>3. \A v \in Workers : pc'[v] \in {"insert", "stale"} =>
           pc'[v] = pc[v] /\ conn'[v] = conn[v] /\ rec'[v] = rec[v]
    BY <1>0, <1>5, <2>2, RestartGoto
  <2>4. Rows' = Rows
    BY <2>1 DEF Rows
  <2> QED BY <1>0, <2>1, <2>3, <2>4, SlotFrame
<1> QED BY <1>1, <1>2, <1>3, <1>4, <1>5, WorkerSlot, TriggerSlot, NextCases

\* A cron slot is used for one scheduled row at most, although every replica
\* finds the config due: the second check is made under the lock, and whoever
\* passes it keeps the lock until the row is there.
THEOREM OncePerSlotSafe == Spec => []OncePerSlot
<1>1. Init => SlotInv
  BY DEF Init, SlotInv, OncePerSlot, Procs, Runners
<1>2. TypeInv /\ LockInv /\ SlotInv /\ [Next]_vars => SlotInv'
  BY SlotStep
<1>3. SlotInv => OncePerSlot
  BY DEF SlotInv
<1> QED BY <1>1, <1>2, <1>3, LockAlways, PTL DEF Spec

-----------------------------------------------------------------------------
(* Dumps and their rows                                                    *)

\* A status write that neither completes nor deletes a row.
StatusKept ==
    /\ Rows \subseteq Rows'
    /\ \A i \in Records : status'[i] = "completed" => status[i] = "completed"

\* A step that leaves the dumps alone, starts, stores and completes none, and
\* lists none for deletion on behalf of a runner.
Quiet ==
    /\ UNCHANGED <<objects, removed>>
    /\ StatusKept
    /\ \A q \in Runners :
         Own(q)' => Own(q) /\ rec'[q] = rec[q] /\ (pc'[q] = "done" => pc[q] = "done")
    /\ \A q \in Runners : todo'[q] \subseteq todo[q]
    /\ \A q \in Procs : pc'[q] = "row" => pc[q] = "row" /\ rec'[q] = rec[q]

\* The steps that are not: a new row, ...
Inserted(p) ==
    /\ NewRow(p)
    /\ UNCHANGED <<objects, removed, todo>>
    /\ \E l \in {"dump", "fail", "lock"} : Goto(p, l)

\* ... the list of a cleanup, ...
ListedOld(p) ==
    /\ \E n : todo' = [todo EXCEPT ![p] = Beyond(n)] /\ n = keep'[p]
    /\ keep'[p] \in {keep[p], retention}
    /\ Goto(p, "clean")
    /\ UNCHANGED <<status, objects, removed, rec>>

\* ... a dump that is marked completed, and a row that is deleted.
Finished(p) ==
    /\ pc[p] = "done" /\ rec[p] \in Rows
    /\ SetStatus(rec[p], "completed")
    /\ \E l \in {"release", "list"} : Goto(p, l)
    /\ UNCHANGED <<objects, removed, rec, todo>>

RowDeleted(p) ==
    /\ pc[p] = "row" /\ rec[p] \in Rows
    /\ SetStatus(rec[p], "deleted")
    /\ Goto(p, "clean")
    /\ rec' = [rec EXCEPT ![p] = 0]
    /\ UNCHANGED <<objects, removed, todo>>

\* A row marked stale or failed is still there and not completed by that.
LEMMA StatusKeptBy ==
    ASSUME TypeInv, NEW i, NEW s \in {"failed", "stale"}, SetStatus(i, s) \/ status' = status
    PROVE  StatusKept
<1>1. CASE status' = status
  BY <1>1 DEF StatusKept, Rows
<1>2. CASE i \in Rows /\ status' = [status EXCEPT ![i] = s]
  BY <1>2 DEF StatusKept, Rows, TypeInv, TypeOK
<1> QED BY <1>1, <1>2 DEF SetStatus

\* A quiet step that changes no process.
LEMMA QuietStill ==
    ASSUME StatusKept, UNCHANGED <<objects, removed, pc, rec, todo>>
    PROVE  Quiet
BY DEF Quiet, Own

\* A quiet step of process p.
LEMMA QuietMove ==
    ASSUME TypeInv, StatusKept, UNCHANGED <<objects, removed>>,
           NEW p \in Procs, NEW l, Goto(p, l), l \notin {"done", "row"},
           \A q \in Procs \ {p} : rec'[q] = rec[q] /\ todo'[q] = todo[q],
           p \in Runners => todo'[p] \subseteq todo[p],
           l = "dump" \/ (l = "lock" /\ p \in Triggers) => Own(p) /\ rec'[p] = rec[p]
    PROVE  Quiet
<1>1. pc \in [Procs -> PC] /\ pc' = [pc EXCEPT ![p] = l] /\ Runners \subseteq Procs
  BY DEF Goto, TypeInv, TypeOK, Procs
<1>2. pc'[p] = l /\ \A q \in Procs \ {p} : pc'[q] = pc[q]
  BY <1>1
<1>3. ASSUME NEW q \in Runners, Own(q)'
      PROVE  Own(q) /\ rec'[q] = rec[q] /\ (pc'[q] = "done" => pc[q] = "done")
  <2>1. CASE q = p
    BY <1>2, <1>3, <2>1 DEF Own
  <2>2. CASE q # p
    BY <1>1, <1>2, <1>3, <2>2 DEF Own
  <2> QED BY <2>1, <2>2
<1>4. \A q \in Runners : todo'[q] \subseteq todo[q]
  BY <1>1
<1>5. \A q \in Procs : pc'[q] = "row" => pc[q] = "row" /\ rec'[q] = rec[q]
  BY <1>2
<1> QED BY <1>3, <1>4, <1>5 DEF Quiet

\* A worker's own steps are quiet but for the INSERT.
LEMMA WorkerQuiet ==
    ASSUME TypeInv, NEW w \in Workers, WorkerStep(w)
    PROVE  Quiet \/ Inserted(w)
<1>1. w \in Runners /\ w \in Procs /\ w \notin Triggers
  BY ConstantsAssumption DEF Runners, Procs
<1>2. rec \in [Procs -> Records \cup {0}]
  BY DEF TypeInv, TypeOK
<1>3. CASE Scan(w)
  <2>1. /\ UNCHANGED <<objects, removed, rec, todo>> /\ Goto(w, "check") /\ status' = status
    BY <1>3 DEF Scan, rowVars
  <2> QED BY <1>1, <2>1, StatusKeptBy, QuietMove
<1>4. CASE CheckDue(w)
  <2>1. UNCHANGED <<objects, removed, todo>> /\ status' = status
    BY <1>4 DEF CheckDue, rowVars
  <2>2. \A q \in Procs \ {w} : rec'[q] = rec[q]
    BY <1>2, <1>4 DEF CheckDue
  <2>3. \E l \in {"lock", "idle", "insert", "unlock", "stale"} : Goto(w, l)
    <3>1. ASSUME NEW due \in BOOLEAN, Decide(w, due)
          PROVE  \E l \in {"lock", "idle", "insert", "unlock", "stale"} : Goto(w, l)
      BY <3>1, DecideGoto
    <3>2. (now > 0) \in BOOLEAN /\ (now > slot[Latest]) \in BOOLEAN
      OBVIOUS
    <3> QED BY <1>4, <3>1, <3>2 DEF CheckDue
  <2> QED BY <1>1, <2>1, <2>2, <2>3, StatusKeptBy, QuietMove
<1>5. CASE MarkStale(w)
  <2>1. UNCHANGED <<objects, removed, todo>> /\ (SetStatus(rec[w], "failed") \/ status' = status)
    BY <1>5 DEF MarkStale
  <2>2. \A q \in Procs \ {w} : rec'[q] = rec[q]
    BY <1>2, <1>5 DEF MarkStale
  <2>3. \E l \in {"lock", "idle", "insert", "unlock"} : Goto(w, l)
    <3>1. (now > slot[rec[w]]) \in BOOLEAN
      OBVIOUS
    <3> QED BY <1>5, <3>1, DecideGoto DEF MarkStale
  <2> QED BY <1>1, <2>1, <2>2, <2>3, StatusKeptBy, QuietMove
<1>6. CASE CheckError(w)
  <2>1. UNCHANGED <<objects, removed, rec, todo>> /\ Goto(w, "idle") /\ status' = status
    BY <1>6 DEF CheckError, rowVars
  <2> QED BY <1>1, <2>1, StatusKeptBy, QuietMove
<1>7. CASE InsertScheduled(w)
  <2>1. UNCHANGED <<objects, removed, todo>>
    BY <1>7 DEF InsertScheduled
  <2>2. CASE Goto(w, "unlock") /\ UNCHANGED <<status, rec>>
    BY <1>1, <2>1, <2>2, StatusKeptBy, QuietMove
  <2>3. CASE NewRow(w) /\ (Goto(w, "dump") \/ Goto(w, "fail"))
    BY <2>1, <2>3 DEF Inserted
  <2> QED BY <1>7, <2>2, <2>3 DEF InsertScheduled
<1> QED BY <1>3, <1>4, <1>5, <1>6, <1>7 DEF WorkerStep

\* So are a trigger's.
LEMMA TriggerQuiet ==
    ASSUME TypeInv, NEW t \in Triggers, TriggerStep(t)
    PROVE  Quiet \/ Inserted(t)
<1>1. t \in Runners /\ t \in Procs /\ t \notin Workers
  BY ConstantsAssumption DEF Runners, Procs
<1>2. CASE TriggerStale(t)
  <2>1. UNCHANGED <<objects, removed, rec, todo>> /\ Goto(t, "count")
    BY <1>2 DEF TriggerStale, procVars
  <2>2. StatusKept
    BY <1>2 DEF TriggerStale, StatusKept, Rows
  <2> QED BY <1>1, <2>1, <2>2, QuietMove
<1>3. CASE TriggerCount(t)
  <2>1. /\ UNCHANGED <<objects, removed, rec, todo>> /\ status' = status
        /\ Goto(t, "end") \/ Goto(t, "insert")
    BY <1>3 DEF TriggerCount, rowVars, procVars
  <2> QED BY <1>1, <2>1, StatusKeptBy, QuietMove
<1>4. CASE TriggerInsert(t)
  <2>1. UNCHANGED <<objects, removed, todo>>
    BY <1>4 DEF TriggerInsert
  <2>2. CASE Goto(t, "end") /\ UNCHANGED <<status, rec>>
    BY <1>1, <2>1, <2>2, StatusKeptBy, QuietMove
  <2>3. CASE NewRow(t) /\ Goto(t, "lock")
    BY <2>1, <2>3 DEF Inserted
  <2> QED BY <1>4, <2>2, <2>3 DEF TriggerInsert
<1> QED BY <1>2, <1>3, <1>4 DEF TriggerStep

\* Of a run, the dump, its completion and the list of old dumps are not.
LEMMA RunQuiet ==
    ASSUME TypeInv, NEW p \in Runners, RunStep(p)
    PROVE  Quiet \/ Dump(p) \/ Finished(p) \/ ListedOld(p)
<1>1. p \in Procs /\ (p \in Workers \/ p \in Triggers)
  BY DEF Procs, Runners
<1>2. rec \in [Procs -> Records \cup {0}] /\ todo \in [Procs -> SUBSET Records]
      /\ keep \in [Procs -> Nat \ {0}]
  BY DEF TypeInv, TypeOK
<1>3. CASE Lock(p)
  <2>1. UNCHANGED <<objects, removed, rec, todo>> /\ status' = status /\ pc[p] = "lock"
    BY <1>3 DEF Lock, rowVars
  <2>2. PICK l \in {"idle", "fail", "check", "dump"} :
          Goto(p, l) /\ (l = "dump" => p \notin Workers)
    BY <1>3 DEF Lock, Unlocked
  <2>3. l = "dump" => Own(p)
    BY <1>1, <2>1, <2>2 DEF Own
  <2> QED BY <1>1, <2>1, <2>2, <2>3, StatusKeptBy, QuietMove
<1>4. CASE Unlock(p)
  <2>1. UNCHANGED <<objects, removed, todo>> /\ status' = status
    BY <1>4 DEF Unlock, rowVars
  <2>2. \A q \in Procs \ {p} : rec'[q] = rec[q]
    BY <1>2, <1>4 DEF Unlock
  <2>3. PICK l \in {"list", "idle", "end"} : Goto(p, l)
    BY <1>4, UnlockGoto
  <2> QED BY <1>1, <2>1, <2>2, <2>3, StatusKeptBy, QuietMove
<1>5. CASE MarkCompleted(p)
  <2>1. UNCHANGED <<objects, removed, rec, todo>> /\ pc[p] = "done"
    BY <1>5 DEF MarkCompleted, procVars
  <2>2. CASE Goto(p, "unlock") /\ UNCHANGED status
    BY <1>1, <2>1, <2>2, StatusKeptBy, QuietMove
  <2>3. CASE /\ rec[p] \in Rows /\ SetStatus(rec[p], "completed")
             /\ Goto(p, IF p \in Workers THEN "release" ELSE "list")
    BY <2>1, <2>3 DEF Finished
  <2> QED BY <1>5, <2>2, <2>3 DEF MarkCompleted
<1>6. CASE MarkFailed(p)
  <2>1. /\ UNCHANGED <<objects, removed, rec, todo>> /\ Goto(p, "unlock")
        /\ SetStatus(rec[p], "failed") \/ status' = status
    BY <1>6 DEF MarkFailed, procVars
  <2> QED BY <1>1, <2>1, StatusKeptBy, QuietMove
<1>7. CASE ListOld(p)
  <2>1. UNCHANGED <<objects, removed, rec>> /\ status' = status
    BY <1>7 DEF ListOld, rowVars
  <2>2. CASE UNCHANGED todo /\ \E l \in {"idle", "unlock", "end", "config"} : Goto(p, l)
    BY <1>1, <2>1, <2>2, StatusKeptBy, QuietMove
  <2>3. CASE /\ keep' = [keep EXCEPT ![p] = IF p \in Workers THEN @ ELSE retention]
             /\ todo' = [todo EXCEPT ![p] = Beyond(keep'[p])]
             /\ Goto(p, "clean")
    <3>1. keep'[p] \in {keep[p], retention}
      BY <1>1, <1>2, <2>3
    <3> QED BY <2>1, <2>3, <3>1 DEF ListedOld
  <2> QED BY <1>1, <1>7, <2>2, <2>3, CleanedGoto DEF ListOld
<1> QED BY <1>3, <1>4, <1>5, <1>6, <1>7 DEF RunStep

\* Of the deletes, the file and the row are not.
LEMMA DeleteQuiet ==
    ASSUME TypeInv, NEW p \in Procs, DeleteStep(p)
    PROVE  Quiet \/ DeleteFile(p) \/ RowDeleted(p)
<1>1. rec \in [Procs -> Records \cup {0}] /\ todo \in [Procs -> SUBSET Records]
  BY DEF TypeInv, TypeOK
<1>2. CASE DeleteRow(p)
  <2>1. UNCHANGED <<objects, removed>> /\ pc[p] = "row" /\ rec' = [rec EXCEPT ![p] = 0]
    BY <1>2 DEF DeleteRow
  <2>2. CASE rec[p] \in Rows /\ SetStatus(rec[p], "deleted") /\ Goto(p, "clean") /\ UNCHANGED todo
    BY <2>1, <2>2 DEF RowDeleted
  <2>3. CASE todo' = [todo EXCEPT ![p] = {}] /\ Goto(p, Aborted(p)) /\ UNCHANGED status
    <3>1. \A q \in Procs \ {p} : rec'[q] = rec[q] /\ todo'[q] = todo[q]
      BY <1>1, <2>1, <2>3
    <3>2. todo'[p] = {}
      BY <1>1, <2>3
    <3>3. Aborted(p) \in {"idle", "unlock", "end", "config"}
      BY CleanedGoto
    <3> QED BY <2>1, <2>3, <3>1, <3>2, <3>3, StatusKeptBy, QuietMove
  <2> QED BY <1>2, <2>2, <2>3 DEF DeleteRow
<1>3. CASE DeletesDone(p)
  <2>1. UNCHANGED <<objects, removed, rec, todo>> /\ status' = status /\ Goto(p, Cleaned(p))
    BY <1>3 DEF DeletesDone, rowVars, procVars
  <2>2. Cleaned(p) \in {"idle", "unlock", "end", "config"}
    BY CleanedGoto
  <2> QED BY <2>1, <2>2, StatusKeptBy, QuietMove
<1> QED BY <1>2, <1>3 DEF DeleteStep

\* Requests, edits, time, the pool and restarts are quiet.
LEMMA OtherQuiet ==
    ASSUME TypeInv, Other \/ (\E w \in Workers : Restart(w)) \/ UNCHANGED vars
    PROVE  Quiet
<1>1. ASSUME NEW p \in Admins, AdminRequest(p) PROVE Quiet
  <2>1. UNCHANGED <<objects, removed, rec>> /\ status' = status /\ Goto(p, "clean")
    BY <1>1 DEF AdminRequest, rowVars
  <2>2. p \in Procs /\ p \notin Runners
    BY ConstantsAssumption DEF Procs
  <2>3. \A q \in Procs \ {p} : todo'[q] = todo[q]
    BY <1>1 DEF AdminRequest, TypeInv, TypeOK
  <2> QED BY <2>1, <2>2, <2>3, StatusKeptBy, QuietMove
<1>2. ASSUME NEW p \in ConfigDeletes, DeleteConfig(p) PROVE Quiet
  <2>1. UNCHANGED <<objects, removed, rec, todo>> /\ status' = status /\ Goto(p, "end")
    BY <1>2 DEF DeleteConfig, rowVars, procVars
  <2>2. p \in Procs
    BY DEF Procs, Admins
  <2> QED BY <2>1, <2>2, StatusKeptBy, QuietMove
<1>3. CASE UpdateConfig \/ Tick \/ \E c \in Conns : CloseConn(c)
  <2>1. UNCHANGED <<objects, removed, pc, rec, todo>> /\ status' = status
    BY <1>3 DEF UpdateConfig, Tick, CloseConn, rowVars, procVars
  <2> QED BY <2>1, StatusKeptBy, QuietStill
<1>4. ASSUME NEW i \in Records, Expire(i) PROVE Quiet
  <2>1. UNCHANGED <<objects, removed, pc, rec, todo>> /\ SetStatus(i, "stale")
    BY <1>4 DEF Expire, procVars
  <2> QED BY <2>1, StatusKeptBy, QuietStill
<1>5. CASE UNCHANGED vars
  <2>1. UNCHANGED <<objects, removed, pc, rec, todo>> /\ status' = status
    BY <1>5 DEF vars, rowVars, procVars
  <2> QED BY <2>1, StatusKeptBy, QuietStill
<1>6. ASSUME NEW w \in Workers, Restart(w) PROVE Quiet
  <2>1. /\ UNCHANGED <<objects, removed>> /\ status' = status
        /\ todo' = [p \in Procs |-> IF Home[p] = w THEN {} ELSE todo[p]]
        /\ rec' = [p \in Procs |-> IF Home[p] = w THEN 0 ELSE rec[p]]
    BY <1>6 DEF Restart, rowVars
  <2>2. Runners \subseteq Procs
    BY DEF Procs
  <2>3. \A q \in Procs : /\ pc'[q] \notin {"idle", "end", "request"} => pc'[q] = pc[q] /\ rec'[q] = rec[q]
                         /\ todo'[q] \subseteq todo[q]
    BY <1>6, <2>1, RestartGoto
  <2>4. \A q \in Runners :
          Own(q)' => Own(q) /\ rec'[q] = rec[q] /\ (pc'[q] = "done" => pc[q] = "done")
    BY <2>2, <2>3 DEF Own
  <2>5. \A q \in Procs : pc'[q] = "row" => pc[q] = "row" /\ rec'[q] = rec[q]
    BY <2>3
  <2>6. StatusKept
    BY <2>1, StatusKeptBy
  <2> QED BY <2>1, <2>2, <2>3, <2>4, <2>5, <2>6 DEF Quiet
<1> QED BY <1>1, <1>2, <1>3, <1>4, <1>5, <1>6 DEF Other

\* What a step can be, as far as dumps go.
LEMMA DumpCases ==
    ASSUME TypeInv, [Next]_vars
    PROVE  \/ Quiet
           \/ \E p \in Runners : Inserted(p) \/ Dump(p) \/ Finished(p) \/ ListedOld(p)
           \/ \E p \in Procs : DeleteFile(p) \/ RowDeleted(p)
<1>1. Workers \subseteq Runners /\ Triggers \subseteq Runners
  BY DEF Runners
<1> QED BY <1>1, NextCases, WorkerQuiet, TriggerQuiet, RunQuiet, DeleteQuiet, OtherQuiet

\* The row whose dump p makes is not completed, is listed unless an admin has
\* deleted its dump, and no cleanup is after it; once the dump is made it is on
\* the storage unless an admin has deleted it.
OwnInv(p) ==
    /\ status[rec[p]] # "completed" /\ rec[p] \in Rows \cup removed
    /\ pc[p] = "done" => rec[p] \in objects \cup removed
    /\ \A q \in Runners : rec[p] \notin todo[q] /\ ~(pc[q] = "row" /\ rec[q] = rec[p])

\* A process that is about to delete a row has deleted its dump for good.
RowInv(q) ==
    /\ q \in Admins => rec[q] \in removed
    /\ q \in Runners => rec[q] \notin objects

DumpInv ==
    /\ DumpsListed
    /\ \A p \in Runners : Own(p) => OwnInv(p)
    /\ \A p, q \in Runners : Own(p) /\ Own(q) /\ rec[p] = rec[q] => p = q
    /\ \A q \in Procs : pc[q] = "row" => RowInv(q)

\* What one process does to the registers of the others.
LEMMA OthersKept ==
    ASSUME TypeInv, NEW p \in Procs, NEW l, Goto(p, l), \A q \in Procs \ {p} : rec'[q] = rec[q]
    PROVE  /\ pc'[p] = l
           /\ \A q \in Procs \ {p} : pc'[q] = pc[q] /\ (Own(q)' <=> Own(q))
BY DEF Goto, Own, TypeInv, TypeOK

\* Every step keeps dumps listed.
LEMMA DumpStep ==
    ASSUME TypeInv, DumpInv, [Next]_vars
    PROVE  DumpInv'
<1>0. /\ Runners \subseteq Procs /\ Admins \subseteq Procs /\ Runners \cap Admins = {}
      /\ rec \in [Procs -> Records \cup {0}] /\ todo \in [Procs -> SUBSET Records]
      /\ status \in [Records -> Status] /\ objects \subseteq Records /\ removed \subseteq Records
      /\ last \in Nat
  BY ConstantsAssumption DEF Procs, TypeInv, TypeOK, Records
<1>o. \A q \in Runners : Own(q) => rec[q] \in Records /\ rec[q] \in 1..last
  <2>1. \A q \in Runners : Own(q) => rec[q] \in 1..last
    BY DEF TypeInv
  <2> QED BY <2>1, ConstantsAssumption DEF TypeInv, TypeOK, Records
<1>1. CASE Quiet
  <2>1. /\ UNCHANGED <<objects, removed>> /\ Rows \subseteq Rows'
        /\ \A i \in Records : status'[i] = "completed" => status[i] = "completed"
        /\ \A q \in Runners :
             Own(q)' => Own(q) /\ rec'[q] = rec[q] /\ (pc'[q] = "done" => pc[q] = "done")
        /\ \A q \in Runners : todo'[q] \subseteq todo[q]
        /\ \A q \in Procs : pc'[q] = "row" => pc[q] = "row" /\ rec'[q] = rec[q]
    BY <1>1 DEF Quiet, StatusKept
  <2>2. DumpsListed'
    BY <2>1 DEF DumpInv, DumpsListed
  <2>3. ASSUME NEW p \in Runners, Own(p)' PROVE OwnInv(p)'
    <3>1. OwnInv(p) /\ rec'[p] = rec[p] /\ rec[p] \in Records
      BY <1>o, <2>1, <2>3 DEF DumpInv
    <3> QED BY <1>0, <2>1, <2>3, <3>1 DEF OwnInv
  <2>4. \A p, q \in Runners : Own(p)' /\ Own(q)' /\ rec'[p] = rec'[q] => p = q
    BY <2>1 DEF DumpInv
  <2>5. ASSUME NEW q \in Procs, pc'[q] = "row" PROVE RowInv(q)'
    BY <2>1, <2>5 DEF DumpInv, RowInv
  <2> QED BY <2>2, <2>3, <2>4, <2>5 DEF DumpInv
<1>2. ASSUME NEW p \in Runners, Inserted(p) PROVE DumpInv'
  <2>1. /\ p \in Procs /\ UNCHANGED <<objects, removed, todo>> /\ NewRow(p)
        /\ rec' = [rec EXCEPT ![p] = last + 1]
        /\ status' = [status EXCEPT ![last + 1] = "running"] /\ last + 1 \in Records
    BY <1>0, <1>2, NewRowType DEF Inserted, NewRow
  <2>2. PICK l \in {"dump", "fail", "lock"} : Goto(p, l)
    BY <1>2 DEF Inserted
  <2>3. rec'[p] = last + 1 /\ \A q \in Procs \ {p} : rec'[q] = rec[q]
    BY <1>0, <2>1
  <2>4. pc'[p] = l /\ \A q \in Procs \ {p} : pc'[q] = pc[q] /\ (Own(q)' <=> Own(q))
    BY <2>1, <2>2, <2>3, OthersKept
  <2>5. Rows' = Rows \cup {last + 1}
    BY <1>0, <2>1 DEF Rows
  <2>6. status'[last + 1] = "running" /\ \A i \in Records \ {last + 1} : status'[i] = status[i]
    BY <1>0, <2>1
  <2>7. \A i \in 1..last : i # last + 1
    BY <1>0
  <2>8. /\ \A q \in Procs : todo[q] \subseteq 1..last /\ (pc[q] = "row" => rec[q] \in 1..last)
        /\ objects \subseteq 1..last
    BY DEF TypeInv
  <2>9. DumpsListed'
    BY <2>1, <2>5 DEF DumpInv, DumpsListed
  <2>10. ASSUME NEW q \in Runners, Own(q)' PROVE OwnInv(q)'
    <3>1. CASE q = p
      <4>1. /\ status'[rec'[p]] # "completed" /\ rec'[p] \in Rows' /\ pc'[p] # "done"
        BY <2>3, <2>4, <2>5, <2>6
      <4>2. \A r \in Runners : rec'[p] \notin todo'[r]
        BY <1>0, <2>1, <2>3, <2>7, <2>8
      <4>3. \A r \in Runners : ~(pc'[r] = "row" /\ rec'[r] = rec'[p])
        BY <1>0, <2>3, <2>4, <2>7, <2>8
      <4> QED BY <3>1, <4>1, <4>2, <4>3 DEF OwnInv
    <3>2. CASE q # p
      <4>1. /\ OwnInv(q) /\ rec'[q] = rec[q] /\ pc'[q] = pc[q]
            /\ rec[q] \in Records /\ rec[q] \in 1..last
        BY <1>0, <1>o, <2>3, <2>4, <2>10, <3>2 DEF DumpInv
      <4>2. \A r \in Runners : pc'[r] = "row" => pc[r] = "row" /\ rec'[r] = rec[r]
        BY <1>0, <2>3, <2>4
      <4> QED BY <2>1, <2>5, <2>6, <2>7, <4>1, <4>2 DEF OwnInv
    <3> QED BY <3>1, <3>2
  <2>11. ASSUME NEW q \in Runners, NEW r \in Runners, Own(q)', Own(r)', rec'[q] = rec'[r]
         PROVE  q = r
    <3>1. CASE q # p /\ r # p
      BY <1>0, <2>3, <2>4, <2>11, <3>1 DEF DumpInv
    <3>2. CASE q = p /\ r # p
      BY <1>0, <1>o, <2>3, <2>4, <2>7, <2>11, <3>2
    <3>3. CASE q # p /\ r = p
      BY <1>0, <1>o, <2>3, <2>4, <2>7, <2>11, <3>3
    <3> QED BY <3>1, <3>2, <3>3
  <2>12. ASSUME NEW q \in Procs, pc'[q] = "row" PROVE RowInv(q)'
    BY <2>1, <2>3, <2>4, <2>12 DEF DumpInv, RowInv
  <2> QED BY <2>9, <2>10, <2>11, <2>12 DEF DumpInv
<1>3. ASSUME NEW p \in Runners, Dump(p) PROVE DumpInv'
  <2>1. /\ p \in Procs /\ UNCHANGED <<status, removed, rec, todo>> /\ pc[p] = "dump"
        /\ objects' \in {objects, objects \cup {rec[p]}}
    BY <1>0, <1>3 DEF Dump, rowVars, procVars
  <2>2. PICK l \in {"done", "fail"} : Goto(p, l) /\ (l = "done" => rec[p] \in objects')
    BY <1>3 DEF Dump
  <2>3. pc'[p] = l /\ \A q \in Procs \ {p} : pc'[q] = pc[q] /\ (Own(q)' <=> Own(q))
    BY <2>1, <2>2, OthersKept
  <2>4. Own(p) /\ OwnInv(p) /\ Rows' = Rows
    BY <2>1 DEF Own, DumpInv, Rows
  <2>5. DumpsListed'
    BY <2>1, <2>4 DEF DumpInv, DumpsListed, OwnInv
  <2>6. ASSUME NEW q \in Runners, Own(q)' PROVE OwnInv(q)'
    <3>1. Own(q) /\ OwnInv(q)
      BY <1>0, <2>3, <2>4, <2>6 DEF DumpInv
    <3>2. pc'[q] = "done" => rec[q] \in objects' \cup removed'
      <4>1. CASE q = p
        BY <2>2, <2>3, <4>1
      <4>2. CASE q # p
        BY <1>0, <2>1, <2>3, <3>1, <4>2 DEF OwnInv
      <4> QED BY <4>1, <4>2
    <3>3. \A r \in Runners : pc'[r] = "row" => pc[r] = "row"
      BY <1>0, <2>3
    <3> QED BY <2>1, <2>4, <3>1, <3>2, <3>3 DEF OwnInv
  <2>7. \A q, r \in Runners : Own(q)' /\ Own(r)' /\ rec'[q] = rec'[r] => q = r
    BY <1>0, <2>1, <2>3, <2>4 DEF DumpInv
  <2>8. ASSUME NEW q \in Procs, pc'[q] = "row" PROVE RowInv(q)'
    <3>1. pc[q] = "row" /\ RowInv(q)
      BY <2>3, <2>8 DEF DumpInv
    <3>2. q \in Runners => rec[q] # rec[p]
      BY <2>4, <3>1 DEF OwnInv
    <3> QED BY <2>1, <3>1, <3>2 DEF RowInv
  <2> QED BY <2>5, <2>6, <2>7, <2>8 DEF DumpInv
<1>4. ASSUME NEW p \in Runners, Finished(p) PROVE DumpInv'
  <2>1. /\ p \in Procs /\ UNCHANGED <<objects, removed, rec, todo>> /\ pc[p] = "done"
        /\ rec[p] \in Rows /\ rec[p] \in Records /\ status' = [status EXCEPT ![rec[p]] = "completed"]
    BY <1>0, <1>4 DEF Finished, SetStatus, Rows
  <2>2. PICK l \in {"release", "list"} : Goto(p, l)
    BY <1>4 DEF Finished
  <2>3. pc'[p] = l /\ \A q \in Procs \ {p} : pc'[q] = pc[q] /\ (Own(q)' <=> Own(q))
    BY <2>1, <2>2, OthersKept
  <2>4. Rows' = Rows /\ Own(p)
    BY <1>0, <2>1 DEF Rows, Own
  <2>5. DumpsListed'
    BY <2>1, <2>4 DEF DumpInv, DumpsListed
  <2>6. ASSUME NEW q \in Runners, Own(q)' PROVE OwnInv(q)'
    <3>1. q # p
      BY <2>2, <2>3, <2>6 DEF Own
    <3>2. Own(q) /\ OwnInv(q) /\ rec[q] \in Records /\ rec[q] # rec[p] /\ pc'[q] = pc[q]
      BY <1>0, <1>o, <2>3, <2>4, <2>6, <3>1 DEF DumpInv
    <3>3. status'[rec[q]] = status[rec[q]]
      BY <1>0, <2>1, <3>2
    <3>4. \A r \in Runners : pc'[r] = "row" => pc[r] = "row"
      BY <1>0, <2>2, <2>3
    <3> QED BY <2>1, <2>4, <3>2, <3>3, <3>4 DEF OwnInv
  <2>7. \A q, r \in Runners : Own(q)' /\ Own(r)' /\ rec'[q] = rec'[r] => q = r
    BY <1>0, <2>1, <2>3, <2>4 DEF DumpInv
  <2>8. ASSUME NEW q \in Procs, pc'[q] = "row" PROVE RowInv(q)'
    BY <2>1, <2>2, <2>3, <2>8 DEF DumpInv, RowInv
  <2> QED BY <2>5, <2>6, <2>7, <2>8 DEF DumpInv
<1>5. ASSUME NEW p \in Runners, ListedOld(p) PROVE DumpInv'
  <2>1. /\ p \in Procs /\ UNCHANGED <<objects, removed, rec, status>> /\ Goto(p, "clean")
    BY <1>0, <1>5 DEF ListedOld
  <2>2. PICK n : todo' = [todo EXCEPT ![p] = Beyond(n)]
    BY <1>5 DEF ListedOld
  <2>3. pc'[p] = "clean" /\ \A q \in Procs \ {p} : pc'[q] = pc[q] /\ (Own(q)' <=> Own(q))
    BY <2>1, OthersKept
  <2>4. Rows' = Rows /\ ~Own(p)'
    BY <2>1, <2>3 DEF Rows, Own
  <2>5. DumpsListed'
    BY <2>1, <2>4 DEF DumpInv, DumpsListed
  <2>6. ASSUME NEW q \in Runners, Own(q)' PROVE OwnInv(q)'
    <3>1. q # p /\ Own(q) /\ OwnInv(q) /\ pc'[q] = pc[q]
      BY <1>0, <2>3, <2>4, <2>6 DEF DumpInv
    <3>2. \A i \in Beyond(n) : status[i] = "completed"
      BY DEF Beyond, Completed
    <3>3. \A r \in Runners : rec[q] \notin todo'[r]
      BY <1>0, <2>2, <3>1, <3>2 DEF OwnInv
    <3>4. \A r \in Runners : pc'[r] = "row" => pc[r] = "row"
      BY <1>0, <2>3
    <3> QED BY <2>1, <2>4, <3>1, <3>3, <3>4 DEF OwnInv
  <2>7. \A q, r \in Runners : Own(q)' /\ Own(r)' /\ rec'[q] = rec'[r] => q = r
    BY <1>0, <2>1, <2>3, <2>4 DEF DumpInv
  <2>8. ASSUME NEW q \in Procs, pc'[q] = "row" PROVE RowInv(q)'
    BY <2>1, <2>3, <2>8 DEF DumpInv, RowInv
  <2> QED BY <2>5, <2>6, <2>7, <2>8 DEF DumpInv
<1>6. ASSUME NEW p \in Procs, DeleteFile(p) PROVE DumpInv'
  <2>1. UNCHANGED status /\ Rows' = Rows
    BY <1>6 DEF DeleteFile, rowVars, Rows
  <2>2. PICK i \in todo[p] :
          /\ todo' = [todo EXCEPT ![p] = todo[p] \ {i}]
          /\ \/ /\ objects' = objects \ {i}
                /\ rec' = [rec EXCEPT ![p] = i]
                /\ removed' = IF p \in Admins THEN removed \cup {i} ELSE removed
                /\ Goto(p, "row")
             \/ UNCHANGED <<objects, rec, removed, pc>>
    BY <1>6 DEF DeleteFile
  <2>3. \A q \in Procs : todo'[q] \subseteq todo[q]
    BY <1>0, <2>2
  <2>4. CASE UNCHANGED <<objects, rec, removed, pc>>
    <3>1. \A q \in Procs : Own(q)' <=> Own(q)
      BY <2>4 DEF Own
    <3>2. ASSUME NEW q \in Runners, Own(q)' PROVE OwnInv(q)'
      BY <1>0, <2>1, <2>3, <2>4, <3>1, <3>2 DEF DumpInv, OwnInv
    <3> QED BY <1>0, <2>1, <2>4, <3>1, <3>2 DEF DumpInv, DumpsListed, RowInv
  <2>5. CASE /\ objects' = objects \ {i} /\ rec' = [rec EXCEPT ![p] = i]
             /\ removed' = IF p \in Admins THEN removed \cup {i} ELSE removed
             /\ Goto(p, "row")
    <3>1. rec'[p] = i /\ \A q \in Procs \ {p} : rec'[q] = rec[q]
      BY <1>0, <2>5
    <3>2. pc'[p] = "row" /\ \A q \in Procs \ {p} : pc'[q] = pc[q] /\ (Own(q)' <=> Own(q))
      BY <2>5, <3>1, OthersKept
    <3>3. DumpsListed'
      BY <2>1, <2>5 DEF DumpInv, DumpsListed
    <3>4. ASSUME NEW q \in Runners, Own(q)' PROVE OwnInv(q)'
      <4>1. q # p
        BY <3>2, <3>4 DEF Own
      <4>2. Own(q) /\ OwnInv(q) /\ rec'[q] = rec[q] /\ pc'[q] = pc[q]
        BY <1>0, <3>1, <3>2, <3>4, <4>1 DEF DumpInv
      <4>3. p \in Runners => i # rec[q]
        BY <2>2, <4>2 DEF OwnInv
      <4>4. objects \cup removed \subseteq objects' \cup removed' \cup {i}
            /\ (p \in Admins => i \in removed') /\ removed \subseteq removed'
        BY <2>5
      <4>5. p \in Runners \/ p \in Admins
        BY DEF Procs
      <4>6. pc'[q] = "done" => rec[q] \in objects' \cup removed'
        BY <4>2, <4>3, <4>4, <4>5 DEF OwnInv
      <4>7. \A r \in Runners : ~(pc'[r] = "row" /\ rec'[r] = rec[q])
        BY <1>0, <3>1, <3>2, <4>2, <4>3 DEF OwnInv
      <4> QED BY <1>0, <2>1, <2>3, <4>2, <4>4, <4>6, <4>7 DEF OwnInv
    <3>5. \A q, r \in Runners : Own(q)' /\ Own(r)' /\ rec'[q] = rec'[r] => q = r
      <4>1. ~Own(p)'
        BY <3>2 DEF Own
      <4> QED BY <1>0, <3>1, <3>2, <4>1 DEF DumpInv
    <3>6. ASSUME NEW q \in Procs, pc'[q] = "row" PROVE RowInv(q)'
      <4>1. CASE q = p
        BY <1>0, <2>5, <3>1, <4>1 DEF RowInv
      <4>2. CASE q # p
        <5>1. RowInv(q) /\ rec'[q] = rec[q]
          BY <3>1, <3>2, <3>6, <4>2 DEF DumpInv
        <5> QED BY <2>5, <5>1 DEF RowInv
      <4> QED BY <4>1, <4>2
    <3> QED BY <3>3, <3>4, <3>5, <3>6 DEF DumpInv
  <2> QED BY <2>2, <2>4, <2>5
<1>7. ASSUME NEW p \in Procs, RowDeleted(p) PROVE DumpInv'
  <2>1. /\ UNCHANGED <<objects, removed, todo>> /\ pc[p] = "row" /\ Goto(p, "clean")
        /\ rec' = [rec EXCEPT ![p] = 0]
        /\ rec[p] \in Rows /\ rec[p] \in Records /\ status' = [status EXCEPT ![rec[p]] = "deleted"]
    BY <1>7 DEF RowDeleted, SetStatus, Rows
  <2>2. \A q \in Procs \ {p} : rec'[q] = rec[q]
    BY <1>0, <2>1
  <2>3. pc'[p] = "clean" /\ \A q \in Procs \ {p} : pc'[q] = pc[q] /\ (Own(q)' <=> Own(q))
    BY <2>1, <2>2, OthersKept
  <2>4. Rows' = Rows \ {rec[p]} /\ ~Own(p)'
    BY <1>0, <2>1, <2>3 DEF Rows, Own
  <2>5. RowInv(p) /\ (p \in Runners \/ p \in Admins)
    BY <2>1 DEF DumpInv, Procs
  <2>6. DumpsListed'
    BY <2>1, <2>4, <2>5 DEF DumpInv, DumpsListed, RowInv
  <2>7. ASSUME NEW q \in Runners, Own(q)' PROVE OwnInv(q)'
    <3>1. q # p /\ Own(q) /\ OwnInv(q) /\ rec'[q] = rec[q] /\ pc'[q] = pc[q] /\ rec[q] \in Records
      BY <1>0, <1>o, <2>2, <2>3, <2>4, <2>7 DEF DumpInv
    <3>2. rec[q] = rec[p] => rec[q] \in removed
      BY <2>1, <2>5, <3>1 DEF OwnInv, RowInv
    <3>3. status'[rec[q]] # "completed"
      BY <1>0, <2>1, <3>1 DEF OwnInv
    <3>4. rec[q] \in Rows' \cup removed'
      BY <2>1, <2>4, <3>1, <3>2 DEF OwnInv
    <3>5. \A r \in Runners : pc'[r] = "row" => pc[r] = "row" /\ rec'[r] = rec[r]
      BY <1>0, <2>2, <2>3
    <3> QED BY <2>1, <3>1, <3>3, <3>4, <3>5 DEF OwnInv
  <2>8. \A q, r \in Runners : Own(q)' /\ Own(r)' /\ rec'[q] = rec'[r] => q = r
    BY <1>0, <2>2, <2>3, <2>4 DEF DumpInv
  <2>9. ASSUME NEW q \in Procs, pc'[q] = "row" PROVE RowInv(q)'
    BY <2>1, <2>2, <2>3, <2>9 DEF DumpInv, RowInv
  <2> QED BY <2>6, <2>7, <2>8, <2>9 DEF DumpInv
<1> QED BY <1>1, <1>2, <1>3, <1>4, <1>5, <1>6, <1>7, DumpCases

\* No process owns a row or deletes one at the start.
LEMMA InitDump == Init => DumpInv
BY DEF Init, DumpInv, DumpsListed, Own, Procs, Runners

\* A dump on the storage is listed, unless an admin deleted its row while it ran:
\* no cleanup of another replica or request takes a row whose dump is still to
\* come, and none deletes a row before its dump.
THEOREM DumpsSafe == Spec => []DumpsListed
<1>1. TypeInv /\ DumpInv /\ [Next]_vars => DumpInv'
  BY DumpStep
<1>2. DumpInv => DumpsListed
  BY DEF DumpInv
<1> QED BY <1>1, <1>2, InitDump, LockAlways, PTL DEF Spec

-----------------------------------------------------------------------------
(* Retention                                                               *)

Kept == objects \cup removed
Above(i) == {j \in Kept : j > i}
Enough(i) == Cardinality(Above(i)) >= Retention

\* While nobody edits retention_count: a cleanup has listed no dump that is among
\* the newest, and a completed row without its dump is not either.
KeepInv ==
    /\ edits = 0 /\ retention = Retention
    /\ \A p \in Procs : keep[p] = Retention
    /\ \A q \in Runners : \A i \in todo[q] : Enough(i)
    /\ \A j \in Records : status[j] = "completed" /\ j \notin Kept => Enough(j)

\* A set of row ids with a subset of enough of them has enough of them.
LEMMA EnoughMore ==
    ASSUME NEW S \in SUBSET Records, NEW T \in SUBSET S, Cardinality(T) >= Retention
    PROVE  Cardinality(S) >= Retention
<1>1. IsFiniteSet(Records)
  BY FS_Interval, ConstantsAssumption DEF Records
<1>2. IsFiniteSet(S)
  BY <1>1, FS_Subset
<1>3. IsFiniteSet(T) /\ Cardinality(T) <= Cardinality(S)
  BY <1>2, FS_Subset
<1>4. Cardinality(S) \in Nat /\ Cardinality(T) \in Nat
  BY <1>2, <1>3, FS_CardinalityType
<1> QED BY <1>3, <1>4, ConstantsAssumption

\* More dumps, or one fewer of those that have enough above them, leave enough.
LEMMA EnoughStays ==
    ASSUME TypeInv, TypeInv', NEW i \in Records, Enough(i),
           \/ Kept \subseteq Kept'
           \/ \E m \in Records : Kept' = Kept \ {m} /\ Enough(m)
    PROVE  Enough(i)'
<1>0. Records \subseteq Int
  BY ConstantsAssumption DEF Records
<1>1. Kept \subseteq Records /\ Kept' \subseteq Records
  BY DEF Kept, TypeInv, TypeOK
<1>2. CASE Kept \subseteq Kept'
  <2>1. Above(i)' \in SUBSET Records /\ Above(i) \in SUBSET (Above(i)')
    BY <1>1, <1>2 DEF Above
  <2> QED BY <2>1, EnoughMore DEF Enough
<1>3. ASSUME NEW m \in Records, Kept' = Kept \ {m}, Enough(m) PROVE Enough(i)'
  <2>1. CASE m > i
    <3>1. ASSUME NEW x \in Above(m) PROVE x \in Kept' /\ x > i
      <4>1. x \in Kept /\ x \in Int /\ m \in Int /\ i \in Int /\ x > m
        BY <1>0, <1>1 DEF Above
      <4>2. x > i /\ x # m
        BY <2>1, <4>1
      <4> QED BY <1>3, <4>1, <4>2
    <3>2. Above(i)' \in SUBSET Records /\ Above(m) \in SUBSET (Above(i)')
      BY <1>1, <3>1 DEF Above
    <3> QED BY <1>3, <3>2, EnoughMore DEF Enough
  <2>2. CASE ~(m > i)
    <3>1. Above(i)' = Above(i)
      BY <1>3, <2>2 DEF Above
    <3> QED BY <3>1 DEF Enough
  <2> QED BY <2>1, <2>2
<1> QED BY <1>2, <1>3

\* What a cleanup lists has enough dumps above it: of the completed rows above it
\* each has its dump, or has enough above itself.
LEMMA BeyondEnough ==
    ASSUME TypeInv, KeepInv, NEW i \in Beyond(Retention)
    PROVE  i \in Records /\ Enough(i)
<1> DEFINE C == {j \in Completed : j > i}
<1>1. i \in Records /\ Cardinality(C) >= Retention
  BY DEF Beyond, Completed, ConfigRows, Rows
<1>2. Above(i) \in SUBSET Records
  BY DEF Above, Kept, TypeInv, TypeOK
<1>3. CASE C \subseteq Kept
  <2>1. C \in SUBSET Above(i)
    BY <1>3 DEF Above
  <2> HIDE DEF C
  <2> QED BY <1>1, <1>2, <2>1, EnoughMore DEF Enough
<1>4. ASSUME NEW j \in C, j \notin Kept PROVE Enough(i)
  <2>1. j \in Records /\ status[j] = "completed" /\ j > i
    BY DEF Completed, ConfigRows, Rows
  <2>2. Enough(j)
    BY <1>4, <2>1 DEF KeepInv
  <2>3. ASSUME NEW x \in Above(j) PROVE x \in Kept /\ x > i
    <3>1. Records \subseteq Int /\ Kept \subseteq Records
      BY ConstantsAssumption DEF Records, Kept, TypeInv, TypeOK
    <3>2. x \in Kept /\ x \in Int /\ j \in Int /\ i \in Int /\ x > j
      BY <1>1, <2>1, <3>1 DEF Above
    <3> QED BY <2>1, <3>2
  <2>4. Above(j) \in SUBSET Above(i)
    BY <2>3 DEF Above
  <2> QED BY <1>2, <2>2, <2>4, EnoughMore DEF Enough
<1> QED BY <1>1, <1>3, <1>4

\* The retention_count every process goes by, while nobody edits the config.
LEMMA KeepConstant ==
    ASSUME MaxEdits = 0, TypeInv, KeepInv, [Next]_vars
    PROVE  edits' = 0 /\ retention' = Retention /\ \A p \in Procs : keep'[p] = Retention
<1>1. ~UpdateConfig
  BY DEF UpdateConfig, KeepInv
<1>2. keep \in [Procs -> Nat \ {0}]
  BY DEF TypeInv, TypeOK
<1>3. CASE UNCHANGED vars
  BY <1>3 DEF vars, configVars, procVars, KeepInv
<1>4. ASSUME NEW w \in Workers, WorkerStep(w) PROVE /\ UNCHANGED <<edits, retention>>
                                                    /\ \A p \in Procs : keep'[p] \in {keep[p], retention}
  BY <1>2, <1>4 DEF WorkerStep, Scan, CheckDue, MarkStale, CheckError, InsertScheduled, configVars, procVars
<1>5. ASSUME NEW w \in Workers, Restart(w) PROVE UNCHANGED <<edits, retention, keep>>
  BY <1>5 DEF Restart, configVars
<1>6. ASSUME NEW t \in Triggers, TriggerStep(t) PROVE UNCHANGED <<edits, retention, keep>>
  BY <1>6 DEF TriggerStep, TriggerStale, TriggerCount, TriggerInsert, configVars, procVars
<1>7. ASSUME NEW p \in Runners, RunStep(p) PROVE /\ UNCHANGED <<edits, retention>>
                                                 /\ \A q \in Procs : keep'[q] \in {keep[q], retention}
  BY <1>2, <1>7 DEF RunStep, Lock, Unlock, Dump, MarkCompleted, MarkFailed, ListOld, configVars, procVars
<1>8. ASSUME NEW p \in Procs, DeleteStep(p) PROVE UNCHANGED <<edits, retention, keep>>
  BY <1>8 DEF DeleteStep, DeleteFile, DeleteRow, DeletesDone, configVars, procVars
<1>9. Other => UNCHANGED <<edits, retention, keep>>
  BY <1>1 DEF Other, AdminRequest, DeleteConfig, Tick, Expire, CloseConn, configVars, procVars
<1> QED BY <1>3, <1>4, <1>5, <1>6, <1>7, <1>8, <1>9, NextCases DEF KeepInv

\* Every step keeps the newest dumps, as long as retention_count is not edited.
LEMMA KeepStep ==
    ASSUME MaxEdits = 0, TypeInv, LockInv, DumpInv, KeepInv, [Next]_vars
    PROVE  KeepInv'
<1>0. TypeInv' /\ Runners \subseteq Procs /\ todo \in [Procs -> SUBSET Records]
  BY TypeStep DEF Procs, TypeInv, TypeOK
<1>t. \A q \in Runners : todo[q] \subseteq Records
  BY <1>0
<1>k. edits' = 0 /\ retention' = Retention /\ \A p \in Procs : keep'[p] = Retention
  BY KeepConstant
\* It is enough to look at what is listed and at completed rows.
<1> DEFINE Goal == /\ \A q \in Runners : \A i \in todo'[q] : Enough(i)'
                   /\ \A j \in Records : status'[j] = "completed" /\ j \notin Kept' => Enough(j)'
<1>s. SUFFICES Goal
  BY <1>k DEF KeepInv
<1>1. ASSUME Kept \subseteq Kept', \A q \in Runners : todo'[q] \subseteq todo[q],
             \A j \in Records : status'[j] = "completed" => (status[j] = "completed" \/ j \in Kept')
      PROVE  Goal
  <2>1. ASSUME NEW q \in Runners, NEW i \in todo'[q] PROVE Enough(i)'
    <3>1. i \in Records /\ Enough(i)
      BY <1>t, <1>1 DEF KeepInv
    <3> QED BY <1>0, <1>1, <3>1, EnoughStays
  <2>2. ASSUME NEW j \in Records, status'[j] = "completed", j \notin Kept' PROVE Enough(j)'
    <3>1. Enough(j)
      BY <1>1, <2>2 DEF KeepInv
    <3> QED BY <1>0, <1>1, <3>1, EnoughStays
  <2> QED BY <2>1, <2>2
<1>2. CASE Quiet
  BY <1>1, <1>2 DEF Quiet, StatusKept, Kept
<1>3. ASSUME NEW p \in Runners, Inserted(p) PROVE Goal
  <2>1. UNCHANGED <<objects, removed, todo>> /\ status' = [status EXCEPT ![last + 1] = "running"]
    BY <1>3 DEF Inserted, NewRow
  <2>2. \A j \in Records : status'[j] = "completed" => status[j] = "completed"
    BY <2>1 DEF TypeInv, TypeOK
  <2> QED BY <1>1, <2>1, <2>2 DEF Kept
<1>4. ASSUME NEW p \in Runners, Dump(p) PROVE Goal
  <2>1. UNCHANGED <<status, removed, todo>> /\ objects \subseteq objects'
    BY <1>4 DEF Dump, rowVars, procVars
  <2> QED BY <1>1, <2>1 DEF Kept
<1>5. ASSUME NEW p \in Runners, Finished(p) PROVE Goal
  <2>1. /\ UNCHANGED <<objects, removed, todo>> /\ pc[p] = "done"
        /\ status' = [status EXCEPT ![rec[p]] = "completed"]
    BY <1>5 DEF Finished, SetStatus
  <2>2. Own(p) /\ OwnInv(p)
    BY <2>1 DEF Own, DumpInv
  <2>3. rec[p] \in Kept'
    BY <2>1, <2>2 DEF OwnInv, Kept
  <2>4. \A j \in Records : status'[j] = "completed" => (status[j] = "completed" \/ j \in Kept')
    BY <2>1, <2>3 DEF TypeInv, TypeOK
  <2> QED BY <1>1, <2>1, <2>4 DEF Kept
<1>6. ASSUME NEW p \in Runners, ListedOld(p) PROVE Goal
  <2>1. UNCHANGED <<status, objects, removed>> /\ p \in Procs
    BY <1>0, <1>6 DEF ListedOld
  <2>2. PICK n : todo' = [todo EXCEPT ![p] = Beyond(n)] /\ n = keep'[p]
    BY <1>6 DEF ListedOld
  <2>3. n = Retention
    BY <1>k, <2>1, <2>2
  <2>4. \A i \in Records : Enough(i)' <=> Enough(i)
    BY <2>1 DEF Enough, Above, Kept
  <2>5. ASSUME NEW q \in Runners, NEW i \in todo'[q] PROVE Enough(i)'
    <3>1. CASE q = p
      <4>1. i \in Beyond(Retention)
        BY <1>0, <2>2, <2>3, <2>5, <3>1
      <4> QED BY <2>4, <4>1, BeyondEnough
    <3>2. CASE q # p
      <4>1. i \in todo[q]
        BY <1>0, <2>2, <2>5, <3>2
      <4>2. i \in Records /\ Enough(i)
        BY <1>t, <4>1 DEF KeepInv
      <4> QED BY <2>4, <4>2
    <3> QED BY <3>1, <3>2
  <2>6. \A j \in Records : status'[j] = "completed" /\ j \notin Kept' => Enough(j)'
    BY <2>1, <2>4 DEF KeepInv, Kept
  <2> QED BY <2>5, <2>6
<1>7. ASSUME NEW p \in Procs, RowDeleted(p) PROVE Goal
  <2>1. /\ UNCHANGED <<objects, removed, todo>>
        /\ status' = [status EXCEPT ![rec[p]] = "deleted"]
    BY <1>7 DEF RowDeleted, SetStatus
  <2>2. \A j \in Records : status'[j] = "completed" => status[j] = "completed"
    BY <2>1 DEF TypeInv, TypeOK
  <2> QED BY <1>1, <2>1, <2>2 DEF Kept
<1>8. ASSUME NEW p \in Procs, DeleteFile(p) PROVE Goal
  <2>1. UNCHANGED status
    BY <1>8 DEF DeleteFile, rowVars
  <2>2. PICK m \in todo[p] :
          /\ todo' = [todo EXCEPT ![p] = todo[p] \ {m}]
          /\ \/ /\ objects' = objects \ {m}
                /\ removed' = IF p \in Admins THEN removed \cup {m} ELSE removed
             \/ UNCHANGED <<objects, removed>>
    BY <1>8 DEF DeleteFile
  <2>3. \A q \in Procs : todo'[q] \subseteq todo[q]
    BY <1>0, <2>2
  <2>4. CASE Kept \subseteq Kept'
    BY <1>0, <1>1, <2>1, <2>3, <2>4
  <2>5. CASE ~(Kept \subseteq Kept')
    <3>1. p \notin Admins /\ objects' = objects \ {m} /\ removed' = removed /\ m \notin removed
      BY <2>2, <2>5 DEF Kept
    <3>2. p \in Runners /\ m \in Records /\ Enough(m)
      <4>1. p \in Runners
        BY <3>1 DEF Procs
      <4> QED BY <1>t, <4>1 DEF KeepInv
    <3>3. Kept' = Kept \ {m}
      BY <3>1 DEF Kept
    <3>4. \A i \in Records : Enough(i) => Enough(i)'
      BY <1>0, <3>2, <3>3, EnoughStays
    <3>5. ASSUME NEW q \in Runners, NEW i \in todo'[q] PROVE Enough(i)'
      <4>1. i \in Records /\ Enough(i)
        BY <1>0, <1>t, <2>3 DEF KeepInv
      <4> QED BY <3>4, <4>1
    <3>6. ASSUME NEW j \in Records, status'[j] = "completed", j \notin Kept' PROVE Enough(j)'
      <4>1. Enough(j)
        BY <2>1, <3>2, <3>3, <3>6 DEF KeepInv
      <4> QED BY <3>4, <4>1
    <3> QED BY <3>5, <3>6
  <2> QED BY <2>4, <2>5
<1> HIDE DEF Goal
<1> QED BY <1>2, <1>3, <1>4, <1>5, <1>6, <1>7, <1>8, DumpCases

\* A cleanup leaves the newest retention_count dumps, apart from those an admin
\* deleted, however many replicas and requests clean up at once and whichever of
\* their deletes fail half-way, while nobody edits retention_count.
THEOREM RetentionSafe ==
    ASSUME MaxEdits = 0
    PROVE  Spec => RetentionKept
<1>1. Init => KeepInv
  BY DEF Init, KeepInv, Runners, Procs
<1>2. TypeInv /\ DumpInv /\ [Next]_vars => DumpInv'
  BY DumpStep
<1>3. TypeInv /\ LockInv /\ DumpInv /\ KeepInv /\ [Next]_vars => KeepInv'
  BY KeepStep
<1>4. TypeInv /\ KeepInv /\ [Next]_vars =>
        [\A p \in Runners :
           pc[p] = "clean" /\ pc'[p] = "row" =>
             Cardinality({j \in objects \cup removed : j > rec'[p]}) >= keep[p]]_vars
  <2> SUFFICES ASSUME TypeInv, KeepInv, [Next]_vars, NEW p \in Runners,
                      pc[p] = "clean", pc'[p] = "row"
               PROVE  Cardinality({j \in objects \cup removed : j > rec'[p]}) >= keep[p]
    OBVIOUS
  <2>1. p \in Procs /\ pc \in [Procs -> PC] /\ rec \in [Procs -> Records \cup {0}]
    BY DEF Procs, TypeInv, TypeOK
  <2>2. ASSUME NEW q \in Procs, NEW l, Goto(q, l), l # "row" PROVE FALSE
    BY <2>1, <2>2 DEF Goto
  <2>3. CASE DeleteFile(p)
    <3>1. rec'[p] \in todo[p]
      BY <2>1, <2>3 DEF DeleteFile
    <3>2. Enough(rec'[p])
      BY <3>1 DEF KeepInv
    <3> QED BY <2>1, <3>2 DEF Enough, Above, Kept, KeepInv
  <2>4. ASSUME NEW q \in Procs, DeleteFile(q), q # p PROVE FALSE
    BY <2>1, <2>4 DEF DeleteFile, Goto
  <2>5. ~Quiet
    BY <2>1 DEF Quiet
  <2>6. ASSUME NEW q \in Runners, Inserted(q) \/ Dump(q) \/ Finished(q) \/ ListedOld(q) PROVE FALSE
    <3>1. q \in Procs
      BY DEF Procs
    <3> QED BY <2>2, <2>6, <3>1 DEF Inserted, Dump, Finished, ListedOld
  <2>7. ASSUME NEW q \in Procs, RowDeleted(q) PROVE FALSE
    BY <2>2, <2>7 DEF RowDeleted
  <2> QED BY <2>3, <2>4, <2>5, <2>6, <2>7, DumpCases
<1> QED BY <1>1, <1>2, <1>3, <1>4, InitDump, LockAlways, PTL DEF Spec, RetentionKept
=============================================================================
