--------------------------- MODULE PwtCli_proofs ----------------------------
(***************************************************************************)
(* What the reports of the program are worth: whatever other processes do, *)
(* a loop over a SELECT reads one state of its table, and every result has *)
(* a message; for one user a list and an export are complete.              *)
(***************************************************************************)
EXTENDS PwtCli, OneUser_proofs

\* Where the commands of PwtSession are, and the two reports.
Moves == {"idle"} \cup Lookups \cup Creates \cup Selects \cup Writes \cup Pauses
Scanning == {"listRows", "xmlTaskRows", "xmlRecordRows"}
Reading == Scanning \cup {"list", "export", "copyTasks", "copyRecords",
                          "xmlTasks", "xmlRecords"}

AnyCommand == Command \cup ReportCommand \cup {NoCommand}

\* The variables of the processes have their types.
ProcTypes ==
    /\ lock \in [Proc -> {"none", "shared", "reserved", "pending"}]
    /\ pc \in [Proc -> Moves \cup Reading]
    /\ cmd \in [Proc -> AnyCommand]
    /\ recordId \in [Proc -> RowId \cup {0}]
    /\ DOMAIN reply = Proc

TableTypes == DOMAIN tasks \subseteq RowId /\ DOMAIN records \subseteq RowId

\* The statement at a location is one of the command c.
Belongs(at, c) ==
    /\ at = "idle" <=> c = NoCommand
    /\ at = "lookup" => c.op \in {"add", "upd", "del", "start", "copy"}
    /\ at = "addInsert" => c.op = "add"
    /\ at = "updUpdate" => c.op = "upd"
    /\ at \in {"delTask", "delRecords"} => c.op = "del"
    /\ at \in {"startSelect", "startEnd", "startInsert"} \cup Pauses => c.op = "start"
    /\ at \in {"stopSelect", "stopEnd"} => c.op = "stop"
    /\ at = "statusSelect" => c.op = "status"
    /\ at \in {"lookupNew", "copyInsert", "copyFetch", "copyRecord"} => c.op = "copy"
    /\ at \in {"list", "listRows"} => c.op = "list"
    /\ at \in Reading \ {"list", "listRows"} => c.op = "export"

\* A report holds SHARED while it is inside a loop, and otherwise no lock; and
\* a command begins with recordId 0.
Locked(p) ==
    /\ pc[p] \in Scanning => lock[p] = "shared"
    /\ pc[p] \in {"idle"} \cup (Reading \ Scanning) => lock[p] = "none"
    /\ pc[p] \in {"idle"} \cup Creates \cup (Reading \ Scanning) => recordId[p] = 0

ProcInv == ProcTypes /\ TableTypes /\ \A p \in Proc : Belongs(pc[p], cmd[p]) /\ Locked(p)

-----------------------------------------------------------------------------
(* One step of process p. *)

Alike(q) ==
    /\ pc'[q] = pc[q] /\ cmd'[q] = cmd[q]
    /\ lock'[q] = lock[q] /\ recordId'[q] = recordId[q]

\* A result that main has a message for, or a failure.
Answered(op, code) ==
    <<op, code>> \in Named \/ code \in {"CRASHED", "DATABASE_ERROR", "FILESYSTEM_ERROR"}

Moved(p) ==
    /\ ProcTypes' /\ TableTypes'
    /\ Belongs(pc[p], cmd[p])' /\ Locked(p)'
    /\ \A q \in Proc \ {p} : Alike(q)
    /\ UNCHANGED <<tasks, records>> \/ Alone(p)
    /\ pc[p] # "idle" /\ pc'[p] = "idle" => Answered(cmd[p].op, reply'[p].code)

(* What p does, the others keep.                                           *)
LEMMA MovedKeeps ==
    ASSUME ProcInv, NEW p \in Proc, Moved(p)
    PROVE  ProcInv'
<1>1. ASSUME NEW q \in Proc \ {p} PROVE Belongs(pc[q], cmd[q])' /\ Locked(q)'
  BY <1>1 DEF ProcInv, Moved, Alike, Locked
<1> QED
  BY <1>1 DEF ProcInv, Moved

(* Leaving a method.                                                       *)
LEMMA Leaves ==
    ASSUME ProcInv, NEW p \in Proc, NEW code, NEW shown, ReturnShowing(p, code, shown),
           Answered(cmd[p].op, code), UNCHANGED <<tasks, records>> \/ Alone(p), TableTypes'
    PROVE  Moved(p) /\ pc'[p] = "idle"
<1>1. /\ pc'[p] = "idle" /\ cmd'[p] = NoCommand /\ lock'[p] = "none" /\ recordId'[p] = 0
      /\ reply'[p].code = code
      /\ \A q \in Proc \ {p} : Alike(q)
  BY DEF ReturnShowing, Hold, ProcInv, ProcTypes, Alike
<1>2. ProcTypes'
  BY DEF ReturnShowing, Hold, ProcInv, ProcTypes, Moves, AnyCommand
<1>3. Belongs(pc[p], cmd[p])' /\ Locked(p)'
  BY <1>1 DEF Belongs, Locked, Pauses, Reading, Scanning
<1> QED
  BY <1>1, <1>2, <1>3 DEF Moved

(* Going on to another statement.                                          *)
LEMMA Goes ==
    ASSUME ProcInv, NEW p \in Proc, NEW at \in (Moves \ {"idle"}) \cup Reading,
           NEW l \in {"none", "shared", "reserved", "pending"}, NEW k \in RowId \cup {0},
           Jump(p, at), Belongs(at, cmd[p]), Hold(p, l),
           recordId' = [recordId EXCEPT ![p] = k],
           at \in Scanning => l = "shared",
           at \in Reading \ Scanning => l = "none",
           at \in Creates \cup (Reading \ Scanning) => k = 0,
           UNCHANGED <<tasks, records>> \/ Alone(p), TableTypes'
    PROVE  Moved(p) /\ pc'[p] = at
<1>1. /\ pc'[p] = at /\ cmd' = cmd /\ lock'[p] = l /\ recordId'[p] = k
      /\ \A q \in Proc \ {p} : Alike(q)
  BY DEF Jump, Hold, ProcInv, ProcTypes, Alike
<1>2. ProcTypes'
  BY DEF Jump, Hold, ProcInv, ProcTypes
<1>3. Belongs(pc[p], cmd[p])' /\ Locked(p)'
  BY <1>1 DEF Locked, Moves, Lookups, Creates, Selects, Writes, Pauses, Reading, Scanning
<1>4. at # "idle"
  BY DEF Reading, Scanning
<1> QED
  BY <1>1, <1>2, <1>3, <1>4 DEF Moved

(* Staying at a statement.                                                 *)
LEMMA Stays ==
    ASSUME ProcInv, NEW p \in Proc, NEW l \in {"none", "shared", "reserved", "pending"},
           NEW k \in RowId \cup {0},
           Hold(p, l), UNCHANGED <<tasks, records, pc, cmd, reply>>,
           recordId' = [recordId EXCEPT ![p] = k],
           pc[p] \in Moves \ {"idle"},
           pc[p] \in Creates => k = 0
    PROVE  Moved(p) /\ pc'[p] = pc[p]
<1>1. /\ lock'[p] = l /\ recordId'[p] = k
      /\ \A q \in Proc \ {p} : Alike(q)
  BY DEF Hold, ProcInv, ProcTypes, Alike
<1>2. ProcTypes' /\ TableTypes'
  BY DEF Hold, ProcInv, ProcTypes, TableTypes
<1>3. Belongs(pc[p], cmd[p])' /\ Locked(p)'
  BY <1>1 DEF ProcInv, Locked, Moves, Lookups, Creates, Selects, Writes, Pauses,
     Reading, Scanning
<1> QED
  BY <1>1, <1>2, <1>3 DEF Moved

\* A step of the commands of PwtSession neither is nor comes inside a report.
Worked(p) ==
    /\ Moved(p)
    /\ pc[p] \notin Reading \cup {"idle"}
    /\ pc'[p] \notin Reading \ {"list", "export"}

(* What a step that does not touch a lock or a cursor does to them.         *)
LEMMA Kept ==
    ASSUME ProcInv, NEW p \in Proc
    PROVE  /\ UNCHANGED lock <=> Hold(p, lock[p])
           /\ UNCHANGED recordId <=> recordId' = [recordId EXCEPT ![p] = recordId[p]]
           /\ lock[p] \in {"none", "shared", "reserved", "pending"}
           /\ recordId[p] \in RowId \cup {0}
           /\ pc[p] \in Moves \cup Reading
  BY DEF ProcInv, ProcTypes, Hold

(* Taking a lock, opening a SELECT, and CREATE TABLE.                      *)
LEMMA LocksWork ==
    ASSUME ProcInv, NEW p \in Proc,
           Reserve(p) \/ Pend(p) \/ CreateCheck(p) \/ GetTaskId(p) \/ CopyOpen(p)
    PROVE  Worked(p)
<1>1. /\ UNCHANGED <<tasks, records, pc, cmd, reply, recordId>>
      /\ \E l \in {"none", "shared", "reserved", "pending"} : Hold(p, l)
  BY DEF Reserve, Pend, CreateCheck, GetTaskId, CopyOpen, OpensSelect, file, local
<1>2. pc[p] \notin Reading \cup {"idle"}
  <2>1. CASE Pend(p)
    BY <2>1 DEF Pend, ProcInv, Locked, Reading
  <2>2. CASE ~Pend(p)
    BY <2>2 DEF Reserve, CreateCheck, GetTaskId, CopyOpen, OpensSelect, Writes, Creates, Lookups,
       Reading, Scanning
  <2> QED
    BY <2>1, <2>2
<1>3. pc[p] \in Creates => recordId[p] = 0
  BY DEF ProcInv, Locked
<1>4. Moved(p) /\ pc'[p] = pc[p]
  BY <1>1, <1>2, <1>3, Kept, Stays
<1> QED
  BY <1>2, <1>4 DEF Worked

(* OpenDatabase going on to its second statement or to the method.          *)
LEMMA CreateWorks ==
    ASSUME ProcInv, NEW p \in Proc, CreateDone(p)
    PROVE  Worked(p)
<1> DEFINE at == IF pc[p] = "createTasks" THEN "createRecords" ELSE FirstStatement(cmd[p].op)
<1>1. /\ pc[p] \in Creates /\ Hold(p, "none") /\ Jump(p, at)
      /\ UNCHANGED <<tasks, records, recordId>>
  BY DEF CreateDone, local
<1>2. cmd[p] \in AnyCommand /\ cmd[p] # NoCommand
  BY <1>1 DEF ProcInv, ProcTypes, Belongs, Creates
<1>3. cmd[p].op \in {"add", "upd", "del", "start", "stop", "status", "copy", "list", "export"}
  BY <1>2 DEF AnyCommand, Command, ReportCommand
<1>4. /\ at \in {"createRecords", "lookupNew", "stopSelect", "statusSelect", "lookup",
                 "list", "export"}
      /\ Belongs(at, cmd[p])
  BY <1>2, <1>3 DEF FirstStatement, Belongs, Pauses, Reading, Scanning
<1>5. recordId[p] = 0 /\ TableTypes'
  BY <1>1 DEF ProcInv, Locked, TableTypes
<1>6. at \in (Moves \ {"idle"}) \cup Reading /\ at \notin Scanning
  BY <1>4 DEF Moves, Creates, Lookups, Selects, Reading, Scanning
<1>7. /\ recordId' = [recordId EXCEPT ![p] = 0]
      /\ 0 \in RowId \cup {0} /\ "none" \in {"none", "shared", "reserved", "pending"}
  BY <1>1, <1>5, Kept
<1> HIDE DEF at
<1>8. Moved(p) /\ pc'[p] = at
  BY <1>1, <1>4, <1>5, <1>6, <1>7, Goes
<1> QED
  BY <1>1, <1>4, <1>8 DEF Worked, Creates, Reading, Scanning

(* A refusal, or a result that main knows.                                 *)
LEMMA ReturnWorks ==
    ASSUME ProcInv, NEW p \in Proc, NEW code, NEW shown, ReturnShowing(p, code, shown),
           pc[p] \notin Reading \cup {"idle"},
           Answered(cmd[p].op, code), UNCHANGED <<tasks, records>> \/ Alone(p), TableTypes'
    PROVE  Worked(p)
<1>1. Moved(p) /\ pc'[p] = "idle"
  BY Leaves
<1> QED
  BY <1>1 DEF Worked, Reading, Scanning

(* Going on to a statement of the same command.                            *)
LEMMA ProceedWorks ==
    ASSUME ProcInv, NEW p \in Proc, NEW at,
           NEW l \in {"none", "shared", "reserved", "pending"}, NEW k \in RowId \cup {0},
           Jump(p, at), Hold(p, l), recordId' = [recordId EXCEPT ![p] = k],
           pc[p] \notin Reading \cup {"idle"},
           at \in {"lookup"} \cup Selects \cup Writes \cup Pauses, Belongs(at, cmd[p]),
           UNCHANGED <<tasks, records>> \/ Alone(p), TableTypes'
    PROVE  Worked(p)
<1>1. /\ at \in (Moves \ {"idle"}) \cup Reading
      /\ at \notin Creates \cup Reading
  BY DEF Moves, Creates, Lookups, Selects, Writes, Pauses, Reading, Scanning
<1>2. Moved(p) /\ pc'[p] = at
  BY <1>1, Goes DEF Reading
<1> QED
  BY <1>1, <1>2 DEF Worked

(* What the methods do with the result of GetTaskId.                       *)
LEMMA LookupWorks ==
    ASSUME ProcInv, NEW p \in Proc,
           \/ FindTask(p, "upd", "updUpdate") \/ FindTask(p, "del", "delTask")
           \/ FindTask(p, "start", "startSelect") \/ FindTask(p, "copy", "copyInsert")
           \/ FindNoTask(p, "lookup", "add", "addInsert")
           \/ FindNoTask(p, "lookupNew", "copy", "lookup")
    PROVE  Worked(p)
<1>1. /\ pc[p] \in Lookups /\ UNCHANGED <<tasks, records>> /\ TableTypes'
      /\ pc[p] \notin Reading \cup {"idle"}
  BY DEF FindTask, FindNoTask, LookedUp, Lookups, file, Reading, Scanning, ProcInv, TableTypes
<1>2. CASE Return(p, "TASK_NOT_FOUND") /\ cmd[p].op \in {"upd", "del", "start", "copy"}
  <2>1. Answered(cmd[p].op, "TASK_NOT_FOUND")
    BY <1>2 DEF Answered, Named
  <2> QED
    BY <1>1, <1>2, <2>1, ReturnWorks DEF Return
<1>3. CASE Return(p, "TASK_ALREADY_EXISTS") /\ cmd[p].op \in {"add", "copy"}
  <2>1. Answered(cmd[p].op, "TASK_ALREADY_EXISTS")
    BY <1>3 DEF Answered, Named, ExistsCases
  <2> QED
    BY <1>1, <1>3, <2>1, ReturnWorks DEF Return
<1>4. ASSUME NEW at \in {"lookup"} \cup Selects \cup Writes, Proceed(p, at),
             Belongs(at, cmd[p])
      PROVE  Worked(p)
  BY <1>1, <1>4, Kept, ProceedWorks DEF Proceed, local
<1>5. cmd[p] # NoCommand
  BY <1>1 DEF ProcInv, Belongs
<1>6. /\ cmd[p].op = "upd" => Belongs("updUpdate", cmd[p])
      /\ cmd[p].op = "del" => Belongs("delTask", cmd[p])
      /\ cmd[p].op = "start" => Belongs("startSelect", cmd[p])
      /\ cmd[p].op = "add" => Belongs("addInsert", cmd[p])
      /\ cmd[p].op = "copy" => Belongs("copyInsert", cmd[p]) /\ Belongs("lookup", cmd[p])
  BY <1>5 DEF Belongs, Pauses, Reading, Scanning
<1>7. ASSUME NEW op \in {"upd", "del", "start", "copy"},
             NEW at \in {"updUpdate", "delTask", "startSelect", "copyInsert"},
             cmd[p].op = op => Belongs(at, cmd[p]), FindTask(p, op, at)
      PROVE  Worked(p)
  BY <1>2, <1>4, <1>7 DEF FindTask, LookedUp, Selects, Writes
<1>8. ASSUME NEW op \in {"add", "copy"}, NEW from, NEW at \in {"addInsert", "lookup"},
             cmd[p].op = op => Belongs(at, cmd[p]), FindNoTask(p, from, op, at)
      PROVE  Worked(p)
  BY <1>3, <1>4, <1>8 DEF FindNoTask, LookedUp, Writes
<1> QED
  BY <1>6, <1>7, <1>8

(* The statements of AddTask, UpdTask and DelTask that write.              *)
LEMMA TaskWritesWork ==
    ASSUME ProcInv, NEW p \in Proc,
           AddInsert(p) \/ UpdUpdate(p) \/ DelTaskRow(p) \/ DelRecords(p)
    PROVE  Worked(p)
<1>1. /\ pc[p] \in {"addInsert", "updUpdate", "delTask", "delRecords"}
      /\ UNCHANGED <<tasks, records>> \/ Alone(p)
  BY DEF AddInsert, UpdUpdate, DelTaskRow, DelRecords, Commits, InsertRefused, WriteBusy
<1>2. TableTypes'
  BY DEF AddInsert, UpdUpdate, DelTaskRow, DelRecords, ProcInv, TableTypes, Insert, Retitle,
         Delete, Restrict
<1>3. pc[p] \notin Reading \cup {"idle"} /\ cmd[p] # NoCommand
  BY <1>1 DEF Reading, Scanning, ProcInv, Belongs
<1>4. CASE Return(p, "OK")
  <2>1. cmd[p].op \in {"add", "upd", "del"}
    BY <1>1 DEF ProcInv, Belongs
  <2>2. Answered(cmd[p].op, "OK")
    BY <2>1 DEF Answered, Named
  <2> QED
    BY <1>1, <1>2, <1>3, <1>4, <2>2, ReturnWorks DEF Return
<1>5. CASE DelTaskRow(p)
  <2>1. Belongs("delRecords", cmd[p])
    BY <1>3, <1>5 DEF DelTaskRow, Commits, WriteBusy, ProcInv, Belongs, Pauses, Reading,
       Scanning
  <2> QED
    BY <1>1, <1>2, <1>3, <1>5, <2>1, Kept, ProceedWorks
    DEF DelTaskRow, Proceed, local, Writes
<1> QED
  BY <1>4, <1>5 DEF AddInsert, UpdUpdate, DelRecords

(* StartTask, StopTask and Status.                                         *)
LEMMA RunningWorks ==
    ASSUME ProcInv, NEW p \in Proc,
           \/ \E at \in {"startSelect", "stopSelect", "statusSelect"} : FindOpen(p, at)
           \/ StartRow(p) \/ StartEnd(p) \/ StartFinish(p) \/ StartTime(p) \/ StartInsert(p)
           \/ StopRow(p) \/ StopEnd(p) \/ StatusRow(p)
    PROVE  Worked(p)
<1>1. CASE \E at \in {"startSelect", "stopSelect", "statusSelect"} : FindOpen(p, at)
  <2>1. PICK k \in RowId \cup {0} : recordId' = [recordId EXCEPT ![p] = k]
    BY <1>1 DEF FindOpen
  <2>2. /\ pc[p] \in {"startSelect", "stopSelect", "statusSelect"} /\ Hold(p, "shared")
        /\ UNCHANGED <<tasks, records, pc, cmd, reply>>
    BY <1>1 DEF FindOpen, OpensSelect, file
  <2>3. pc[p] \notin Reading \cup {"idle"} \cup Creates
    BY <2>2 DEF Reading, Scanning, Creates
  <2>4. Moved(p) /\ pc'[p] = pc[p]
    BY <2>1, <2>2, <2>3, Kept, Stays
  <2> QED
    BY <2>3, <2>4 DEF Worked
<1>2. CASE ~ \E at \in {"startSelect", "stopSelect", "statusSelect"} : FindOpen(p, at)
  <2>1. /\ pc[p] \in {"startSelect", "startEnd", "startFinish", "startTime", "startInsert",
                     "stopSelect", "stopEnd", "statusSelect"}
        /\ UNCHANGED <<tasks, records>> \/ Alone(p)
    BY <1>2 DEF StartRow, StartEnd, StartFinish, StartTime, StartInsert, StopRow, StopEnd, StatusRow, file, HasRow,
       NoRow, SelectBusy, Commits, InsertRefused, WriteBusy
  <2>2. TableTypes'
    BY <1>2 DEF StartRow, StartEnd, StartFinish, StartTime, StartInsert, StopRow, StopEnd,
       StatusRow, file, ProcInv,
       TableTypes, Insert, CloseRecord
  <2>3. pc[p] \notin Reading \cup {"idle"} /\ cmd[p] # NoCommand
    BY <2>1 DEF Reading, Scanning, ProcInv, Belongs
  <2>4. ASSUME NEW code, NEW shown, ReturnShowing(p, code, shown),
               \/ code = "OK" /\ pc[p] \in {"startInsert", "stopEnd"}
               \/ code = "ALREADY_RUNNING" /\ pc[p] \in {"startSelect", "statusSelect"}
               \/ code = "NOTHING_RUNNING" /\ pc[p] \in {"stopSelect", "statusSelect"}
        PROVE  Worked(p)
    <3>1. /\ pc[p] \in {"startInsert", "startSelect"} => cmd[p].op = "start"
          /\ pc[p] \in {"stopEnd", "stopSelect"} => cmd[p].op = "stop"
          /\ pc[p] = "statusSelect" => cmd[p].op = "status"
      BY DEF ProcInv, Belongs
    <3>2. Answered(cmd[p].op, code)
      BY <2>4, <3>1 DEF Answered, Named
    <3> QED
      BY <2>1, <2>2, <2>3, <2>4, <3>2, ReturnWorks
  <2>5. ASSUME NEW at, NEW l \in {"none", "shared", "reserved", "pending"},
               Jump(p, at), Hold(p, l), UNCHANGED recordId,
               \/ /\ at \in {"startEnd", "startFinish", "startTime", "startInsert"}
                  /\ pc[p] \in {"startSelect", "startEnd", "startFinish", "startTime"}
               \/ at = "stopEnd" /\ pc[p] = "stopSelect"
        PROVE  Worked(p)
    <3>1. cmd[p].op = IF at = "stopEnd" THEN "stop" ELSE "start"
      BY <2>5 DEF ProcInv, Belongs, Pauses
    <3>2. Belongs(at, cmd[p])
      BY <2>3, <2>5, <3>1 DEF Belongs, Pauses, Reading, Scanning
    <3>3. at \in Writes \cup Pauses
      BY <2>5 DEF Writes, Pauses
    <3> QED
      BY <2>1, <2>2, <2>3, <2>5, <3>2, <3>3, Kept, ProceedWorks
  <2>6. CASE StartRow(p) \/ StopRow(p) \/ StatusRow(p)
    <3>1. ASSUME NEW at, ThenHolding(p, at),
                 \/ at = "startEnd" /\ pc[p] = "startSelect"
                 \/ at = "stopEnd" /\ pc[p] = "stopSelect"
          PROVE  Worked(p)
      BY <2>5, <3>1, Kept DEF ThenHolding
    <3>2. CASE Proceed(p, "startTime") /\ pc[p] = "startSelect"
      BY <2>5, <3>2 DEF Proceed, local
    <3> QED
      BY <2>4, <2>6, <3>1, <3>2 DEF StartRow, StopRow, StatusRow, HasRow, NoRow, SelectBusy, Return
  <2>7. CASE StartEnd(p) \/ StartFinish(p) \/ StartTime(p)
    <3>1. CASE StartEnd(p)
      BY <2>5, <3>1 DEF StartEnd, Commits, WriteBusy, local
    <3>2. CASE StartFinish(p)
      BY <2>5, <3>2 DEF StartFinish, Proceed, local
    <3>3. CASE StartTime(p)
      BY <2>5, <3>3, Kept DEF StartTime
    <3> QED
      BY <2>7, <3>1, <3>2, <3>3
  <2>8. CASE StartInsert(p) \/ StopEnd(p)
    BY <2>4, <2>8 DEF StartInsert, StopEnd, Commits, WriteBusy, InsertRefused, Return
  <2> QED
    BY <1>2, <2>6, <2>7, <2>8
<1> QED
  BY <1>1, <1>2

(* The statements of CopyTask, and sqlite3_prepare.                        *)
LEMMA CopyWorks ==
    ASSUME ProcInv, NEW p \in Proc,
           CopyInsert(p) \/ CopyFetch(p) \/ CopyRecord(p)
    PROVE  Worked(p)
<1>1. /\ pc[p] \in {"copyInsert", "copyFetch", "copyRecord"}
      /\ UNCHANGED <<tasks, records>> \/ Alone(p)
  BY DEF CopyInsert, CopyFetch, CopyRecord, Commits, InsertRefused, WriteBusy, SelectBusy, file
<1>2. TableTypes'
  BY DEF CopyInsert, CopyFetch, CopyRecord, file, ProcInv, TableTypes, Insert
<1>3. pc[p] \notin Reading \cup {"idle"} /\ cmd[p] # NoCommand /\ cmd[p].op = "copy"
  BY <1>1 DEF Reading, Scanning, ProcInv, Belongs
<1>4. Answered(cmd[p].op, "OK") /\ Answered(cmd[p].op, "DATABASE_ERROR")
  BY <1>3 DEF Answered, Named
<1>5. Belongs("copyFetch", cmd[p]) /\ Belongs("copyRecord", cmd[p])
  BY <1>3 DEF Belongs, Pauses, Reading, Scanning
<1>6. CASE Return(p, "OK") \/ Return(p, "DATABASE_ERROR")
  BY <1>1, <1>2, <1>3, <1>4, <1>6, ReturnWorks DEF Return
<1>7. ASSUME NEW at \in {"copyFetch", "copyRecord"}, Jump(p, at),
             NEW l \in {"none", "shared"}, Hold(p, l),
             NEW k \in RowId \cup {0}, recordId' = [recordId EXCEPT ![p] = k]
      PROVE  Worked(p)
  BY <1>1, <1>2, <1>3, <1>5, <1>7, ProceedWorks DEF Selects, Writes
<1>8. CASE CopyInsert(p) \/ CopyRecord(p)
  BY <1>6, <1>7, <1>8, Kept DEF CopyInsert, CopyRecord, local
<1>9. CASE CopyFetch(p)
  BY <1>6, <1>7, <1>9, Kept DEF CopyFetch
<1> QED
  BY <1>8, <1>9

(* Every step of the commands of PwtSession.                                *)
LEMMA StepWorks ==
    ASSUME ProcInv, NEW p \in Proc, Step(p)
    PROVE  Worked(p)
<1>1. CASE PrepareFails(p)
  <2>1. pc[p] \notin Reading \cup {"idle"} /\ UNCHANGED <<tasks, records>> /\ TableTypes'
    BY <1>1 DEF PrepareFails, Selects, Writes, Reading, Scanning, file, ProcInv, TableTypes
  <2>2. Answered(cmd[p].op, "DATABASE_ERROR")
    BY DEF Answered
  <2> QED
    BY <1>1, <2>1, <2>2, ReturnWorks DEF PrepareFails, Return
<1>2. CASE AddTask(p) \/ UpdTask(p) \/ DelTask(p)
  BY <1>2, LookupWorks, TaskWritesWork DEF AddTask, UpdTask, DelTask
<1>3. CASE StartTask(p) \/ StopTask(p) \/ Status(p)
  BY <1>3, LookupWorks, RunningWorks DEF StartTask, StopTask, Status
<1>4. CASE CopyTask(p)
  BY <1>4, LookupWorks, LocksWork, CopyWorks DEF CopyTask
<1> QED
  BY <1>1, <1>2, <1>3, <1>4, LocksWork, CreateWorks DEF Step

(* Killing a process, and a database that cannot be opened.                *)
LEMMA CrashMoves ==
    ASSUME ProcInv, NEW p \in Proc, Crash(p)
    PROVE  Moved(p) /\ pc'[p] = "idle" /\ reply'[p].code = "CRASHED"
<1>1. UNCHANGED <<tasks, records>> /\ TableTypes'
  BY DEF Crash, file, ProcInv, TableTypes
<1>2. Answered(cmd[p].op, "CRASHED")
  BY DEF Answered
<1>3. reply'[p].code = "CRASHED"
  BY DEF Crash, Return, ReturnShowing, ProcInv, ProcTypes
<1> QED
  BY <1>1, <1>2, <1>3, Leaves DEF Crash, Return

(* The user starting a command.                                            *)
LEMMA BeginMoves ==
    ASSUME ProcInv, NEW p \in Proc, NEW c \in Command \cup ReportCommand, Begin(p, c)
    PROVE  Moved(p) /\ pc'[p] = "createTasks" /\ pc[p] = "idle"
<1>1. /\ pc[p] = "idle" /\ pc'[p] = "createTasks" /\ cmd'[p] = c
      /\ UNCHANGED <<tasks, records, lock, recordId, reply>>
      /\ \A q \in Proc \ {p} : Alike(q)
  BY DEF Begin, file, local, ProcInv, ProcTypes, Alike
<1>2. ProcTypes' /\ TableTypes'
  BY <1>1 DEF Begin, ProcInv, ProcTypes, TableTypes, AnyCommand, Moves, Creates
<1>3. c # NoCommand
  BY DEF Command, ReportCommand, NoCommand
<1>4. Belongs(pc[p], cmd[p])' /\ Locked(p)'
  BY <1>1, <1>3 DEF ProcInv, Belongs, Locked, Pauses, Reading, Scanning
<1> QED
  BY <1>1, <1>2, <1>4 DEF Moved

-----------------------------------------------------------------------------
(* The loops over the rows of a SELECT. *)

\* What has been read, when the cursor is at n, are the rows among ids up to n.
ReadTo(n, read, table, ids) ==
    /\ \A k \in 1..n : /\ k \in DOMAIN read <=> k \in ids
                       /\ k \in ids => read[k] = table[k]
    /\ DOMAIN read \subseteq 1..n

AsRead(p, read, table, ids) == ReadTo(recordId[p], read, table, ids)

RowsOK(p) ==
    /\ rows[p] = [tasks |-> rows[p].tasks, records |-> rows[p].records]
    /\ pc[p] \notin Scanning \cup {"xmlRecords"} => rows[p] = Nothing
    /\ pc[p] \in {"xmlTaskRows", "xmlRecords"} => rows[p].records = <<>>
    /\ pc[p] = "listRows" =>
          /\ ReadFrom(p, rows[p].tasks, tasks)
          /\ cmd[p].all => AsRead(p, rows[p].tasks, tasks, DOMAIN tasks)
    /\ pc[p] = "xmlTaskRows" => AsRead(p, rows[p].tasks, tasks, DOMAIN tasks)
    /\ pc[p] = "xmlRecordRows" => AsRead(p, rows[p].records, records, DOMAIN records)

ReadInv == ProcInv /\ DOMAIN rows = Proc /\ \A p \in Proc : RowsOK(p)

(* Inside a loop of q no other process changes a table: its commit would    *)
(* need an EXCLUSIVE lock.                                                 *)
LEMMA OthersRead ==
    ASSUME ReadInv, NEW p \in Proc, Moved(p), NEW q \in Proc \ {p}, rows'[q] = rows[q]
    PROVE  RowsOK(q)'
<1>1. Alike(q)
  BY DEF Moved
<1>2. pc[q] \in Scanning => UNCHANGED <<tasks, records>>
  BY DEF Moved, ReadInv, ProcInv, Locked, Alone, Others
<1> QED
  BY <1>1, <1>2 DEF ReadInv, RowsOK, ReadFrom, AsRead, ReadTo, Alike, Scanning

(* A step that keeps what the others have read.                            *)
LEMMA ReadKept ==
    ASSUME ReadInv, NEW p \in Proc, Moved(p), DOMAIN rows' = Proc,
           \A q \in Proc \ {p} : rows'[q] = rows[q], RowsOK(p)'
    PROVE  ReadInv'
<1>1. ProcInv'
  BY MovedKeeps DEF ReadInv
<1> QED
  BY <1>1, OthersRead DEF ReadInv

(* What has read nothing, or has left.                                     *)
LEMMA NothingRead ==
    ASSUME ReadInv, NEW p \in Proc, rows'[p] = Nothing, pc'[p] \notin Scanning
    PROVE  RowsOK(p)'
  BY DEF RowsOK, Nothing, Scanning

(* The commands of PwtSession read nothing of a report.                    *)
LEMMA NextReads ==
    ASSUME ReadInv, Next,
           rows' = [p \in Proc |-> IF pc'[p] = "idle" THEN Nothing ELSE rows[p]]
    PROVE  ReadInv'
<1>1. ASSUME NEW p \in Proc, Moved(p), rows'[p] = Nothing, pc'[p] \notin Scanning
      PROVE  ReadInv'
  <2>1. ASSUME NEW q \in Proc \ {p} PROVE rows'[q] = rows[q]
    BY <1>1 DEF Moved, Alike, ReadInv, RowsOK, Scanning
  <2> QED
    BY <1>1, <2>1, NothingRead, ReadKept
<1>2. ASSUME NEW p \in Proc, Step(p) PROVE ReadInv'
  <2>1. Worked(p)
    BY <1>2, StepWorks DEF ReadInv
  <2>2. rows'[p] = Nothing /\ pc'[p] \notin Scanning
    BY <2>1 DEF Worked, ReadInv, RowsOK, Reading, Scanning
  <2> QED
    BY <1>1, <2>1, <2>2 DEF Worked
<1>3. ASSUME NEW p \in Proc, Crash(p) PROVE ReadInv'
  <2>1. Moved(p) /\ pc'[p] = "idle"
    BY <1>3, CrashMoves DEF ReadInv
  <2> QED
    BY <1>1, <2>1 DEF Scanning
<1>4. ASSUME NEW p \in Proc, NEW c \in Command, Begin(p, c) PROVE ReadInv'
  <2>1. Moved(p) /\ pc'[p] = "createTasks" /\ pc[p] = "idle"
    BY <1>4, BeginMoves DEF ReadInv
  <2>2. rows'[p] = Nothing
    BY <2>1 DEF ReadInv, RowsOK, Scanning
  <2> QED
    BY <1>1, <2>1, <2>2 DEF Scanning
<1>5. CASE Tick \/ Quiet
  <2>1. UNCHANGED <<tasks, records, lock, pc, cmd, recordId, reply>>
    BY <1>5 DEF Tick, Quiet, vars, file, local
  <2>2. ProcInv'
    BY <2>1 DEF ReadInv, ProcInv, ProcTypes, TableTypes, Locked
  <2>3. DOMAIN rows' = Proc
    OBVIOUS
  <2>4. ASSUME NEW p \in Proc PROVE RowsOK(p)'
    <3>1. rows'[p] = rows[p]
      BY <2>1 DEF ReadInv, RowsOK, Scanning
    <3> QED
      BY <2>1, <3>1 DEF ReadInv, RowsOK, ReadFrom, AsRead, ReadTo
  <2> QED
    BY <2>2, <2>3, <2>4 DEF ReadInv
<1> QED
  BY <1>2, <1>3, <1>4, <1>5 DEF Next

(* The next row extends what has been read, and skips none.                *)
LEMMA RowExtends ==
    ASSUME NEW p \in Proc, recordId[p] \in RowId \cup {0},
           NEW ids \in SUBSET RowId, NEW k \in ids, NextRow(p, ids, k),
           NEW read, NEW table, AsRead(p, read, table, ids)
    PROVE  ReadTo(k, Insert(read, k, table[k]), table, ids)
<1> DEFINE more == Insert(read, k, table[k])
           n == recordId[p]
<1>1. DOMAIN more = DOMAIN read \cup {k} /\ more[k] = table[k]
      /\ \A j \in DOMAIN read : j # k => more[j] = read[j]
  BY DEF Insert
<1>2. k \in RowId /\ k > n /\ \A j \in ids : j > n => k <= j
  BY RowAssumption DEF NextRow, IsFirst, RowId
<1>3. /\ DOMAIN read \subseteq 1..n
      /\ \A j \in 1..n : (j \in DOMAIN read <=> j \in ids) /\ (j \in ids => read[j] = table[j])
  BY DEF AsRead, ReadTo
<1>4. n \in Nat /\ k \in Nat
  BY <1>2 DEF RowId
<1> HIDE DEF more, n
<1>5. DOMAIN more \subseteq 1..k
  BY <1>1, <1>2, <1>3, <1>4 DEF RowId
<1>6. ASSUME NEW j \in 1..k
      PROVE  (j \in DOMAIN more <=> j \in ids) /\ (j \in ids => more[j] = table[j])
  <2>1. CASE j = k
    BY <1>1, <2>1
  <2>2. CASE j \in 1..n
    BY <1>1, <1>2, <1>3, <1>4, <2>2
  <2>3. CASE j > n /\ j # k
    <3>1. j \notin ids
      BY <1>2, <1>4, <1>6, <2>3
    <3>2. j \notin DOMAIN more
      BY <1>1, <1>3, <1>4, <1>6, <2>3
    <3> QED
      BY <3>1, <3>2
  <2> QED
    BY <1>4, <1>6, <2>1, <2>2, <2>3
<1> QED
  BY <1>5, <1>6 DEF more, ReadTo

(* The steps of a loop: its first, its next row.                           *)
LEMMA ScanReads ==
    ASSUME ReadInv, NEW p \in Proc,
           \/ ScanOpen(p, "list", "listRows")
           \/ ScanOpen(p, "xmlTasks", "xmlTaskRows")
           \/ ScanOpen(p, "xmlRecords", "xmlRecordRows")
           \/ ScanRow(p, "listRows", "tasks", tasks, Found(p))
           \/ ScanRow(p, "xmlTaskRows", "tasks", tasks, {DOMAIN tasks})
           \/ ScanRow(p, "xmlRecordRows", "records", records, {DOMAIN records})
    PROVE  ReadInv'
<1>0. ProcInv /\ UNCHANGED <<tasks, records>> /\ TableTypes'
  BY DEF ScanOpen, ScanRow, file, ReadInv, ProcInv, TableTypes
<1>1. ASSUME NEW at \in {"list", "xmlTasks", "xmlRecords"},
             NEW to \in Scanning, ScanOpen(p, at, to),
             at = "list" <=> to = "listRows",
             at = "xmlTasks" <=> to = "xmlTaskRows"
      PROVE  ReadInv'
  <2>1. /\ pc[p] = at /\ Hold(p, "shared") /\ Jump(p, to)
        /\ UNCHANGED <<tasks, records, recordId, rows>>
    BY <1>1 DEF ScanOpen, OpensSelect, file, local
  <2>2. recordId[p] = 0
    BY <2>1 DEF ReadInv, ProcInv, Locked, Reading, Scanning
  <2>3. Belongs(at, cmd[p])
    BY <2>1 DEF ReadInv, ProcInv
  <2>4. Belongs(to, cmd[p])
    BY <1>1, <2>3 DEF Belongs, Pauses, Reading, Scanning
  <2>5. /\ to \in Reading /\ to \notin Creates \cup (Reading \ Scanning)
        /\ to \in (Moves \ {"idle"}) \cup Reading
    BY <1>1 DEF Reading, Scanning, Creates
  <2>6. Moved(p) /\ pc'[p] = to
    BY <1>0, <2>1, <2>2, <2>4, <2>5, Kept, Goes
  <2>7. RowsOK(p)
    BY DEF ReadInv
  <2>8. DOMAIN <<>> = {}
    OBVIOUS
  <2>9. \A table, ids : AsRead(p, <<>>, table, ids)'
    BY <2>1, <2>2, <2>8 DEF AsRead, ReadTo
  <2>10. rows'[p].records = <<>> /\ (to # "xmlRecordRows" => rows'[p].tasks = <<>>)
    BY <1>1, <2>1, <2>7 DEF RowsOK, Nothing, Scanning
  <2>11. RowsOK(p)'
    BY <1>1, <2>1, <2>6, <2>7, <2>8, <2>9, <2>10 DEF RowsOK, ReadFrom, Scanning
  <2> QED
    BY <2>1, <2>6, <2>11, ReadKept DEF ReadInv
<1>2. ASSUME NEW at \in Scanning, NEW t, NEW table, NEW selections \in SUBSET SUBSET RowId,
             ScanRow(p, at, t, table, selections)
      PROVE  /\ Moved(p) /\ pc'[p] = at /\ pc[p] = at /\ cmd' = cmd
             /\ recordId[p] \in RowId \cup {0}
             /\ \E ids \in selections : \E k \in ids :
                   /\ NextRow(p, ids, k) /\ recordId'[p] = k
                   /\ rows' = [rows EXCEPT ![p][t] = Insert(@, k, table[k])]
  <2>1. PICK ids \in selections : \E k \in ids :
           /\ NextRow(p, ids, k)
           /\ rows' = [rows EXCEPT ![p][t] = Insert(@, k, table[k])]
           /\ recordId' = [recordId EXCEPT ![p] = k]
    BY <1>2 DEF ScanRow
  <2>1a. PICK k \in ids :
           /\ NextRow(p, ids, k)
           /\ rows' = [rows EXCEPT ![p][t] = Insert(@, k, table[k])]
           /\ recordId' = [recordId EXCEPT ![p] = k]
    BY <2>1
  <2>1b. k \in RowId \cup {0}
    OBVIOUS
  <2>2. pc[p] = at /\ Jump(p, at) /\ UNCHANGED <<lock, tasks, records>>
    BY <1>2 DEF ScanRow, file
  <2>3. Hold(p, "shared")
    <3>1. lock[p] = "shared"
      BY <2>2 DEF ReadInv, ProcInv, Locked
    <3> QED
      BY <1>0, <2>2, <3>1, Kept
  <2>4. Belongs(at, cmd[p])
    BY <2>2 DEF ReadInv, ProcInv
  <2>5. /\ at \in Reading /\ at \notin Creates \cup (Reading \ Scanning)
        /\ at \in (Moves \ {"idle"}) \cup Reading
    BY DEF Reading, Scanning, Creates
  <2>6. Moved(p) /\ pc'[p] = at
    BY <1>0, <2>1a, <2>1b, <2>2, <2>3, <2>4, <2>5, Goes
  <2>7. recordId'[p] = k /\ recordId[p] \in RowId \cup {0} /\ cmd' = cmd
    BY <1>0, <2>1a, <2>2 DEF ProcInv, ProcTypes, Jump
  <2> QED
    BY <2>1a, <2>2, <2>6, <2>7
<1>3. /\ RowsOK(p) /\ DOMAIN rows = Proc
      /\ rows[p] = [tasks |-> rows[p].tasks, records |-> rows[p].records]
  BY DEF ReadInv, RowsOK
<1>4. CASE ScanRow(p, "listRows", "tasks", tasks, Found(p))
  <2>1. /\ pc[p] = "listRows" /\ DOMAIN tasks \subseteq RowId
        /\ \A ids \in Found(p) : ids \subseteq DOMAIN tasks
        /\ cmd[p].all => Found(p) = {DOMAIN tasks}
    BY <1>4 DEF ScanRow, Found, ReadInv, ProcInv, TableTypes
  <2>2. Found(p) \in SUBSET SUBSET RowId
    BY <2>1
  <2>3. PICK ids \in Found(p) : \E k \in ids :
           /\ NextRow(p, ids, k) /\ recordId'[p] = k
           /\ rows' = [rows EXCEPT ![p]["tasks"] = Insert(@, k, tasks[k])]
    BY <1>2, <1>4, <2>2 DEF Scanning
  <2>4. PICK k \in ids :
           /\ NextRow(p, ids, k) /\ recordId'[p] = k
           /\ rows' = [rows EXCEPT ![p]["tasks"] = Insert(@, k, tasks[k])]
    BY <2>3
  <2>5. Moved(p) /\ pc'[p] = "listRows" /\ cmd' = cmd /\ recordId[p] \in RowId \cup {0}
    BY <1>2, <1>4, <2>2 DEF Scanning
  <2>6. DOMAIN rows' = Proc /\ \A q \in Proc \ {p} : rows'[q] = rows[q]
    BY <1>3, <2>4
  <2>7. rows'[p] = [tasks   |-> Insert(rows[p].tasks, k, tasks[k]),
                    records |-> rows[p].records]
    BY <1>3, <2>4
  <2>8. ReadFrom(p, Insert(rows[p].tasks, k, tasks[k]), tasks)
    <3>1. ReadFrom(p, rows[p].tasks, tasks)
      BY <1>3, <2>1 DEF RowsOK
    <3>2. k \in DOMAIN tasks
      BY <2>1
    <3> QED
      BY <3>1, <3>2 DEF ReadFrom, Insert
  <2>9. ASSUME cmd[p].all
        PROVE  ReadTo(k, Insert(rows[p].tasks, k, tasks[k]), tasks, DOMAIN tasks)
    <3>1. AsRead(p, rows[p].tasks, tasks, DOMAIN tasks)
      BY <1>3, <2>1, <2>9 DEF RowsOK
    <3>2. ids = DOMAIN tasks
      BY <2>1, <2>9
    <3> QED
      BY <2>1, <2>4, <2>5, <3>1, <3>2, RowExtends
  <2>10. ReadFrom(p, rows[p].tasks, tasks)'
    BY <1>0, <2>7, <2>8 DEF ReadFrom
  <2>11. cmd[p].all => AsRead(p, rows[p].tasks, tasks, DOMAIN tasks)'
    BY <1>0, <2>4, <2>7, <2>9 DEF AsRead
  <2>12. RowsOK(p)'
    BY <2>5, <2>7, <2>10, <2>11 DEF RowsOK, Scanning
  <2> QED
    BY <2>5, <2>6, <2>12, ReadKept
<1>5. CASE ScanRow(p, "xmlTaskRows", "tasks", tasks, {DOMAIN tasks})
  <2>1. pc[p] = "xmlTaskRows" /\ DOMAIN tasks \subseteq RowId
    BY <1>5 DEF ScanRow, ReadInv, ProcInv, TableTypes
  <2>2. PICK k \in DOMAIN tasks :
           /\ NextRow(p, DOMAIN tasks, k) /\ recordId'[p] = k
           /\ rows' = [rows EXCEPT ![p]["tasks"] = Insert(@, k, tasks[k])]
    BY <1>2, <1>5, <2>1 DEF Scanning
  <2>3. Moved(p) /\ pc'[p] = "xmlTaskRows" /\ recordId[p] \in RowId \cup {0}
    BY <1>2, <1>5, <2>1 DEF Scanning
  <2>4. DOMAIN rows' = Proc /\ \A q \in Proc \ {p} : rows'[q] = rows[q]
    BY <1>3, <2>2
  <2>5. rows'[p] = [tasks   |-> Insert(rows[p].tasks, k, tasks[k]),
                    records |-> rows[p].records]
    BY <1>3, <2>2
  <2>6. ReadTo(k, Insert(rows[p].tasks, k, tasks[k]), tasks, DOMAIN tasks)
    <3>1. AsRead(p, rows[p].tasks, tasks, DOMAIN tasks)
      BY <1>3, <2>1 DEF RowsOK
    <3> QED
      BY <2>1, <2>2, <2>3, <3>1, RowExtends
  <2>7. AsRead(p, rows[p].tasks, tasks, DOMAIN tasks)'
    BY <1>0, <2>2, <2>5, <2>6 DEF AsRead
  <2>8. rows[p].records = <<>>
    BY <1>3, <2>1 DEF RowsOK
  <2>9. RowsOK(p)'
    BY <2>3, <2>5, <2>7, <2>8 DEF RowsOK, Scanning
  <2> QED
    BY <2>3, <2>4, <2>9, ReadKept
<1>6. CASE ScanRow(p, "xmlRecordRows", "records", records, {DOMAIN records})
  <2>1. pc[p] = "xmlRecordRows" /\ DOMAIN records \subseteq RowId
    BY <1>6 DEF ScanRow, ReadInv, ProcInv, TableTypes
  <2>2. PICK k \in DOMAIN records :
           /\ NextRow(p, DOMAIN records, k) /\ recordId'[p] = k
           /\ rows' = [rows EXCEPT ![p]["records"] = Insert(@, k, records[k])]
    BY <1>2, <1>6, <2>1 DEF Scanning
  <2>3. Moved(p) /\ pc'[p] = "xmlRecordRows" /\ recordId[p] \in RowId \cup {0}
    BY <1>2, <1>6, <2>1 DEF Scanning
  <2>4. DOMAIN rows' = Proc /\ \A q \in Proc \ {p} : rows'[q] = rows[q]
    BY <1>3, <2>2
  <2>5. rows'[p] = [tasks   |-> rows[p].tasks,
                    records |-> Insert(rows[p].records, k, records[k])]
    BY <1>3, <2>2
  <2>6. ReadTo(k, Insert(rows[p].records, k, records[k]), records, DOMAIN records)
    <3>1. AsRead(p, rows[p].records, records, DOMAIN records)
      BY <1>3, <2>1 DEF RowsOK
    <3> QED
      BY <2>1, <2>2, <2>3, <3>1, RowExtends
  <2>7. AsRead(p, rows[p].records, records, DOMAIN records)'
    BY <1>0, <2>2, <2>5, <2>6 DEF AsRead
  <2>8. RowsOK(p)'
    BY <2>3, <2>5, <2>7 DEF RowsOK, Scanning
  <2> QED
    BY <2>3, <2>4, <2>8, ReadKept
<1> QED
  BY <1>1, <1>4, <1>5, <1>6 DEF Scanning

(* The other steps of the reports.                                         *)
LEMMA ReportsRead ==
    ASSUME ReadInv, NEW p \in Proc,
           ListEnd(p) \/ ExportOpen(p) \/ CopyTasks(p) \/ CopyRecords(p)
           \/ XmlTasksEnd(p) \/ XmlEnd(p)
    PROVE  Moved(p) /\ ReadInv'
<1>0. /\ ProcInv /\ UNCHANGED <<tasks, records>> /\ TableTypes' /\ RowsOK(p)
      /\ DOMAIN rows = Proc
  BY DEF ListEnd, ExportOpen, CopyTasks, CopyRecords, XmlTasksEnd, XmlEnd, file, ReadInv,
     ProcInv, TableTypes
<1>1. /\ pc[p] \in Reading
      /\ ListEnd(p) => pc[p] \in {"list", "listRows"}
      /\ ~ListEnd(p) => pc[p] \notin {"list", "listRows"}
  BY DEF ListEnd, ExportOpen, CopyTasks, CopyRecords, XmlTasksEnd, XmlEnd, ScanEnds,
     ScanFails, Reading, Scanning
<1>2. cmd[p].op = IF ListEnd(p) THEN "list" ELSE "export"
  BY <1>0, <1>1 DEF ProcInv, Belongs
<1>3. CASE ListEnd(p) \/ CopyRecords(p) \/ XmlEnd(p) \/ (ExportOpen(p) /\ pc'[p] = "idle")
  <2>1. PICK code \in {"OK", "FILESYSTEM_ERROR"} :
           \E shown : ReturnShowing(p, code, shown)
    <3>1. CASE ListEnd(p) \/ CopyRecords(p) \/ XmlEnd(p)
      BY <3>1 DEF ListEnd, CopyRecords, XmlEnd, Return
    <3>2. CASE ExportOpen(p) /\ pc'[p] = "idle"
      <4>1. pc[p] \in Moves \cup Reading /\ p \in DOMAIN pc
        BY <1>0 DEF ProcInv, ProcTypes
      <4>2. ~Proceed(p, "copyTasks") /\ ~Proceed(p, "xmlTasks")
        BY <3>2, <4>1 DEF Proceed, Jump
      <4> QED
        BY <3>2, <4>2 DEF ExportOpen, Return
    <3> QED
      BY <1>3, <3>1, <3>2
  <2>2. Answered(cmd[p].op, code)
    BY <1>2, <2>1 DEF Answered, Named
  <2>3. Moved(p) /\ pc'[p] = "idle"
    BY <1>0, <2>1, <2>2, Leaves
  <2>4. DOMAIN rows' = Proc /\ rows'[p] = Nothing /\ \A q \in Proc \ {p} : rows'[q] = rows[q]
    BY <1>0, <1>3 DEF ListEnd, CopyRecords, XmlEnd, ExportOpen, RowsOK, Scanning
  <2>5. RowsOK(p)'
    BY <2>3, <2>4, NothingRead DEF Scanning
  <2> QED
    BY <2>3, <2>4, <2>5, ReadKept
<1>4. ASSUME NEW at \in {"copyTasks", "xmlTasks", "copyRecords"}, Proceed(p, at),
             ExportOpen(p) \/ CopyTasks(p)
      PROVE  Moved(p) /\ ReadInv'
  <2>1. pc[p] \in {"export", "copyTasks"} /\ UNCHANGED rows
    BY <1>4 DEF ExportOpen, CopyTasks
  <2>2. recordId[p] = 0
    BY <1>0, <2>1 DEF ProcInv, Locked, Reading, Scanning
  <2>3. /\ Belongs(at, cmd[p])
        /\ at \in (Moves \ {"idle"}) \cup Reading /\ at \notin Scanning
    BY <1>0, <2>1 DEF ProcInv, Belongs, Pauses, Reading, Scanning
  <2>4. Moved(p) /\ pc'[p] = at
    BY <1>0, <1>4, <2>2, <2>3, Kept, Goes DEF Proceed, local
  <2>5. rows'[p] = Nothing
    BY <1>0, <2>1 DEF RowsOK, Scanning
  <2>6. RowsOK(p)'
    BY <2>3, <2>4, <2>5, NothingRead
  <2> QED
    BY <1>0, <2>1, <2>4, <2>6, ReadKept
<1>5. CASE XmlTasksEnd(p)
  <2>1. /\ pc[p] \in {"xmlTaskRows", "xmlTasks"} /\ UNCHANGED rows
        /\ Hold(p, "none") /\ Jump(p, "xmlRecords")
        /\ recordId' = [recordId EXCEPT ![p] = 0]
    BY <1>5 DEF XmlTasksEnd, ScanEnds, ScanFails
  <2>2. /\ Belongs("xmlRecords", cmd[p])
        /\ "xmlRecords" \in (Moves \ {"idle"}) \cup Reading /\ "xmlRecords" \notin Scanning
    BY <1>0, <2>1 DEF ProcInv, Belongs, Pauses, Reading, Scanning
  <2>3. Moved(p) /\ pc'[p] = "xmlRecords"
    BY <1>0, <2>1, <2>2, Goes
  <2>4. RowsOK(p)'
    BY <1>0, <2>1, <2>3 DEF RowsOK, Nothing, Scanning
  <2> QED
    BY <1>0, <2>1, <2>3, <2>4, ReadKept
<1>6. CASE ExportOpen(p) /\ pc'[p] # "idle"
  <2>1. Proceed(p, "copyTasks") \/ Proceed(p, "xmlTasks")
    BY <1>0, <1>6 DEF ExportOpen, Return, ReturnShowing, ProcInv, ProcTypes
  <2> QED
    BY <1>4, <1>6, <2>1
<1>7. CASE CopyTasks(p)
  BY <1>4, <1>7 DEF CopyTasks
<1> QED
  BY <1>3, <1>5, <1>6, <1>7

(* Every step of the program and its reports.                              *)
LEMMA ReportsKeep ==
    ASSUME ReadInv, [ReportsNext]_reportVars
    PROVE  ReadInv'
<1>1. CASE Next /\ rows' = [p \in Proc |-> IF pc'[p] = "idle" THEN Nothing ELSE rows[p]]
  BY <1>1, NextReads
<1>2. ASSUME NEW p \in Proc, NEW c \in ReportCommand, Begin(p, c), UNCHANGED rows
      PROVE  ReadInv'
  <2>1. Moved(p) /\ pc'[p] = "createTasks" /\ pc[p] = "idle"
    BY <1>2, BeginMoves DEF ReadInv
  <2>2. rows'[p] = Nothing /\ DOMAIN rows' = Proc
    BY <1>2, <2>1 DEF ReadInv, RowsOK, Scanning
  <2>3. RowsOK(p)'
    BY <2>1, <2>2, NothingRead DEF Scanning
  <2> QED
    BY <1>2, <2>1, <2>2, <2>3, ReadKept
<1>3. ASSUME NEW p \in Proc, ListTask(p) \/ Export(p) PROVE ReadInv'
  BY <1>3, ScanReads, ReportsRead DEF ListTask, Export, ExportXML
<1>4. CASE UNCHANGED reportVars
  BY <1>4 DEF reportVars, vars, file, local, ReadInv, ProcInv, ProcTypes, TableTypes, Locked,
     RowsOK, ReadFrom, AsRead, ReadTo
<1> QED
  BY <1>1, <1>2, <1>3, <1>4 DEF ReportsNext

(* At the start nothing has been read.                                     *)
LEMMA ReportsStart ==
    ASSUME ReportsInit
    PROVE  ReadInv
<1>1. ProcInv
  BY DEF ReportsInit, Init, ProcInv, ProcTypes, TableTypes, Moves, AnyCommand, Belongs, Locked,
     Pauses, Reading, Scanning
<1>2. ASSUME NEW p \in Proc PROVE RowsOK(p)
  BY DEF ReportsInit, Init, RowsOK, Nothing, Scanning
<1> QED
  BY <1>1, <1>2 DEF ReadInv, ReportsInit

(* What has been read is a snapshot of the rows behind the cursor.         *)
LEMMA ReadAgrees ==
    ASSUME ReadInv
    PROVE  ScansAreSnapshots
  BY DEF ReadInv, RowsOK, AsRead, ReadTo, ScansAreSnapshots, Agrees, ReadFrom

-----------------------------------------------------------------------------
(* The command line. *)

CliInv == ReadInv /\ DOMAIN screen = Proc

(* A constructor that throws has read nothing.                             *)
LEMMA OpenFailsReads ==
    ASSUME ReadInv, NEW p \in Proc, OpenFails(p)
    PROVE  ReadInv'
<1>1. /\ pc[p] = "createTasks" /\ pc'[p] = "idle" /\ cmd'[p] = NoCommand
      /\ lock'[p] = "none" /\ recordId'[p] = 0
      /\ UNCHANGED <<tasks, records, rows>>
      /\ \A q \in Proc \ {p} : Alike(q)
  BY DEF OpenFails, Return, ReturnShowing, Hold, file, ReadInv, ProcInv, ProcTypes, Alike
<1>2. ProcTypes' /\ TableTypes'
  BY DEF OpenFails, Return, ReturnShowing, Hold, file, ReadInv, ProcInv, ProcTypes, TableTypes,
     Moves, AnyCommand
<1>3. ASSUME NEW q \in Proc PROVE (Belongs(pc[q], cmd[q]) /\ Locked(q) /\ RowsOK(q))'
  <2>1. CASE q = p
    <3>1. Belongs(pc[p], cmd[p])' /\ Locked(p)'
      BY <1>1 DEF Belongs, Locked, Pauses, Reading, Scanning
    <3>2. RowsOK(p)'
      BY <1>1, NothingRead DEF ReadInv, RowsOK, Scanning
    <3> QED
      BY <2>1, <3>1, <3>2
  <2>2. CASE q # p
    <3>1. Alike(q) /\ Belongs(pc[q], cmd[q]) /\ Locked(q) /\ RowsOK(q)
      BY <1>1, <2>2 DEF ReadInv, ProcInv
    <3> QED
      BY <1>1, <3>1 DEF Alike, Locked, RowsOK, ReadFrom, AsRead, ReadTo
  <2> QED
    BY <2>1, <2>2
<1> QED
  BY <1>1, <1>2, <1>3 DEF ReadInv, ProcInv

(* A method returns what main has a message for, or a failure.             *)
LEMMA MethodsAnswer ==
    ASSUME ReadInv, ReportsNext, NEW q \in Proc, pc[q] # "idle", pc'[q] = "idle"
    PROVE  Answered(cmd[q].op, reply'[q].code)
<1>1. ASSUME NEW p \in Proc, Moved(p) PROVE Answered(cmd[q].op, reply'[q].code)
  BY <1>1 DEF Moved, Alike
<1>2. CASE Next
  <2>1. ASSUME NEW p \in Proc, Step(p) PROVE Moved(p)
    BY <2>1, StepWorks DEF ReadInv, Worked
  <2>2. ASSUME NEW p \in Proc, NEW c \in Command, Begin(p, c) PROVE Moved(p)
    BY <2>2, BeginMoves DEF ReadInv
  <2>3. ASSUME NEW p \in Proc, Crash(p) PROVE Moved(p)
    BY <2>3, CrashMoves DEF ReadInv
  <2>4. ~Tick /\ ~Quiet
    BY DEF Tick, Quiet, vars
  <2> QED
    BY <1>1, <1>2, <2>1, <2>2, <2>3, <2>4 DEF Next
<1>3. ASSUME NEW p \in Proc, NEW c \in ReportCommand, Begin(p, c)
      PROVE  Answered(cmd[q].op, reply'[q].code)
  BY <1>1, <1>3, BeginMoves DEF ReadInv
<1>4. ASSUME NEW p \in Proc, ListTask(p) \/ Export(p)
      PROVE  Answered(cmd[q].op, reply'[q].code)
  <2>1. CASE ListEnd(p) \/ ExportOpen(p) \/ CopyTasks(p) \/ CopyRecords(p)
             \/ XmlTasksEnd(p) \/ XmlEnd(p)
    BY <1>1, <2>1, ReportsRead
  <2>2. CASE ~(ListEnd(p) \/ ExportOpen(p) \/ CopyTasks(p) \/ CopyRecords(p)
               \/ XmlTasksEnd(p) \/ XmlEnd(p))
    <3>1. PICK to \in Scanning : Jump(p, to)
      BY <1>4, <2>2 DEF ListTask, Export, ExportXML, ScanOpen, ScanRow, Scanning
    <3>2. pc \in [Proc -> Moves \cup Reading] /\ "idle" \notin Scanning
      BY DEF ReadInv, ProcInv, ProcTypes, Scanning
    <3>3. pc'[q] # "idle"
      BY <3>1, <3>2 DEF Jump
    <3> QED
      BY <3>3
  <2> QED
    BY <2>1, <2>2
<1> QED
  BY <1>2, <1>3, <1>4 DEF ReportsNext

(* Every step of the command line.                                          *)
LEMMA CliKeeps ==
    ASSUME CliInv, [CliNext]_cliVars
    PROVE  CliInv'
<1>1. ReadInv'
  <2>1. CASE UNCHANGED cliVars
    BY <2>1, ReportsKeep DEF CliInv, cliVars
  <2>2. ASSUME NEW p \in Proc, ShowUsage(p) PROVE ReadInv'
    BY <2>2, ReportsKeep DEF CliInv, ShowUsage
  <2>3. ASSUME NEW p \in Proc, OpenFails(p) PROVE ReadInv'
    BY <2>3, OpenFailsReads DEF CliInv
  <2>4. CASE ReportsNext
    BY <2>4, ReportsKeep DEF CliInv
  <2> QED
    BY <2>1, <2>2, <2>3, <2>4 DEF CliNext
<1>2. DOMAIN screen' = Proc
  BY DEF CliInv, CliNext, ShowUsage, OpenFails, Prints, PrintResults, cliVars
<1> QED
  BY <1>1, <1>2 DEF CliInv

(* What has been read stays right, and every process has a screen.          *)
LEMMA CliInvariant == CliSpec => []CliInv
<1>1. CliInit => CliInv
  BY ReportsStart DEF CliInit, CliInv
<1>2. CliInv /\ [CliNext]_cliVars => CliInv'
  BY CliKeeps
<1> QED
  BY <1>1, <1>2, PTL DEF CliSpec

(* Whatever the other processes do, what a loop over a SELECT (ListTask,    *)
(* ExportXML) has read is what the table holds up to its cursor: the SHARED *)
(* lock of the statement keeps every other process from committing.         *)
THEOREM CliSnapshots == CliSpec => []ScansAreSnapshots
<1>1. CliInv => ScansAreSnapshots
  BY ReadAgrees DEF CliInv
<1> QED
  BY <1>1, CliInvariant, PTL

(* main has a message for every result that a method can return: "unknown"  *)
(* is printed only for DATABASE_ERROR and FILESYSTEM_ERROR.                 *)
THEOREM CliUnknownMeansFailure == CliSpec => UnknownMeansFailure
<1>1. ASSUME CliInv, CliNext, NEW p \in Proc, Unknown(p)
      PROVE  reply'[p].code \in {"DATABASE_ERROR", "FILESYSTEM_ERROR"}
  <2>1. DOMAIN screen = Proc /\ screen'[p] # screen[p] /\ screen'[p][1] = "unknown result"
    BY <1>1 DEF CliInv, Unknown
  <2>2. ASSUME NEW q \in Proc PROVE ~ShowUsage(q) /\ ~OpenFails(q)
    <3>1. ASSUME NEW text, Prints(q, text), text[1] # "unknown result" PROVE FALSE
      BY <2>1, <3>1 DEF Prints
    <3> QED
      BY <3>1 DEF ShowUsage, OpenFails
  <2>3. ReportsNext /\ PrintResults
    BY <1>1, <2>2 DEF CliNext
  <2>4. /\ pc[p] # "idle" /\ pc'[p] = "idle" /\ reply'[p].code # "CRASHED"
        /\ screen'[p] = Line(cmd[p].op, reply'[p].code)
    BY <2>1, <2>3 DEF PrintResults
  <2>5. Answered(cmd[p].op, reply'[p].code)
    BY <1>1, <2>3, <2>4, MethodsAnswer DEF CliInv
  <2>6. <<cmd[p].op, reply'[p].code>> \notin Named
    <3>1. cmd[p] \in AnyCommand
      BY <1>1 DEF CliInv, ReadInv, ProcInv, ProcTypes
    <3>2. CASE cmd[p] # NoCommand
      <4>1. cmd[p].op \in {"add", "upd", "del", "start", "stop", "status", "copy", "list",
                           "export"}
        BY <3>1, <3>2 DEF AnyCommand, Command, ReportCommand
      <4>2. cmd[p].op # "unknown result"
        BY <4>1
      <4>3. <<cmd[p].op, reply'[p].code>>[1] = cmd[p].op
        OBVIOUS
      <4> QED
        BY <2>1, <2>4, <4>2, <4>3 DEF Line
    <3>3. cmd[p] # NoCommand
      BY <1>1, <2>4 DEF CliInv, ReadInv, ProcInv, Belongs
    <3> QED
      BY <3>2, <3>3
  <2> QED
    BY <2>4, <2>5, <2>6 DEF Answered
<1>2. CliInv /\ [CliNext]_cliVars
        => [\A p \in Proc : Unknown(p) =>
               reply'[p].code \in {"DATABASE_ERROR", "FILESYSTEM_ERROR"}]_cliVars
  BY <1>1
<1> QED
  BY <1>2, CliInvariant, PTL DEF CliSpec, UnknownMeansFailure

-----------------------------------------------------------------------------
(* The reports of one user. *)

\* OpenDatabase has made the tables when a report begins, and no connection
\* knows an older schema.
Ready(p) ==
    /\ known[p] \in {{}, schema}
    /\ pc[p] \in Creates /\ lock[p] = "shared" => TableAt(pc[p]) \in schema
    /\ pc[p] = "createRecords" => "tasks" \in schema
    /\ pc[p] \in Reading => Tables \subseteq schema

ReadyInv == ReadInv /\ DOMAIN known = Proc /\ \A p \in Proc : Ready(p)

\* A step from one statement of a command of PwtSession to the next.
Inside(p) ==
    /\ UNCHANGED schema
    /\ DOMAIN known' = Proc /\ known'[p] \in {known[p], {}, schema}
    /\ pc[p] \notin Creates \cup Reading
    /\ pc'[p] \notin Creates \cup Reading

(* The statements of the methods are not those of OpenDatabase.            *)
LEMMA MethodsStayInside ==
    ASSUME ReadyInv, NEW p \in Proc, Step(p),
           ~(Reserve(p) \/ Pend(p) \/ CreateCheck(p) \/ CreateDone(p))
    PROVE  Inside(p)
<1>1. pc \in [Proc -> Moves \cup Reading] /\ DOMAIN known = Proc
  BY DEF ReadyInv, ReadInv, ProcInv, ProcTypes
<1>2. UNCHANGED schema
  BY DEF Step, PrepareFails, GetTaskId, AddTask, UpdTask, DelTask, StartTask, StopTask, Status,
     CopyTask, FindNoTask, FindTask, AddInsert, UpdUpdate, DelTaskRow, DelRecords, FindOpen,
     StartRow, StartEnd, StartFinish, StartTime, StartInsert, StopRow, StopEnd, StatusRow,
     CopyInsert, CopyOpen, CopyFetch, CopyRecord, file
<1>3. ASSUME pc[p] \in Lookups \cup Selects \cup Writes \cup Pauses,
             pc'[p] \in {"idle"} \cup Lookups \cup Selects \cup Writes \cup Pauses,
             UNCHANGED known \/ Load(p) \/ known' = [known EXCEPT ![p] = {}]
      PROVE  Inside(p)
  <2>1. DOMAIN known' = Proc /\ known'[p] \in {known[p], {}, schema}
    BY <1>1, <1>3 DEF Load
  <2>2. /\ pc[p] \notin Creates \cup Reading
        /\ pc'[p] \notin Creates \cup Reading
    BY <1>3 DEF Lookups, Selects, Writes, Pauses, Creates, Reading, Scanning
  <2> QED
    BY <1>2, <2>1, <2>2 DEF Inside
<1>4. ASSUME NEW code, NEW shown, ReturnShowing(p, code, shown),
             pc[p] \in Lookups \cup Selects \cup Writes \cup Pauses
      PROVE  Inside(p)
  BY <1>1, <1>3, <1>4 DEF ReturnShowing
<1>5. ASSUME NEW at \in Lookups \cup Selects \cup Writes \cup Pauses, Jump(p, at), UNCHANGED known,
             pc[p] \in Lookups \cup Selects \cup Writes \cup Pauses
      PROVE  Inside(p)
  BY <1>1, <1>3, <1>5 DEF Jump
<1>6. CASE PrepareFails(p)
  BY <1>4, <1>6 DEF PrepareFails, Return
<1>7. CASE GetTaskId(p) \/ CopyOpen(p)
           \/ \E at \in {"startSelect", "stopSelect", "statusSelect"} : FindOpen(p, at)
  BY <1>1, <1>3, <1>7 DEF GetTaskId, CopyOpen, FindOpen, OpensSelect, Lookups, Selects
<1>8. ASSUME NEW op, NEW at \in {"updUpdate", "delTask", "startSelect", "copyInsert"},
             FindTask(p, op, at)
      PROVE  Inside(p)
  BY <1>4, <1>5, <1>8
  DEF FindTask, LookedUp, Return, Proceed, Lookups, Selects, Writes
<1>9. ASSUME NEW op, NEW from \in Lookups, NEW at \in {"addInsert", "lookup"},
             FindNoTask(p, from, op, at)
      PROVE  Inside(p)
  BY <1>4, <1>5, <1>9 DEF FindNoTask, LookedUp, Return, Proceed, Lookups, Writes
<1>10. CASE AddInsert(p) \/ UpdUpdate(p) \/ DelTaskRow(p) \/ DelRecords(p)
  <2>1. pc[p] \in Writes
    BY <1>10 DEF AddInsert, UpdUpdate, DelTaskRow, DelRecords, Commits, InsertRefused,
       WriteBusy, Writes
  <2> QED
    BY <1>4, <1>5, <1>10, <2>1
    DEF AddInsert, UpdUpdate, DelTaskRow, DelRecords, Return, Proceed, Writes
<1>11. CASE StartRow(p) \/ StartEnd(p) \/ StartFinish(p) \/ StartTime(p) \/ StartInsert(p)
            \/ StopRow(p) \/ StopEnd(p) \/ StatusRow(p)
  <2>1. pc[p] \in Selects \cup Writes \cup Pauses
    BY <1>11 DEF StartRow, StartEnd, StartFinish, StartTime, StartInsert, StopRow, StopEnd,
       StatusRow, HasRow, NoRow, SelectBusy, Commits, InsertRefused, WriteBusy, Selects, Writes,
       Pauses
  <2>2. CASE StartRow(p) \/ StopRow(p) \/ StatusRow(p)
    BY <1>4, <1>5, <2>1, <2>2
    DEF StartRow, StopRow, StatusRow, ThenHolding, Proceed, Return, Writes, Pauses
  <2>3. CASE StartEnd(p) \/ StartFinish(p) \/ StartTime(p) \/ StartInsert(p) \/ StopEnd(p)
    BY <1>4, <1>5, <2>1, <2>3
    DEF StartEnd, StartFinish, StartTime, StartInsert, StopEnd, Proceed, Return, Writes, Pauses
  <2> QED
    BY <1>11, <2>2, <2>3
<1>12. CASE CopyInsert(p) \/ CopyFetch(p) \/ CopyRecord(p)
  <2>1. pc[p] \in Selects \cup Writes
    BY <1>12 DEF CopyInsert, CopyFetch, CopyRecord, SelectBusy, Commits, InsertRefused,
       WriteBusy, Selects, Writes
  <2> QED
    BY <1>4, <1>5, <1>12, <2>1
    DEF CopyInsert, CopyFetch, CopyRecord, Return, Selects, Writes
<1> QED
  BY <1>6, <1>7, <1>8, <1>9, <1>10, <1>11, <1>12
  DEF Step, AddTask, UpdTask, DelTask, StartTask, StopTask, Status, CopyTask, Lookups

(* A step of the one process that keeps the schema.                        *)
LEMMA StaysReady ==
    ASSUME OneUser, ReadyInv, NEW p \in Proc, ReadInv', UNCHANGED schema,
           DOMAIN known' = Proc, known'[p] \in {known[p], {}, schema},
           \/ pc'[p] \notin Creates \cup Reading
           \/ pc'[p] \in Reading /\ pc[p] \in Reading
           \/ pc'[p] \in Creates /\ pc'[p] = pc[p] /\ lock'[p] # "shared"
           \/ pc'[p] = "createTasks" /\ lock'[p] = "none"
    PROVE  ReadyInv'
<1>1. Ready(p)
  BY DEF ReadyInv
<1>2. Ready(p)'
  BY <1>1 DEF Ready, Creates, Reading, Scanning
<1> QED
  BY <1>2 DEF ReadyInv, OneUser

(* OpenDatabase and the locks.                                             *)
LEMMA OpeningReady ==
    ASSUME OneUser, ReadyInv, NEW p \in Proc, ReadInv',
           Reserve(p) \/ Pend(p) \/ CreateCheck(p) \/ CreateDone(p)
    PROVE  ReadyInv'
<1>0. /\ Alone(p) /\ ~Blocked(p) /\ ~WriterElsewhere(p) /\ Ready(p) /\ DOMAIN known = Proc
      /\ lock \in [Proc -> {"none", "shared", "reserved", "pending"}]
      /\ pc \in [Proc -> Moves \cup Reading]
  BY NeverBusy DEF ReadyInv, ReadInv, ProcInv, ProcTypes
<1>1. CASE Reserve(p) \/ Pend(p)
  <2>1. UNCHANGED <<schema, pc>> /\ lock'[p] \in {"reserved", "pending"}
    BY <1>0, <1>1 DEF Reserve, Pend, Hold, file
  <2>2. DOMAIN known' = Proc /\ known'[p] \in {known[p], {}, schema}
    BY <1>0, <1>1 DEF Reserve, Pend, Load
  <2> QED
    BY <2>1, <2>2, StaysReady
<1>2. CASE CreateCheck(p)
  <2>1. /\ UNCHANGED <<schema, pc>> /\ known' = [known EXCEPT ![p] = schema]
        /\ pc[p] \in Creates /\ TableAt(pc[p]) \in schema
    BY <1>2 DEF CreateCheck, Load, file
  <2>2. Ready(p)' /\ DOMAIN known' = Proc
    BY <1>0, <2>1 DEF Ready
  <2> QED
    BY <2>2 DEF ReadyInv, OneUser
<1>3. CASE CreateDone(p)
  <2>1. /\ pc[p] \in Creates /\ TableAt(pc[p]) \in schema' /\ schema \subseteq schema'
        /\ known'[p] \in {{}, schema'} /\ DOMAIN known' = Proc
    <3>1. CASE lock[p] = "pending"
      BY <1>0, <1>3, <3>1 DEF CreateDone
    <3>2. CASE lock[p] # "pending"
      BY <1>0, <1>3, <3>2 DEF CreateDone, Ready
    <3> QED
      BY <3>1, <3>2
  <2>2. /\ pc[p] = "createTasks" => pc'[p] = "createRecords"
        /\ pc[p] # "createTasks" => pc'[p] \notin Creates
        /\ lock'[p] = "none"
    BY <1>0, <1>3 DEF CreateDone, Jump, Hold, FirstStatement, Creates
  <2>3. "tasks" \in schema' /\ (pc'[p] \in Reading => "records" \in schema')
    BY <1>0, <2>1, <2>2 DEF Creates, TableAt, Ready, Reading, Scanning, Lookups
  <2>4. Ready(p)'
    BY <2>1, <2>2, <2>3 DEF Ready, Tables, Creates
  <2> QED
    BY <2>1, <2>4 DEF ReadyInv, OneUser
<1> QED
  BY <1>1, <1>2, <1>3

(* The steps of the reports.                                               *)
LEMMA ReportsStayReady ==
    ASSUME OneUser, ReadyInv, NEW p \in Proc, ReadInv', ListTask(p) \/ Export(p)
    PROVE  ReadyInv' /\ pc[p] \in Reading
<1>0. /\ pc \in [Proc -> Moves \cup Reading] /\ UNCHANGED schema /\ DOMAIN known = Proc
      /\ pc[p] \in Reading
  BY DEF ReadyInv, ReadInv, ProcInv, ProcTypes, ListTask, ListEnd, Export, ExportOpen, CopyTasks,
     CopyRecords, ExportXML, ScanOpen, ScanRow, XmlTasksEnd, XmlEnd, ScanEnds, ScanFails,
     OpensSelect, file, Reading, Scanning
<1>1. ASSUME NEW code, NEW shown, ReturnShowing(p, code, shown) PROVE ReadyInv'
  <2>1. pc'[p] = "idle" /\ known'[p] = {} /\ DOMAIN known' = Proc
    BY <1>0, <1>1 DEF ReturnShowing
  <2> QED
    BY <1>0, <2>1, StaysReady DEF Creates, Reading, Scanning
<1>2. ASSUME NEW at \in Reading, Jump(p, at),
             DOMAIN known' = Proc, known'[p] \in {known[p], {}, schema}
      PROVE  ReadyInv'
  BY <1>0, <1>2, StaysReady DEF Jump
<1>3. ASSUME NEW at, NEW to \in Scanning, ScanOpen(p, at, to) PROVE ReadyInv'
  BY <1>0, <1>2, <1>3 DEF ScanOpen, OpensSelect, Load, Reading
<1>4. ASSUME NEW at \in Scanning, NEW t, NEW table, NEW selections,
             ScanRow(p, at, t, table, selections)
      PROVE  ReadyInv'
  BY <1>0, <1>2, <1>4 DEF ScanRow, Reading
<1>5. ASSUME NEW at \in Reading, Proceed(p, at) PROVE ReadyInv'
  BY <1>0, <1>2, <1>5 DEF Proceed
<1>6. CASE XmlTasksEnd(p)
  BY <1>0, <1>2, <1>6 DEF XmlTasksEnd, Reading
<1>7. /\ {"listRows", "xmlTaskRows", "xmlRecordRows"} \subseteq Scanning
      /\ {"copyTasks", "copyRecords", "xmlTasks"} \subseteq Reading
  BY DEF Reading, Scanning
<1>8. CASE ScanOpen(p, "list", "listRows") \/ ScanOpen(p, "xmlTasks", "xmlTaskRows")
           \/ ScanOpen(p, "xmlRecords", "xmlRecordRows")
  BY <1>0, <1>3, <1>7, <1>8
<1>9. CASE ScanRow(p, "listRows", "tasks", tasks, Found(p))
  BY <1>0, <1>4, <1>7, <1>9
<1>10. CASE ScanRow(p, "xmlTaskRows", "tasks", tasks, {DOMAIN tasks})
  BY <1>0, <1>4, <1>7, <1>10
<1>11. CASE ScanRow(p, "xmlRecordRows", "records", records, {DOMAIN records})
  BY <1>0, <1>4, <1>7, <1>11
<1>12. CASE ListEnd(p) \/ CopyRecords(p) \/ XmlEnd(p)
  BY <1>0, <1>1, <1>12 DEF ListEnd, CopyRecords, XmlEnd, Return
<1>13. CASE ExportOpen(p)
  <2>1. \/ Return(p, "FILESYSTEM_ERROR") \/ Return(p, "OK")
        \/ Proceed(p, "copyTasks") \/ Proceed(p, "xmlTasks")
    BY <1>13 DEF ExportOpen
  <2> QED
    BY <1>0, <1>1, <1>5, <1>7, <2>1 DEF Return
<1>14. CASE CopyTasks(p)
  BY <1>0, <1>5, <1>7, <1>14 DEF CopyTasks
<1> QED
  BY <1>0, <1>6, <1>8, <1>9, <1>10, <1>11, <1>12, <1>13, <1>14
  DEF ListTask, Export, ExportXML

(* Every step of the program and its reports, for one user.                 *)
LEMMA NextReady ==
    ASSUME OneUser, ReadyInv, [ReportsNext]_reportVars
    PROVE  ReadyInv'
<1>0. ReadInv' /\ DOMAIN known = Proc
  BY ReportsKeep DEF ReadyInv
<1>1. ASSUME NEW p \in Proc, Step(p) PROVE ReadyInv'
  <2>1. CASE Reserve(p) \/ Pend(p) \/ CreateCheck(p) \/ CreateDone(p)
    BY <1>0, <2>1, OpeningReady
  <2>2. CASE ~(Reserve(p) \/ Pend(p) \/ CreateCheck(p) \/ CreateDone(p))
    BY <1>0, <1>1, <2>2, MethodsStayInside, StaysReady DEF Inside
  <2> QED
    BY <2>1, <2>2
<1>2. ASSUME NEW p \in Proc, Crash(p) PROVE ReadyInv'
  <2>1. UNCHANGED schema /\ DOMAIN known' = Proc /\ known'[p] = {}
    BY <1>0, <1>2 DEF Crash, Return, ReturnShowing, file
  <2>2. pc'[p] = "idle"
    BY <1>2, CrashMoves DEF ReadyInv, ReadInv
  <2> QED
    BY <1>0, <2>1, <2>2, StaysReady DEF Creates, Reading, Scanning
<1>3. ASSUME NEW p \in Proc, NEW c \in Command \cup ReportCommand, Begin(p, c)
      PROVE  ReadyInv'
  <2>1. UNCHANGED <<schema, known, lock>>
    BY <1>3 DEF Begin, file
  <2>2. pc[p] = "idle" /\ pc'[p] = "createTasks"
    BY <1>3, BeginMoves DEF ReadyInv, ReadInv
  <2>3. lock[p] = "none"
    BY <2>2 DEF ReadyInv, ReadInv, ProcInv, Locked
  <2> QED
    BY <1>0, <2>1, <2>2, <2>3, StaysReady
<1>4. CASE UNCHANGED <<schema, known, lock, pc>>
  BY <1>0, <1>4 DEF ReadyInv, Ready
<1>5. CASE Tick \/ Quiet \/ UNCHANGED reportVars
  BY <1>4, <1>5 DEF Tick, Quiet, reportVars, vars, file
<1> QED
  BY <1>0, <1>1, <1>2, <1>3, <1>5, ReportsStayReady DEF ReportsNext, Next

(* So OpenDatabase has always made the tables before a report begins.       *)
LEMMA ReadyInvariant ==
    ASSUME OneUser
    PROVE  ReportsSpec => []ReadyInv
<1>1. ReportsInit => ReadyInv
  BY ReportsStart DEF ReportsInit, Init, ReadyInv, Ready, Creates, Reading, Scanning
<1>2. ReadyInv /\ [ReportsNext]_reportVars => ReadyInv'
  BY NextReady
<1> QED
  BY <1>1, <1>2, PTL DEF ReportsSpec

(* For one user the statements of a report can be prepared and opened.     *)
LEMMA ScansSucceed ==
    ASSUME OneUser, ReadyInv, NEW p \in Proc, NEW at \in Reading, pc[p] = at
    PROVE  ~ScanFails(p, at)
<1>1. ~Blocked(p) /\ Ready(p)
  BY NeverBusy DEF ReadyInv
<1>2. Tables \subseteq schema /\ known[p] \in {{}, schema}
  BY <1>1 DEF Ready
<1>3. TableAt(at) \in Tables
  BY DEF TableAt, Tables
<1> QED
  BY <1>1, <1>2, <1>3 DEF ScanFails, Prepared, StaleSchema

(* A loop that has ended has read the whole table.                         *)
LEMMA ScanWhole ==
    ASSUME NEW p \in Proc, recordId[p] \in RowId \cup {0}, NEW ids \in SUBSET RowId,
           NextRow(p, ids, 0), NEW read, NEW table, AsRead(p, read, table, ids)
    PROVE  DOMAIN read = ids /\ \A k \in ids : read[k] = table[k]
<1>1. \A k \in ids : k \in Nat /\ 1 <= k /\ k <= recordId[p]
  BY RowAssumption DEF NextRow, IsFirst, RowId
<1>2. recordId[p] \in Nat
  BY RowAssumption DEF RowId
<1>3. ids \subseteq 1..recordId[p]
  BY <1>1, <1>2
<1> QED
  BY <1>3 DEF AsRead, ReadTo

\* What the process is doing ends a report.
LEMMA OkEndsReport ==
    ASSUME ReadInv, ReportsNext, NEW p \in Proc, NEW op \in {"list", "export"}, Ends(p, op)
    PROVE  \E q \in Proc : ListTask(q) \/ Export(q)
<1>0. /\ cmd[p].op = op /\ pc'[p] = "idle" /\ reply'[p].code = "OK"
      /\ pc \in [Proc -> Moves \cup Reading] /\ DOMAIN reply = Proc
      /\ Belongs(pc[p], cmd[p])
  BY DEF Ends, ReadInv, ProcInv, ProcTypes
<1>1. pc[p] # "idle"
  BY <1>0 DEF Belongs, NoCommand
<1>2. ASSUME NEW q \in Proc, Moved(q) PROVE q = p
  BY <1>0, <1>1, <1>2 DEF Moved, Alike
<1>3. ASSUME NEW q \in Proc, Step(q) PROVE FALSE
  <2>1. Worked(q) /\ q = p
    BY <1>2, <1>3, StepWorks DEF ReadInv, Worked
  <2>2. pc[p] \in Creates
    BY <1>0, <2>1 DEF Worked, Belongs, Moves, Lookups, Creates, Selects, Writes, Pauses,
       Reading, Scanning
  <2>3. Step(p)
    BY <1>3, <2>1
  <2>4. pc[p] \notin Lookups \cup Selects \cup Writes \cup Pauses \cup Reading
    BY <2>2 DEF Lookups, Creates, Selects, Writes, Pauses, Reading, Scanning
  <2>5. Reserve(p) \/ Pend(p) \/ CreateCheck(p) \/ CreateDone(p)
    BY <2>2, <2>3, <2>4
    DEF Step, PrepareFails, GetTaskId, AddTask, UpdTask, DelTask, StartTask, StopTask, Status,
        CopyTask, FindNoTask, FindTask, LookedUp, AddInsert, UpdUpdate, DelTaskRow, DelRecords,
        FindOpen, OpensSelect, StartRow, StartEnd, StartFinish, StartTime, StartInsert, StopRow,
        StopEnd, StatusRow, CopyInsert, CopyOpen, CopyFetch, CopyRecord, HasRow, NoRow,
        SelectBusy, Commits, InsertRefused, WriteBusy, Lookups, Selects, Writes, Pauses
  <2>6. CASE CreateDone(p)
    BY <1>0, <2>6 DEF CreateDone, Jump, FirstStatement
  <2>7. CASE Reserve(p) \/ Pend(p) \/ CreateCheck(p)
    BY <1>0, <1>1, <2>7 DEF Reserve, Pend, CreateCheck
  <2> QED
    BY <2>5, <2>6, <2>7
<1>4. ASSUME NEW q \in Proc, Crash(q) PROVE FALSE
  <2>1. q = p /\ reply'[q].code = "CRASHED"
    BY <1>2, <1>4, CrashMoves DEF ReadInv
  <2> QED
    BY <1>0, <2>1
<1>5. ASSUME NEW q \in Proc, NEW c \in Command \cup ReportCommand, Begin(q, c) PROVE FALSE
  <2>1. q = p /\ pc[q] = "idle"
    BY <1>2, <1>5, BeginMoves DEF ReadInv
  <2> QED
    BY <1>1, <2>1
<1>6. ~Tick /\ ~Quiet
  BY <1>0, <1>1 DEF Tick, Quiet, vars
<1> QED
  BY <1>3, <1>4, <1>5, <1>6 DEF ReportsNext, Next

(* For one user list shows nothing but tasks, and with the pattern "*" it   *)
(* shows them all, although ListTask cannot tell a SELECT that fails from   *)
(* an empty one.                                                           *)
THEOREM OneUserList ==
    ASSUME OneUser
    PROVE  ReportsSpec => ListIsComplete
<1> DEFINE All == {tasks[k] : k \in DOMAIN tasks}
<1>1. ASSUME ReadyInv, ReportsNext, NEW p \in Proc, Ends(p, "list")
      PROVE  reply'[p].shown \subseteq All /\ (cmd[p].all => All \subseteq reply'[p].shown)
  <2>0. ReadInv /\ ProcInv /\ cmd[p].op = "list" /\ pc'[p] = "idle"
    BY <1>1 DEF ReadyInv, ReadInv, Ends
  <2>1. ListTask(p) \/ Export(p)
    BY <1>1, <2>0, OkEndsReport DEF OneUser
  <2>2. pc[p] \in {"list", "listRows"}
    <3>1. pc[p] \in Reading
      BY <1>1, <2>0, <2>1, ReportsStayReady, ReportsKeep
    <3> QED
      BY <2>0, <3>1 DEF ProcInv, Belongs
  <2>3. ListEnd(p)
    <3>1. ~Export(p)
      BY <2>2 DEF Export, ExportOpen, CopyTasks, CopyRecords, ExportXML, ScanOpen, ScanRow,
         XmlTasksEnd, XmlEnd, ScanEnds, ScanFails, OpensSelect
    <3>2. pc \in [Proc -> Moves \cup Reading]
      BY <2>0 DEF ProcInv, ProcTypes
    <3> QED
      BY <2>0, <2>1, <3>1, <3>2 DEF ListTask, ScanOpen, ScanRow, Jump
  <2>4. ScanEnds(p, "listRows", Found(p))
    <3>1. ScanFails(p, "list") => pc[p] = "list"
      BY DEF ScanFails
    <3>2. "list" \in Reading
      BY DEF Reading
    <3>3. ~ScanFails(p, "list")
      BY <1>1, <3>1, <3>2, ScansSucceed
    <3> QED
      BY <2>3, <3>3 DEF ListEnd
  <2>5. pc[p] = "listRows" /\ RowsOK(p)
    BY <2>0, <2>4 DEF ScanEnds, ReadInv
  <2>6. reply'[p].shown = {rows[p].tasks[k] : k \in DOMAIN rows[p].tasks}
    BY <2>0, <2>3 DEF ListEnd, ReturnShowing, ProcInv, ProcTypes
  <2>7. reply'[p].shown \subseteq All
    BY <2>5, <2>6 DEF RowsOK, ReadFrom
  <2>8. ASSUME cmd[p].all PROVE All \subseteq reply'[p].shown
    <3>1. NextRow(p, DOMAIN tasks, 0)
      BY <2>4, <2>8 DEF ScanEnds, Found
    <3>2. /\ AsRead(p, rows[p].tasks, tasks, DOMAIN tasks) /\ DOMAIN tasks \in SUBSET RowId
          /\ recordId[p] \in RowId \cup {0}
      BY <2>0, <2>5, <2>8 DEF RowsOK, ProcInv, ProcTypes, TableTypes
    <3>3. /\ DOMAIN rows[p].tasks = DOMAIN tasks
          /\ \A k \in DOMAIN tasks : rows[p].tasks[k] = tasks[k]
      BY <3>1, <3>2, ScanWhole
    <3> QED
      BY <2>6, <3>3
  <2> QED
    BY <2>7, <2>8
<1>2. ReadyInv /\ [ReportsNext]_reportVars
        => [\A p \in Proc : Ends(p, "list") =>
               /\ reply'[p].shown \subseteq All
               /\ cmd[p].all => All \subseteq reply'[p].shown]_reportVars
  BY <1>1
<1> QED
  BY <1>2, ReadyInvariant, PTL DEF ReportsSpec, ListIsComplete

-----------------------------------------------------------------------------
(* The destination of an export. *)

IsTable(t) == t = [k \in DOMAIN t |-> t[k]]

Filled == \A r \in DOMAIN records : {"task", "begin"} \subseteq DOMAIN records[r]

(* Every statement that writes makes a table of a table.                   *)
LEMMA StatementsMakeTables ==
    ASSUME NEW t, NEW id, NEW row, NEW ids
    PROVE  IsTable(Insert(t, id, row)) /\ IsTable(Retitle(t, id, row)) /\ IsTable(Delete(t, ids))
  BY DEF IsTable, Insert, Retitle, Delete, Restrict

(* The commands of PwtSession keep pwt_tasks a table of rows.               *)
LEMMA StepMakesTables ==
    ASSUME IsTable(tasks), Filled, NEW p \in Proc, Step(p)
    PROVE  IsTable(tasks)' /\ Filled'
<1>1. CASE AddInsert(p)
  BY <1>1, StatementsMakeTables DEF AddInsert, Filled, IsTable
<1>2. CASE CopyInsert(p)
  BY <1>2, StatementsMakeTables DEF CopyInsert, Filled, IsTable
<1>3. CASE UpdUpdate(p)
  BY <1>3, StatementsMakeTables DEF UpdUpdate, Filled, IsTable
<1>4. CASE DelTaskRow(p)
  BY <1>4, StatementsMakeTables DEF DelTaskRow, Filled, IsTable
<1>5. CASE DelRecords(p)
  BY <1>5 DEF DelRecords, Delete, Restrict, Filled, IsTable
<1>6. CASE StartInsert(p) \/ CopyRecord(p)
  <2>1. PICK id, task, begin, end :
           \/ records' = Insert(records, id, [task |-> task, begin |-> begin, end |-> end])
           \/ UNCHANGED records
    BY <1>6 DEF StartInsert, CopyRecord
  <2>2. UNCHANGED tasks
    BY <1>6 DEF StartInsert, CopyRecord
  <2> QED
    BY <2>1, <2>2 DEF Insert, Filled, IsTable
<1>7. CASE StartEnd(p) \/ StopEnd(p)
  BY <1>7 DEF StartEnd, StopEnd, CloseRecord, Filled, IsTable
<1>8. CASE UNCHANGED <<tasks, records>>
  BY <1>8 DEF Filled, IsTable
<1> QED
  BY <1>1, <1>2, <1>3, <1>4, <1>5, <1>6, <1>7, <1>8
  DEF Step, Reserve, Pend, CreateCheck, CreateDone, PrepareFails, GetTaskId, AddTask, UpdTask,
      DelTask, StartTask, StopTask, Status, CopyTask, FindNoTask, FindTask, FindOpen, StartRow,
      StartFinish, StartTime, StopRow, StatusRow, CopyOpen, CopyFetch, file

\* The fields of an exported file.
IsFile(f) == f = [tasks |-> f.tasks, records |-> f.records, failed |-> f.failed]

\* The tasks are in the file, unless a write has failed, or have all been read
\* for it.
Exporting(p) ==
    /\ IsFile(dst[p])
    /\ IsTable(rows[p].tasks)
    /\ pc[p] = "copyRecords" /\ ~dst[p].failed => dst[p].tasks = tasks
    /\ pc[p] \in {"xmlRecords", "xmlRecordRows"} => rows[p].tasks = tasks

ExportInv ==
    /\ ReadyInv /\ IsTable(tasks) /\ Filled
    /\ DOMAIN dst = Proc /\ \A p \in Proc : Exporting(p)

(* The steps of the one process that come neither from an export nor inside *)
(* one.                                                                     *)
LEMMA NothingExported ==
    ASSUME OneUser, ExportInv, NEW p \in Proc, ReadyInv', IsTable(tasks)', Filled',
           pc'[p] \notin Scanning \cup {"copyRecords", "xmlRecords"},
           UNCHANGED dst \/ (DOMAIN dst' = Proc /\ IsFile(dst'[p]))
    PROVE  ExportInv'
<1>1. rows'[p] = Nothing
  BY DEF ReadyInv, ReadInv, RowsOK
<1>2. IsTable(rows'[p].tasks)
  BY <1>1 DEF Nothing, IsTable
<1>3. DOMAIN dst' = Proc /\ IsFile(dst'[p])
  BY DEF ExportInv, Exporting
<1>4. Exporting(p)'
  BY <1>2, <1>3 DEF Exporting, IsFile, Scanning
<1> QED
  BY <1>3, <1>4 DEF ExportInv, OneUser

(* The steps inside an export as XML, and inside a list.                   *)
LEMMA ScanningExports ==
    ASSUME OneUser, ExportInv, NEW p \in Proc, ReadyInv',
           \/ ListTask(p) /\ ~ListEnd(p)
           \/ ExportXML(p) /\ ~XmlEnd(p)
    PROVE  ExportInv'
<1>0. /\ UNCHANGED <<tasks, records, dst>> /\ ReadInv /\ RowsOK(p) /\ Exporting(p)
      /\ IsTable(tasks)' /\ Filled'
  BY DEF ListTask, ExportXML, ScanOpen, ScanRow, XmlTasksEnd, file, ExportInv, ReadyInv, ReadInv,
     Filled, IsTable
<1>1. /\ pc \in [Proc -> Moves \cup Reading] /\ recordId[p] \in RowId \cup {0}
      /\ DOMAIN rows = Proc /\ DOMAIN tasks \in SUBSET RowId
      /\ rows[p] = [tasks |-> rows[p].tasks, records |-> rows[p].records]
  BY <1>0 DEF ReadInv, ProcInv, ProcTypes, TableTypes, RowsOK
<1>2. ASSUME IsTable(rows'[p].tasks),
             pc'[p] # "copyRecords",
             pc'[p] \in {"xmlRecords", "xmlRecordRows"} => rows'[p].tasks = tasks'
      PROVE  ExportInv'
  <2>1. Exporting(p)'
    BY <1>0, <1>2 DEF Exporting
  <2> QED
    BY <1>0, <2>1 DEF ExportInv, OneUser
<1>3. CASE \/ ScanOpen(p, "list", "listRows")
           \/ ScanOpen(p, "xmlTasks", "xmlTaskRows")
           \/ ScanOpen(p, "xmlRecords", "xmlRecordRows")
  <2>1. UNCHANGED rows
    BY <1>3 DEF ScanOpen
  <2>2. /\ pc'[p] \in Scanning
        /\ pc'[p] = "xmlRecordRows" => pc[p] = "xmlRecords"
    BY <1>1, <1>3 DEF ScanOpen, OpensSelect, Jump, Scanning
  <2> QED
    BY <1>0, <1>2, <2>1, <2>2 DEF Exporting, Scanning
<1>4. CASE \/ ScanRow(p, "listRows", "tasks", tasks, Found(p))
           \/ ScanRow(p, "xmlTaskRows", "tasks", tasks, {DOMAIN tasks})
  <2>1. PICK k : rows' = [rows EXCEPT ![p]["tasks"] = Insert(@, k, tasks[k])]
    BY <1>4 DEF ScanRow
  <2>2. rows'[p].tasks = Insert(rows[p].tasks, k, tasks[k])
    BY <1>1, <2>1
  <2>3. pc'[p] \in {"listRows", "xmlTaskRows"}
    BY <1>1, <1>4 DEF ScanRow, Jump
  <2> QED
    BY <1>2, <2>2, <2>3, StatementsMakeTables
<1>5. CASE ScanRow(p, "xmlRecordRows", "records", records, {DOMAIN records})
  <2>1. PICK k : rows' = [rows EXCEPT ![p]["records"] = Insert(@, k, records[k])]
    BY <1>5 DEF ScanRow
  <2>2. rows'[p].tasks = rows[p].tasks
    BY <1>1, <2>1
  <2>3. pc[p] = "xmlRecordRows" /\ pc'[p] = "xmlRecordRows"
    BY <1>1, <1>5 DEF ScanRow, Jump
  <2> QED
    BY <1>0, <1>2, <2>2, <2>3 DEF Exporting
<1>6. CASE XmlTasksEnd(p)
  <2>1. UNCHANGED rows /\ pc'[p] = "xmlRecords"
    BY <1>1, <1>6 DEF XmlTasksEnd, Jump
  <2>2. pc[p] = "xmlTaskRows" /\ NextRow(p, DOMAIN tasks, 0)
    <3>1. ScanFails(p, "xmlTasks") => pc[p] = "xmlTasks"
      BY DEF ScanFails
    <3>2. "xmlTasks" \in Reading
      BY DEF Reading
    <3>3. ~ScanFails(p, "xmlTasks")
      BY <3>1, <3>2, ScansSucceed DEF ExportInv
    <3> QED
      BY <1>6, <3>3 DEF XmlTasksEnd, ScanEnds
  <2>3. AsRead(p, rows[p].tasks, tasks, DOMAIN tasks)
    BY <1>0, <2>2 DEF RowsOK
  <2>4. /\ DOMAIN rows[p].tasks = DOMAIN tasks
        /\ \A k \in DOMAIN tasks : rows[p].tasks[k] = tasks[k]
    BY <1>1, <2>2, <2>3, ScanWhole
  <2>5. IsTable(tasks) /\ IsTable(rows[p].tasks)
    BY <1>0 DEF ExportInv, Exporting
  <2>6. rows[p].tasks = tasks
    BY <2>4, <2>5 DEF IsTable
  <2> QED
    BY <1>0, <1>2, <2>1, <2>5, <2>6
<1> QED
  BY <1>3, <1>4, <1>5, <1>6 DEF ListTask, ExportXML

(* A write that succeeds has replaced what the file holds.                 *)
LEMMA PutWrites ==
    ASSUME NEW p \in Proc, DOMAIN dst = Proc, IsFile(dst[p]), NEW content, Put(p, content)
    PROVE  /\ DOMAIN dst' = Proc /\ IsFile(dst'[p])
           /\ ~dst'[p].failed => /\ ~dst[p].failed
                                 /\ dst'[p].tasks = content.tasks
                                 /\ dst'[p].records = content.records
<1>1. CASE /\ ~dst[p].failed
           /\ dst' = [dst EXCEPT ![p].tasks = content.tasks, ![p].records = content.records]
  <2>1. dst'[p] = [tasks |-> content.tasks, records |-> content.records,
                   failed |-> dst[p].failed]
    BY <1>1 DEF IsFile
  <2> QED
    BY <1>1, <2>1 DEF IsFile
<1>2. CASE dst' = [dst EXCEPT ![p].failed = TRUE]
  <2>1. dst'[p] = [tasks |-> dst[p].tasks, records |-> dst[p].records, failed |-> TRUE]
    BY <1>2 DEF IsFile
  <2> QED
    BY <1>2, <2>1 DEF IsFile
<1> QED
  BY <1>1, <1>2 DEF Put

(* The other steps of the reports.                                         *)
LEMMA WritingExports ==
    ASSUME OneUser, ExportInv, NEW p \in Proc, ReadyInv',
           ListEnd(p) \/ ExportOpen(p) \/ CopyTasks(p) \/ CopyRecords(p) \/ XmlEnd(p)
    PROVE  ExportInv'
<1>0. /\ UNCHANGED <<tasks, records>> /\ ReadInv /\ RowsOK(p) /\ Exporting(p)
      /\ IsTable(tasks)' /\ Filled' /\ DOMAIN dst = Proc
  BY DEF ListEnd, ExportOpen, CopyTasks, CopyRecords, XmlEnd, file, ExportInv, ReadyInv, ReadInv,
     Filled, IsTable
<1>1. /\ pc \in [Proc -> Moves \cup Reading]
      /\ rows[p] = [tasks |-> rows[p].tasks, records |-> rows[p].records]
      /\ IsFile(dst[p])
  BY <1>0 DEF ReadInv, ProcInv, ProcTypes, RowsOK, Exporting
<1>2. CASE ListEnd(p) \/ ExportOpen(p)
  <2>1. pc'[p] \in {"idle", "copyTasks", "xmlTasks"}
    BY <1>1, <1>2 DEF ListEnd, ExportOpen, Return, ReturnShowing, Proceed, Jump
  <2>2. \/ UNCHANGED dst
        \/ dst' = [dst EXCEPT ![p] = NewFile]
    BY <1>2 DEF ListEnd, ExportOpen
  <2>3. IsFile(NewFile)
    BY DEF IsFile, NewFile
  <2>4. UNCHANGED dst \/ (DOMAIN dst' = Proc /\ IsFile(dst'[p]))
    BY <1>0, <2>2, <2>3
  <2> QED
    BY <1>0, <2>1, <2>4, NothingExported DEF Scanning
<1>3. CASE CopyTasks(p)
  <2>1. /\ Put(p, [dst[p] EXCEPT !.tasks = tasks])
        /\ UNCHANGED rows
    BY <1>3 DEF CopyTasks
  <2>2. pc'[p] = "copyRecords"
    BY <1>1, <1>3 DEF CopyTasks, Proceed, Jump
  <2>3. [dst[p] EXCEPT !.tasks = tasks].tasks = tasks
    BY <1>1 DEF IsFile
  <2>4. /\ DOMAIN dst' = Proc /\ IsFile(dst'[p])
        /\ ~dst'[p].failed => dst'[p].tasks = tasks
    BY <1>0, <1>1, <2>1, <2>3, PutWrites
  <2>5. Exporting(p)'
    BY <1>0, <2>1, <2>2, <2>4 DEF Exporting, IsFile
  <2> QED
    BY <1>0, <2>4, <2>5 DEF ExportInv, OneUser
<1>4. CASE CopyRecords(p) \/ XmlEnd(p)
  <2>1. pc'[p] = "idle"
    BY <1>1, <1>4 DEF CopyRecords, XmlEnd, Return, ReturnShowing
  <2>2. PICK content : Put(p, content)
    BY <1>4 DEF CopyRecords, XmlEnd
  <2>3. DOMAIN dst' = Proc /\ IsFile(dst'[p])
    BY <1>0, <1>1, <2>2, PutWrites
  <2> QED
    BY <1>0, <2>1, <2>3, NothingExported DEF Scanning
<1> QED
  BY <1>2, <1>3, <1>4

(* Every step of the program and its reports, for one user.                 *)
LEMMA NextExports ==
    ASSUME OneUser, ExportInv, [ReportsNext]_reportVars
    PROVE  ExportInv'
<1>0. ReadyInv /\ ReadyInv' /\ ProcInv /\ DOMAIN dst = Proc
  BY NextReady DEF ExportInv, ReadyInv, ReadInv
<1>1. ASSUME NEW p \in Proc, Step(p), UNCHANGED dst PROVE ExportInv'
  <2>1. IsTable(tasks)' /\ Filled'
    BY <1>1, StepMakesTables DEF ExportInv
  <2>2. pc'[p] \notin Scanning \cup {"copyRecords", "xmlRecords"}
    BY <1>0, <1>1, StepWorks DEF Worked, Reading, Scanning
  <2> QED
    BY <1>1, <1>0, <2>1, <2>2, NothingExported
<1>2. ASSUME NEW p \in Proc, UNCHANGED dst,
             Crash(p) \/ \E c \in Command \cup ReportCommand : Begin(p, c)
      PROVE ExportInv'
  <2>1. IsTable(tasks)' /\ Filled'
    BY <1>2 DEF Crash, Begin, file, ExportInv, IsTable, Filled
  <2>2. pc'[p] \in {"idle", "createTasks"}
    BY <1>0, <1>2, CrashMoves, BeginMoves
  <2> QED
    BY <1>2, <1>0, <2>1, <2>2, NothingExported DEF Scanning
<1>3. CASE (Tick \/ Quiet) /\ UNCHANGED dst
      /\ rows' = [p \in Proc |-> IF pc'[p] = "idle" THEN Nothing ELSE rows[p]]
  <2>1. UNCHANGED <<tasks, records, pc>>
    BY <1>3 DEF Tick, Quiet, vars, file
  <2>2. ASSUME NEW p \in Proc PROVE rows'[p] = rows[p]
    BY <1>0, <1>3, <2>1 DEF ReadyInv, ReadInv, RowsOK, Scanning
  <2> QED
    BY <1>0, <1>3, <2>1, <2>2 DEF ExportInv, Exporting, IsTable, Filled
<1>4. CASE UNCHANGED reportVars
  BY <1>0, <1>4 DEF reportVars, vars, file, ExportInv, Exporting, IsTable, Filled
<1>5. ASSUME NEW p \in Proc, ListTask(p) \/ Export(p) PROVE ExportInv'
  BY <1>0, <1>5, ScanningExports, WritingExports DEF Export, ListTask
<1> QED
  BY <1>1, <1>2, <1>3, <1>4, <1>5 DEF ReportsNext, Next

(* So the tasks are in the file, or read, whenever an export goes on.       *)
LEMMA ExportInvariant ==
    ASSUME OneUser
    PROVE  ReportsSpec => []ExportInv
<1>1. ReportsInit => ExportInv
  <2>1. ReportsInit => ReadyInv
    BY ReportsStart DEF ReportsInit, Init, ReadyInv, Ready, Creates, Reading, Scanning
  <2> QED
    BY <2>1 DEF ReportsInit, Init, ExportInv, Exporting, Nothing, NewFile, IsFile,
       IsTable, Filled
<1>2. ExportInv /\ [ReportsNext]_reportVars => ExportInv'
  BY NextExports
<1> QED
  BY <1>1, <1>2, PTL DEF ReportsSpec

(* For one user, an export as SQLite or XML that reports OK and whose stream *)
(* is still good has written every task and the begin of every period:      *)
(* neither the blocks of the file nor the two loops of ExportXML meet a     *)
(* change, whatever was killed before.  (Export also reports OK when the    *)
(* stream has failed, and for excel: the property excepts both.)            *)
THEOREM OneUserExport ==
    ASSUME OneUser
    PROVE  ReportsSpec => GoodStreamMeansExported
<1>1. ASSUME ExportInv, ReportsNext, NEW p \in Proc, Ends(p, "export"),
             cmd[p].type # "excel", ~dst'[p].failed
      PROVE  Exported(p)
  <2>0. /\ ReadyInv /\ ReadInv /\ ProcInv /\ RowsOK(p) /\ Exporting(p) /\ DOMAIN dst = Proc
        /\ cmd[p].op = "export" /\ pc'[p] = "idle" /\ reply'[p].code = "OK"
    BY <1>1 DEF ExportInv, ReadyInv, ReadInv, Ends
  <2>1. /\ pc \in [Proc -> Moves \cup Reading] /\ recordId[p] \in RowId \cup {0}
        /\ cmd[p] \in AnyCommand /\ DOMAIN reply = Proc /\ DOMAIN records \in SUBSET RowId
        /\ rows[p] = [tasks |-> rows[p].tasks, records |-> rows[p].records]
        /\ IsFile(dst[p])
    BY <2>0 DEF ProcInv, ProcTypes, TableTypes, RowsOK, Exporting
  <2>2. ListTask(p) \/ Export(p)
    BY <1>1, <2>0, OkEndsReport DEF OneUser
  <2>3. pc[p] \notin {"list", "listRows"}
    BY <2>0 DEF ProcInv, Belongs
  <2>4. Export(p)
    BY <2>2, <2>3 DEF ListTask, ListEnd, ScanOpen, ScanRow, ScanEnds, ScanFails, OpensSelect
  <2>5. ~ExportOpen(p)
    <3>2. ~Return(p, "FILESYSTEM_ERROR")
      BY <2>0, <2>1 DEF Return, ReturnShowing
    <3>3. ~Proceed(p, "copyTasks") /\ ~Proceed(p, "xmlTasks")
      BY <2>0, <2>1 DEF Proceed, Jump
    <3> QED
      BY <1>1, <3>2, <3>3 DEF ExportOpen
  <2>6. CASE CopyRecords(p)
    <3> DEFINE content == [dst[p] EXCEPT !.records = records]
    <3>1. Put(p, content) /\ pc[p] = "copyRecords"
      BY <2>6 DEF CopyRecords
    <3>2. content.tasks = dst[p].tasks /\ content.records = records
      BY <2>1 DEF IsFile
    <3> HIDE DEF content
    <3>3. ~dst[p].failed /\ dst'[p].tasks = content.tasks /\ dst'[p].records = content.records
      BY <1>1, <2>0, <2>1, <3>1, PutWrites
    <3>4. dst[p].tasks = tasks
      BY <2>0, <3>1, <3>3 DEF Exporting
    <3> QED
      BY <3>2, <3>3, <3>4 DEF Exported
  <2>7. CASE XmlEnd(p)
    <3>1. pc[p] = "xmlRecordRows" /\ NextRow(p, DOMAIN records, 0)
      <4>1. ScanFails(p, "xmlRecords") => pc[p] = "xmlRecords"
        BY DEF ScanFails
      <4>2. "xmlRecords" \in Reading
        BY DEF Reading
      <4>3. ~ScanFails(p, "xmlRecords")
        BY <2>0, <4>1, <4>2, ScansSucceed
      <4> QED
        BY <2>7, <4>3 DEF XmlEnd, ScanEnds
    <3>2. AsRead(p, rows[p].records, records, DOMAIN records) /\ rows[p].tasks = tasks
      BY <2>0, <3>1 DEF RowsOK, Exporting
    <3>3. /\ DOMAIN rows[p].records = DOMAIN records
          /\ \A k \in DOMAIN records : rows[p].records[k] = records[k]
      BY <2>1, <3>1, <3>2, ScanWhole
    <3> DEFINE xml == EndAsText(rows[p].records)
    <3> DEFINE content == [rows[p] EXCEPT !.records = xml]
    <3>4. Put(p, content)
      BY <2>7 DEF XmlEnd
    <3>5. DOMAIN xml = DOMAIN records
      BY <3>3 DEF EndAsText
    <3>6. ASSUME NEW r \in DOMAIN records
          PROVE  xml[r].task = records[r].task /\ xml[r].begin = records[r].begin
      <4>1. xml[r] = [records[r] EXCEPT !.end = Rebound(records[r].end)]
        BY <3>3 DEF EndAsText
      <4>2. "task" \in DOMAIN records[r] /\ "begin" \in DOMAIN records[r]
        BY <1>1 DEF ExportInv, Filled
      <4> HIDE DEF xml
      <4> QED
        BY <4>1, <4>2
    <3> HIDE DEF xml
    <3>7. content.tasks = rows[p].tasks /\ content.records = xml
      BY <2>1
    <3> HIDE DEF content
    <3>8. dst'[p].tasks = content.tasks /\ dst'[p].records = content.records
      BY <1>1, <2>0, <2>1, <3>4, PutWrites
    <3> QED
      BY <3>2, <3>5, <3>6, <3>7, <3>8 DEF Exported
  <2>8. CASE CopyTasks(p) \/ (ExportXML(p) /\ ~XmlEnd(p))
    <3>1. PICK at : Jump(p, at) /\ at # "idle"
      BY <2>8 DEF CopyTasks, Proceed, ExportXML, ScanOpen, ScanRow, XmlTasksEnd
    <3> QED
      BY <2>0, <2>1, <3>1 DEF Jump
  <2> QED
    BY <2>4, <2>5, <2>6, <2>7, <2>8 DEF Export
<1>2. ExportInv /\ [ReportsNext]_reportVars
        => [\A p \in Proc : Ends(p, "export") /\ cmd[p].type # "excel" /\ ~dst'[p].failed
               => Exported(p)]_reportVars
  BY <1>1
<1> QED
  BY <1>2, ExportInvariant, PTL DEF ReportsSpec, GoodStreamMeansExported
=============================================================================
