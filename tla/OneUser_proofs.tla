--------------------------- MODULE OneUser_proofs ---------------------------
(***************************************************************************)
(* What holds when the commands are given one after another, by one        *)
(* process, which may still be killed at any point: at most one period is  *)
(* open, a label names one task, and OK means that the command was carried *)
(* out.  With two processes none of these holds (see the runs two_open and *)
(* ok_but_refused, and README.md).                                         *)
(* The second part is about a process that is not killed.                  *)
(***************************************************************************)
EXTENDS PwtSession_proofs, FiniteSetTheorems, FunctionTheorems

\* There is no other process.
OneUser == \A p, q \in Proc : p = q

NothingOpen == OpenRecords(records) = {}

\* Where StartTask has ended the open record, or has found none.
PastOpen == {"startFinish", "startTime", "startInsert"}

\* A process that has found no open record is right about it until it inserts
\* one, since nobody else can.
SawNothingOpen(p) ==
    /\ pc[p] \in PastOpen => NothingOpen
    /\ /\ pc[p] = "startSelect"
       /\ lock[p] # "none"
       /\ recordId[p] = 0
       => NothingOpen

OneInv == OneOpenRecord /\ \A p \in Proc : SawNothingOpen(p)

-----------------------------------------------------------------------------

(* With one process no statement is ever SQLITE_BUSY.                       *)
LEMMA NeverBusy ==
    ASSUME OneUser, NEW p \in Proc
    PROVE  /\ Alone(p) /\ ~Blocked(p) /\ ~WriterElsewhere(p)
           /\ \A at : ~SelectBusy(p, at) /\ ~WriteBusy(p, at)
  BY DEF OneUser, Alone, Blocked, WriterElsewhere, Others, SelectBusy, WriteBusy

(* A step that adds no open record and goes to none of the places where     *)
(* StartTask relies on what it saw keeps OneInv.                            *)
LEMMA NothingOpened ==
    ASSUME OneUser, OneInv, NEW p \in Proc,
           OpenRecords(records)' \subseteq OpenRecords(records),
           \/ pc'[p] \notin {"startSelect"} \cup PastOpen
           \/ pc'[p] = "startSelect" /\ lock'[p] = "none"
           \/ NothingOpen'
    PROVE  OneInv'
<1>1. OneOpenRecord'
  BY DEF OneInv, OneOpenRecord
<1>2. SawNothingOpen(p)'
  BY DEF SawNothingOpen, NothingOpen, PastOpen
<1>3. \A q \in Proc : q = p
  BY DEF OneUser
<1> QED
  BY <1>1, <1>2, <1>3 DEF OneInv

(* Leaving a method is such a step. *)
LEMMA LeftOpensNothing ==
    ASSUME OneUser, IInv, OneInv, NEW p \in Proc, NEW code, NEW shown,
           ReturnShowing(p, code, shown),
           OpenRecords(records)' \subseteq OpenRecords(records)
    PROVE  OneInv'
<1>1. pc'[p] = "idle"
  BY DEF ReturnShowing, IInv, TypeOK, SessionOK
<1> QED
  BY <1>1, NothingOpened DEF PastOpen

(* So is going on to any other statement. *)
LEMMA WentOn ==
    ASSUME OneUser, IInv, OneInv, NEW p \in Proc, NEW at, Proceed(p, at),
           at \notin PastOpen,
           OpenRecords(records)' \subseteq OpenRecords(records)
    PROVE  OneInv'
<1>1. pc'[p] = at /\ lock'[p] = "none"
  BY DEF Proceed, Jump, Hold, IInv, TypeOK, SessionOK
<1> QED
  BY <1>1, NothingOpened

(* Ending the one open record leaves none. *)
LEMMA Ended ==
    ASSUME IInv, OneInv, NEW p \in Proc, pc[p] \in {"startEnd", "stopEnd"},
           records' = CloseRecord(records, recordId[p], now[p])
    PROVE  OpenRecords(records)' = {}
<1>1. /\ recordId[p] \in OpenRecords(records)
      /\ \A r \in OpenRecords(records) : r = recordId[p]
  BY DEF IInv, ProcOK, HoldsRow, OneInv, OneOpenRecord
<1>2. now[p] # Null
  BY RowAssumption DEF IInv, TypeOK, SessionOK, Time
<1>3. \A r \in DOMAIN records : records[r] \in RecordRow
  BY DEF IInv, TypeOK, FileOK
<1>4. ASSUME NEW r \in DOMAIN records PROVE records'[r].end # Null
  <2>1. CASE r = recordId[p]
    BY <1>2, <1>3, <2>1 DEF CloseRecord, RecordRow
  <2>2. CASE r # recordId[p]
    BY <1>1, <2>2 DEF CloseRecord, OpenRecords
  <2> QED
    BY <2>1, <2>2
<1>5. DOMAIN records' = DOMAIN records
  BY DEF CloseRecord
<1> QED
  BY <1>4, <1>5 DEF OpenRecords

-----------------------------------------------------------------------------

(* The program's own steps keep OneInv. *)
LEMMA StepOneInv ==
    ASSUME OneUser, IInv, OneInv, NEW p \in Proc, Step(p)
    PROVE  OneInv'
<1> USE DEF file
<1>0. /\ Alone(p) /\ ~Blocked(p) /\ ~WriterElsewhere(p)
      /\ \A at : ~SelectBusy(p, at) /\ ~WriteBusy(p, at)
  BY NeverBusy
<1>a. UNCHANGED records => OpenRecords(records)' \subseteq OpenRecords(records)
  BY DEF OpenRecords
<1>1. CASE Reserve(p)
  <2>1. UNCHANGED <<records, pc, recordId>> /\ pc[p] # "startSelect"
    BY <1>1 DEF Reserve, local, Writes, Creates
  <2>2. OneOpenRecord'
    BY <2>1 DEF OneInv, OneOpenRecord, OpenRecords
  <2>3. SawNothingOpen(p)'
    BY <2>1 DEF OneInv, SawNothingOpen, NothingOpen, OpenRecords
  <2> QED
    BY <2>2, <2>3 DEF OneInv, OneUser
<1>2. CASE Pend(p)
  <2>1. UNCHANGED <<records, pc, recordId>> /\ lock[p] # "none"
    BY <1>2 DEF Pend, local
  <2>2. OneOpenRecord'
    BY <2>1 DEF OneInv, OneOpenRecord, OpenRecords
  <2>3. SawNothingOpen(p)'
    BY <2>1 DEF OneInv, SawNothingOpen, NothingOpen, OpenRecords
  <2> QED
    BY <2>2, <2>3 DEF OneInv, OneUser
<1>3. CASE PrepareFails(p)
  BY <1>3, <1>a, LeftOpensNothing DEF PrepareFails, Return
<1>4. CASE CreateCheck(p) \/ CreateDone(p) \/ GetTaskId(p) \/ CopyOpen(p)
  <2>1. UNCHANGED records
    BY <1>4 DEF CreateCheck, CreateDone, GetTaskId, CopyOpen
  <2>2. pc'[p] \notin {"startSelect"} \cup PastOpen
    <3>1. CASE CreateDone(p)
      BY <3>1 DEF CreateDone, Jump, FirstStatement, IInv, TypeOK, SessionOK, PastOpen
    <3> QED
      BY <1>4, <3>1 DEF CreateCheck, GetTaskId, CopyOpen, OpensSelect, Creates, Lookups,
         PastOpen
  <2> QED
    BY <1>a, <2>1, <2>2, NothingOpened
<1>5. ASSUME NEW op, NEW at, at \notin PastOpen, FindTask(p, op, at)
      PROVE  OneInv'
  BY <1>5, <1>a, LeftOpensNothing, WentOn DEF FindTask, Return
<1>6. ASSUME NEW at, NEW op, NEW next, next \notin PastOpen, FindNoTask(p, at, op, next)
      PROVE  OneInv'
  BY <1>6, <1>a, LeftOpensNothing, WentOn DEF FindNoTask, Return
<1>7. ASSUME NEW at, FindOpen(p, at) PROVE OneInv'
  <2>1. PICK k \in RowId \cup {0} :
           IsFirst(OpenRecords(records), k) /\ recordId' = [recordId EXCEPT ![p] = k]
    BY <1>7 DEF FindOpen
  <2>2. UNCHANGED <<records, pc>> /\ recordId'[p] = k /\ pc[p] = at /\ lock[p] = "none"
    BY <1>7, <2>1 DEF FindOpen, OpensSelect, IInv, TypeOK, SessionOK
  <2>3. k = 0 => NothingOpen
    <3>1. OpenRecords(records) \subseteq RowId
      BY DEF OpenRecords, IInv, TypeOK, FileOK
    <3> QED
      BY <2>1, <3>1, RowAssumption DEF IsFirst, NothingOpen, RowId
  <2>4. OneOpenRecord'
    BY <2>2 DEF OneInv, OneOpenRecord, OpenRecords
  <2>5. SawNothingOpen(p)'
    BY <2>2, <2>3 DEF SawNothingOpen, NothingOpen, OpenRecords, OneInv
  <2> QED
    BY <2>4, <2>5 DEF OneInv, OneUser
<1>8. CASE StartRow(p) \/ StopRow(p)
  <2>1. UNCHANGED records
    BY <1>8 DEF StartRow, StopRow
  <2>2. CASE NoRow(p, "startSelect") /\ Proceed(p, "startTime")
    <3>1. NothingOpen
      BY <1>0, <2>2 DEF NoRow, OneInv, SawNothingOpen
    <3> QED
      BY <1>a, <2>1, <3>1, NothingOpened DEF NothingOpen, OpenRecords
  <2>3. CASE ThenHolding(p, "startEnd") \/ ThenHolding(p, "stopEnd")
    <3>1. pc'[p] \notin {"startSelect"} \cup PastOpen
      BY <2>3 DEF ThenHolding, Jump, IInv, TypeOK, SessionOK, PastOpen
    <3> QED
      BY <1>a, <2>1, <3>1, NothingOpened
  <2>4. ASSUME NEW code, Return(p, code) PROVE OneInv'
    BY <1>a, <2>1, <2>4, LeftOpensNothing DEF Return
  <2> QED
    BY <1>8, <2>2, <2>3, <2>4 DEF StartRow, StopRow
<1>9. CASE StatusRow(p)
  BY <1>9, <1>a, LeftOpensNothing DEF StatusRow, Return
<1>10. CASE StartEnd(p)
  <2>1. pc[p] = "startEnd" /\ records' = CloseRecord(records, recordId[p], now[p])
    BY <1>0, <1>10 DEF StartEnd, Commits
  <2> QED
    BY <2>1, Ended, NothingOpened DEF NothingOpen
<1>19. CASE StartFinish(p) \/ StartTime(p)
  <2>1. pc[p] \in PastOpen /\ UNCHANGED records
    BY <1>19 DEF StartFinish, StartTime, PastOpen
  <2>2. NothingOpen
    BY <2>1 DEF OneInv, SawNothingOpen
  <2> QED
    BY <1>a, <2>1, <2>2, NothingOpened DEF NothingOpen
<1>11. CASE StopEnd(p)
  <2>1. pc[p] = "stopEnd" /\ records' = CloseRecord(records, recordId[p], now[p])
    BY <1>0, <1>11 DEF StopEnd, Commits
  <2>2. OpenRecords(records)' = {}
    BY <2>1, Ended
  <2> QED
    BY <1>11, <2>2, LeftOpensNothing DEF StopEnd, Return
<1>12. CASE AddInsert(p) \/ UpdUpdate(p)
  BY <1>12, <1>a, LeftOpensNothing DEF AddInsert, UpdUpdate, Return
<1>13. CASE DelTaskRow(p)
  BY <1>13, <1>a, WentOn DEF DelTaskRow, PastOpen
<1>14. CASE DelRecords(p)
  <2>1. OpenRecords(records)' \subseteq OpenRecords(records)
    BY <1>14, <1>a DEF DelRecords, Delete, Restrict, OpenRecords
  <2> QED
    BY <1>14, <2>1, LeftOpensNothing DEF DelRecords, Return
<1>15. CASE StartInsert(p)
  <2>1. pc[p] = "startInsert" /\ NothingOpen
    BY <1>0, <1>15 DEF StartInsert, Commits, InsertRefused, OneInv, SawNothingOpen, PastOpen
  <2>2. pc'[p] = "idle"
    BY <1>15 DEF StartInsert, Return, ReturnShowing, IInv, TypeOK, SessionOK
  <2>3. OneOpenRecord'
    <3>1. CASE UNCHANGED records
      BY <2>1, <3>1 DEF OneOpenRecord, NothingOpen, OpenRecords
    <3>2. CASE records' # records
      <4>1. PICK id \in RowId : records' = Insert(records, id,
                   [task |-> taskId[p], begin |-> now[p], end |-> Null])
        BY <1>15, <3>2 DEF StartInsert
      <4> QED
        BY <2>1, <4>1 DEF OneOpenRecord, NothingOpen, OpenRecords, Insert
    <3> QED
      BY <3>1, <3>2
  <2> QED
    BY <2>2, <2>3 DEF OneInv, OneUser, SawNothingOpen, PastOpen
<1>16. CASE CopyInsert(p)
  <2>1. pc'[p] \notin {"startSelect"} \cup PastOpen
    BY <1>16 DEF CopyInsert, Jump, Return, ReturnShowing, IInv, TypeOK, SessionOK,
       PastOpen
  <2> QED
    BY <1>16, <1>a, <2>1, NothingOpened DEF CopyInsert
<1>17. CASE CopyFetch(p)
  <2>1. pc'[p] \notin {"startSelect"} \cup PastOpen
    BY <1>17 DEF CopyFetch, Jump, Return, ReturnShowing, IInv, TypeOK, SessionOK,
       PastOpen
  <2> QED
    BY <1>17, <1>a, <2>1, NothingOpened DEF CopyFetch
<1>18. CASE CopyRecord(p)
  <2>1. pc'[p] \notin {"startSelect"} \cup PastOpen
    BY <1>18 DEF CopyRecord, Jump, IInv, TypeOK, SessionOK, PastOpen
  <2>2. OpenRecords(records)' \subseteq OpenRecords(records)
    <3>1. CASE UNCHANGED records
      BY <1>a, <3>1
    <3>2. CASE records' # records
      <4>1. PICK id \in RowId : records' = Insert(records, id,
                   [task  |-> newId[p],
                    begin |-> records[recordId[p]].begin,
                    end   |-> Rebound(records[recordId[p]].end)])
        BY <1>18, <3>2 DEF CopyRecord
      <4> QED
        BY <4>1, RowAssumption DEF OpenRecords, Insert, Rebound
    <3> QED
      BY <3>1, <3>2
  <2> QED
    BY <2>1, <2>2, NothingOpened
<1> QED
  BY <1>1, <1>2, <1>3, <1>4, <1>5, <1>6, <1>7, <1>8, <1>9, <1>10, <1>19, <1>11, <1>12,
     <1>13, <1>14, <1>15, <1>16, <1>17, <1>18
  DEF Step, AddTask, UpdTask, DelTask, StartTask, StopTask, Status, CopyTask, PastOpen

(* OneInv is an invariant of the specification.                             *)
LEMMA OneInvariant ==
    ASSUME OneUser
    PROVE  Spec => [](IInv /\ OneInv)
<1>1. Init => OneInv
  BY DEF Init, OneInv, OneOpenRecord, SawNothingOpen, OpenRecords, PastOpen
<1>2. IInv /\ OneInv /\ [Next]_vars => OneInv'
  <2> SUFFICES ASSUME IInv, OneInv, [Next]_vars PROVE OneInv'
    OBVIOUS
  <2>1. ASSUME NEW p \in Proc, Step(p) PROVE OneInv'
    BY <2>1, StepOneInv
  <2>2. ASSUME NEW p \in Proc, Crash(p) PROVE OneInv'
    BY <2>2, LeftOpensNothing DEF Crash, Return, OpenRecords, file
  <2>3. ASSUME NEW p \in Proc, NEW c \in Command, Begin(p, c) PROVE OneInv'
    <3>1. pc'[p] = "createTasks" /\ UNCHANGED records
      BY <2>3 DEF Begin, file, IInv, TypeOK, SessionOK
    <3> QED
      BY <3>1, NothingOpened DEF OpenRecords, PastOpen
  <2>4. CASE Tick \/ Quiet \/ UNCHANGED vars
    BY <2>4 DEF Tick, Quiet, vars, file, local, OneInv, OneOpenRecord, SawNothingOpen,
       NothingOpen, OpenRecords
  <2> QED
    BY <2>1, <2>2, <2>3, <2>4 DEF Next
<1> QED
  BY <1>1, <1>2, InductiveInvariant, PTL DEF Spec

(* StartTask's promise, for one user, any command sequence and any crashes: *)
(* at most one period is open, since the running one is ended before        *)
(* another is begun.                                                        *)
THEOREM OneUserOneOpenRecord ==
    ASSUME OneUser
    PROVE  Spec => []OneOpenRecord
<1>1. OneInv => OneOpenRecord
  BY DEF OneInv
<1> QED
  BY <1>1, OneInvariant, PTL

-----------------------------------------------------------------------------
(* What one user's process has seen remains so.                            *)

\* OpenDatabase has made the tables when it comes to the next statement.
HasTables(p) ==
    /\ pc[p] \in Creates /\ lock[p] = "shared" => TableAt(pc[p]) \in schema
    /\ pc[p] \notin {"idle", "createTasks"} => "tasks" \in schema
    /\ pc[p] \notin {"idle", "createTasks", "createRecords"} => "records" \in schema

\* The statements are those of the command.
Runs(p) ==
    /\ pc[p] = "idle" => cmd[p] = NoCommand
    /\ pc[p] = "addInsert" => cmd[p].op = "add"
    /\ pc[p] = "updUpdate" => cmd[p].op = "upd"
    /\ pc[p] \in {"delTask", "delRecords"} => cmd[p].op = "del"
    /\ pc[p] \in {"startSelect", "startEnd", "startFinish", "startTime", "startInsert"}
       => cmd[p].op = "start"
    /\ pc[p] \in {"stopSelect", "stopEnd"} => cmd[p].op = "stop"
    /\ pc[p] = "statusSelect" => cmd[p].op = "status"
    /\ pc[p] \in {"lookupNew", "copyInsert", "copyFetch", "copyRecord"} =>
          cmd[p].op = "copy"

\* Where a method relies on the task id that it has looked up.
UsesTaskId == {"updUpdate", "delTask", "startSelect", "startEnd", "startFinish",
               "startTime", "startInsert", "copyInsert"}

\* The label looked up is still there, or still free; the record that CopyTask
\* is about to copy is one of the original's.
Sees(p) ==
    /\ pc[p] = "lookup" /\ lock[p] # "none" =>
          IsFirst(WithLabel(tasks, cmd[p].label), taskId[p])
    /\ pc[p] = "lookupNew" /\ lock[p] # "none" =>
          IsFirst(WithLabel(tasks, cmd[p].newLabel), taskId[p])
    /\ pc[p] = "addInsert" => WithLabel(tasks, cmd[p].label) = {}
    /\ pc[p] \in {"lookup", "copyInsert"} /\ cmd[p].op = "copy" =>
          WithLabel(tasks, cmd[p].newLabel) = {}
    /\ pc[p] \in UsesTaskId \cup {"copyFetch", "copyRecord"} =>
          taskId[p] \in WithLabel(tasks, cmd[p].label)
    /\ pc[p] = "delRecords" => taskId[p] \notin DOMAIN tasks
    /\ pc[p] \in {"copyFetch", "copyRecord"} =>
          newId[p] \in WithLabel(tasks, cmd[p].newLabel) /\ newId[p] # taskId[p]
    /\ pc[p] = "copyRecord" => recordId[p] \in RecordsOf(records, taskId[p])

UserOK(p) == HasTables(p) /\ Runs(p) /\ Sees(p)

UserInv == UniqueLabels /\ \A p \in Proc : UserOK(p)

(* There is only p to look at.                                              *)
LEMMA OnlyUser ==
    ASSUME OneUser, NEW p \in Proc, UniqueLabels', UserOK(p)'
    PROVE  UserInv'
  BY DEF OneUser, UserInv

(* A step of p that leaves pwt_tasks alone keeps its labels unique. *)
LEMMA TasksKept ==
    ASSUME OneUser, UserInv, NEW p \in Proc, UNCHANGED tasks, UserOK(p)'
    PROVE  UserInv'
<1>1. UniqueLabels'
  BY DEF UserInv, UniqueLabels
<1> QED
  BY <1>1, OnlyUser

(* A process that has left its method has seen nothing. *)
LEMMA LeftSeesNothing ==
    ASSUME IInv, NEW p \in Proc, NEW code, NEW shown, ReturnShowing(p, code, shown)
    PROVE  UserOK(p)'
<1>1. pc'[p] = "idle" /\ cmd'[p] = NoCommand
  BY DEF ReturnShowing, IInv, TypeOK, SessionOK
<1> QED
  BY <1>1 DEF UserOK, HasTables, Runs, Sees, Creates, UsesTaskId

(* Leaving a method without changing pwt_tasks. *)
LEMMA LeftKeeps ==
    ASSUME OneUser, IInv, UserInv, NEW p \in Proc, NEW code, NEW shown,
           ReturnShowing(p, code, shown), UNCHANGED tasks
    PROVE  UserInv'
  BY LeftSeesNothing, TasksKept

(* Once OpenDatabase is done every statement can be prepared.              *)
LEMMA AlwaysPrepared ==
    ASSUME OneUser, UserInv, NEW p \in Proc, pc[p] \notin {"idle"} \cup Creates
    PROVE  /\ Prepared(p, "tasks") /\ Prepared(p, "records")
           /\ \A at : Prepared(p, TableAt(at))
           /\ ~PrepareFails(p)
<1>1. "tasks" \in schema /\ "records" \in schema
  BY DEF UserInv, UserOK, HasTables, Creates
<1>2. Prepared(p, "tasks") /\ Prepared(p, "records")
  BY <1>1, NeverBusy DEF Prepared
<1>3. \A at : TableAt(at) \in {"tasks", "records"}
  BY DEF TableAt
<1> QED
  BY <1>2, <1>3 DEF PrepareFails

(* GetTaskId returns what it has found in the table.                       *)
LEMMA FoundByLabel ==
    ASSUME OneUser, UserInv, NEW p \in Proc, NEW at \in Lookups, NEW op,
           LookedUp(p, at, op)
    PROVE  /\ pc[p] = at /\ cmd[p].op = op /\ lock[p] = "shared"
           /\ "tasks" \in schema /\ "records" \in schema
           /\ at = "lookup" => IsFirst(WithLabel(tasks, cmd[p].label), taskId[p])
           /\ at = "lookupNew" => IsFirst(WithLabel(tasks, cmd[p].newLabel), taskId[p])
<1>1. pc[p] = at /\ cmd[p].op = op /\ at \notin {"idle"} \cup Creates
  BY DEF LookedUp, Lookups, Creates
<1>2. lock[p] = "shared"
  BY <1>1, NeverBusy, AlwaysPrepared DEF LookedUp
<1> QED
  BY <1>1, <1>2 DEF UserInv, UserOK, HasTables, Sees, Creates, Lookups

-----------------------------------------------------------------------------
(* The steps of UserInv. *)

(* Taking a lock.                                                          *)
LEMMA LocksKeep ==
    ASSUME OneUser, IInv, UserInv, NEW p \in Proc,
           Reserve(p) \/ Pend(p) \/ CreateCheck(p)
    PROVE  UserInv'
<1>1. /\ UNCHANGED <<tasks, records, schema, pc, cmd, taskId, newId, recordId>>
      /\ lock'[p] \in {"reserved", "pending"} \/ (pc[p] \in Creates /\ TableAt(pc[p]) \in schema)
      /\ pc[p] \in Lookups => lock[p] # "none"
  BY DEF Reserve, Pend, CreateCheck, Hold, file, local, IInv, TypeOK, SessionOK,
         Lookups, Creates, Writes
<1>2. HasTables(p)'
  BY <1>1 DEF UserInv, UserOK, HasTables
<1>3. Runs(p)' /\ Sees(p)'
  BY <1>1 DEF UserInv, UserOK, Runs, Sees, Lookups, Creates, WithLabel, RecordsOf
<1> QED
  BY <1>1, <1>2, <1>3, TasksKept DEF UserOK

(* The end of a CREATE TABLE.                                              *)
LEMMA CreateDoneSees ==
    ASSUME OneUser, IInv, UserInv, NEW p \in Proc, CreateDone(p)
    PROVE  UserInv'
<1>1. /\ pc[p] \in Creates /\ lock'[p] = "none"
      /\ pc'[p] = IF pc[p] = "createTasks" THEN "createRecords"
                  ELSE FirstStatement(cmd[p].op)
      /\ UNCHANGED <<tasks, records, cmd, taskId, newId, recordId>>
      /\ schema \subseteq schema'
  BY DEF CreateDone, Hold, Jump, local, IInv, TypeOK, SessionOK
<1>2. TableAt(pc[p]) \in schema'
  BY NeverBusy DEF CreateDone, UserInv, UserOK, HasTables
<1>3. cmd[p] \in Command \cup {NoCommand}
  BY DEF IInv, TypeOK, SessionOK
<1>4. FirstStatement(cmd[p].op) \in {"lookupNew", "stopSelect", "statusSelect", "lookup"}
  BY <1>3, SessionAssumption DEF FirstStatement, Command, NoCommand
<1>5. HasTables(p)'
  BY <1>1, <1>2, <1>4 DEF UserInv, UserOK, HasTables, Creates, TableAt, Lookups
<1>6. Runs(p)'
  BY <1>1, <1>3, <1>4, SessionAssumption DEF Runs, Creates, FirstStatement, Command, NoCommand
<1>7. Sees(p)'
  <2>1. pc'[p] = "lookup" => cmd[p].op # "copy"
    BY <1>1, <1>4 DEF FirstStatement, Creates
  <2> QED
    BY <1>1, <1>4, <2>1 DEF Sees, Creates, UsesTaskId
<1> QED
  BY <1>1, <1>5, <1>6, <1>7, TasksKept DEF UserOK

(* GetTaskId sees the table as it is.                                      *)
LEMMA GetTaskIdSees ==
    ASSUME OneUser, IInv, UserInv, NEW p \in Proc, GetTaskId(p)
    PROVE  UserInv'
<1>1. /\ UNCHANGED <<tasks, records, schema, pc, cmd, newId, recordId>>
      /\ pc[p] \in Lookups
      /\ IsFirst(WithLabel(tasks, WantedLabel(p)), taskId'[p])
  BY DEF GetTaskId, file, IInv, TypeOK, SessionOK
<1>2. HasTables(p)' /\ Runs(p)'
  BY <1>1 DEF UserInv, UserOK, HasTables, Runs, Lookups, Creates
<1>3. Sees(p)'
  BY <1>1 DEF UserInv, UserOK, Sees, Lookups, WantedLabel, UsesTaskId
<1> QED
  BY <1>1, <1>2, <1>3, TasksKept DEF UserOK

(* Going on from a lookup.                                                 *)
LEMMA WentOnFrom ==
    ASSUME IInv, NEW p \in Proc, NEW at, Proceed(p, at)
    PROVE  /\ pc'[p] = at /\ lock'[p] = "none"
           /\ UNCHANGED <<cmd, taskId, newId, recordId, now, clock>>
  BY DEF Proceed, Jump, Hold, local, IInv, TypeOK, SessionOK

(* A method that needs a task goes on with the id of the one it was given.  *)
LEMMA FindTaskSees ==
    ASSUME OneUser, IInv, UserInv, NEW p \in Proc, NEW op, NEW at, FindTask(p, op, at),
           \/ op = "upd" /\ at = "updUpdate"
           \/ op = "del" /\ at = "delTask"
           \/ op = "start" /\ at = "startSelect"
           \/ op = "copy" /\ at = "copyInsert"
    PROVE  UserInv'
<1>1. UNCHANGED <<tasks, records, schema>>
  BY DEF FindTask, file
<1>2. CASE taskId[p] # 0 /\ Proceed(p, at)
  <2>1. /\ cmd[p].op = op /\ "tasks" \in schema /\ "records" \in schema
        /\ taskId[p] \in WithLabel(tasks, cmd[p].label)
    BY <1>2, FoundByLabel DEF FindTask, Lookups, IsFirst
  <2>2. op = "copy" => WithLabel(tasks, cmd[p].newLabel) = {}
    BY <2>1 DEF FindTask, LookedUp, UserInv, UserOK, Sees
  <2>3. /\ pc'[p] = at
        /\ UNCHANGED <<cmd, taskId, newId, recordId>>
    BY <1>2, WentOnFrom
  <2>4. HasTables(p)' /\ Runs(p)'
    BY <1>1, <2>1, <2>3 DEF HasTables, Runs, Creates
  <2>5. Sees(p)'
    BY <1>1, <2>1, <2>2, <2>3 DEF Sees, UsesTaskId
  <2> QED
    BY <1>1, <2>4, <2>5, TasksKept DEF UserOK
<1>3. CASE Return(p, "TASK_NOT_FOUND")
  BY <1>1, <1>3, LeftKeeps DEF Return
<1> QED
  BY <1>2, <1>3 DEF FindTask

(* A method that needs a free label goes on if there is no such task.      *)
LEMMA FindNoTaskSees ==
    ASSUME OneUser, IInv, UserInv, NEW p \in Proc, NEW at, NEW op, NEW next,
           FindNoTask(p, at, op, next),
           \/ at = "lookup" /\ op = "add" /\ next = "addInsert"
           \/ at = "lookupNew" /\ op = "copy" /\ next = "lookup"
    PROVE  UserInv'
<1>1. UNCHANGED <<tasks, records, schema>>
  BY DEF FindNoTask, file
<1>2. CASE taskId[p] = 0 /\ Proceed(p, next)
  <2>1. at \in Lookups /\ LookedUp(p, at, op)
    BY DEF FindNoTask, Lookups
  <2>2. \A l : IsFirst(WithLabel(tasks, l), 0) => WithLabel(tasks, l) = {}
    <3>1. DOMAIN tasks \subseteq RowId
      BY DEF IInv, TypeOK, FileOK
    <3>2. 0 \notin DOMAIN tasks
      BY <3>1, RowAssumption DEF RowId
    <3> QED
      BY <3>2 DEF IsFirst, WithLabel
  <2>3. /\ cmd[p].op = op /\ "tasks" \in schema /\ "records" \in schema
        /\ at = "lookup" => WithLabel(tasks, cmd[p].label) = {}
        /\ at = "lookupNew" => WithLabel(tasks, cmd[p].newLabel) = {}
    BY <1>2, <2>1, <2>2, FoundByLabel
  <2>4. /\ pc'[p] = next /\ lock'[p] = "none"
        /\ UNCHANGED <<cmd, taskId, newId, recordId>>
    BY <1>2, WentOnFrom
  <2>5. HasTables(p)' /\ Runs(p)'
    BY <1>1, <2>3, <2>4 DEF HasTables, Runs, Creates
  <2>6. Sees(p)'
    BY <1>1, <2>3, <2>4 DEF Sees, UsesTaskId
  <2> QED
    BY <1>1, <2>5, <2>6, TasksKept DEF UserOK
<1>3. CASE Return(p, "TASK_ALREADY_EXISTS")
  BY <1>1, <1>3, LeftKeeps DEF Return
<1> QED
  BY <1>2, <1>3 DEF FindNoTask

(* A label that was not there names one task after it is inserted.         *)
LEMMA InsertedLabel ==
    ASSUME IInv, UniqueLabels, NEW id \in RowId, FreshRowid(tasks, id),
           NEW row, WithLabel(tasks, row.label) = {},
           tasks' = Insert(tasks, id, row)
    PROVE  /\ UniqueLabels'
           /\ id \notin DOMAIN tasks
           /\ \A l : WithLabel(tasks, l) \subseteq WithLabel(tasks, l)'
           /\ id \in WithLabel(tasks, row.label)'
<1>1. id \notin DOMAIN tasks
  BY RowAssumption DEF FreshRowid, RowId
<1>2. DOMAIN tasks' = DOMAIN tasks \cup {id} /\ tasks'[id] = row
  BY DEF Insert
<1>3. \A k \in DOMAIN tasks : tasks'[k] = tasks[k] /\ tasks[k].label # row.label
  BY <1>1 DEF Insert, WithLabel
<1>4. UniqueLabels'
  BY <1>2, <1>3 DEF UniqueLabels
<1> QED
  BY <1>1, <1>2, <1>3, <1>4 DEF WithLabel

(* AddTask inserts a label that is still free.                             *)
LEMMA AddInsertSees ==
    ASSUME OneUser, IInv, UserInv, NEW p \in Proc, AddInsert(p)
    PROVE  UserInv'
<1>1. pc[p] = "addInsert" /\ Return(p, "OK")
  BY DEF AddInsert, Commits, InsertRefused, WriteBusy
<1>2. UserOK(p)'
  BY <1>1, LeftSeesNothing DEF Return
<1>3. UniqueLabels'
  <2>1. CASE UNCHANGED tasks
    BY <2>1 DEF UserInv, UniqueLabels
  <2>2. CASE tasks' # tasks
    <3>1. PICK id \in RowId :
             /\ FreshRowid(tasks, id)
             /\ tasks' = Insert(tasks, id, [label |-> cmd[p].label,
                                            title |-> cmd[p].title])
      BY <2>2 DEF AddInsert
    <3>2. WithLabel(tasks, cmd[p].label) = {}
      BY <1>1 DEF UserInv, UserOK, Sees
    <3> QED
      BY <3>1, <3>2, InsertedLabel DEF UserInv
  <2> QED
    BY <2>1, <2>2
<1> QED
  BY <1>2, <1>3, OnlyUser

(* A new title leaves the labels as they are.                              *)
LEMMA UpdUpdateSees ==
    ASSUME OneUser, IInv, UserInv, NEW p \in Proc, UpdUpdate(p)
    PROVE  UserInv'
<1>1. UserOK(p)'
  BY LeftSeesNothing DEF UpdUpdate, Return
<1>2. UniqueLabels'
  <2>1. CASE UNCHANGED tasks
    BY <2>1 DEF UserInv, UniqueLabels
  <2>2. CASE tasks' = Retitle(tasks, taskId[p], cmd[p].title)
    <3>1. \A k \in DOMAIN tasks : tasks[k] \in TaskRow
      BY DEF IInv, TypeOK, FileOK
    <3>2. /\ DOMAIN tasks' = DOMAIN tasks
          /\ \A k \in DOMAIN tasks : tasks'[k].label = tasks[k].label
      BY <2>2, <3>1 DEF Retitle, TaskRow
    <3> QED
      BY <3>2 DEF UserInv, UniqueLabels
  <2> QED
    BY <2>1, <2>2 DEF UpdUpdate
<1> QED
  BY <1>1, <1>2, OnlyUser

(* DelTask deletes the task it was given.                                  *)
LEMMA DelTaskSees ==
    ASSUME OneUser, IInv, UserInv, NEW p \in Proc, DelTaskRow(p) \/ DelRecords(p)
    PROVE  UserInv'
<1>1. CASE DelRecords(p)
  BY <1>1, LeftKeeps DEF DelRecords, Return
<1>2. CASE DelTaskRow(p)
  <2>1. /\ pc[p] = "delTask"
        /\ tasks' = Delete(tasks, {taskId[p]})
        /\ UNCHANGED <<records, schema>>
    BY <1>2, NeverBusy DEF DelTaskRow, Commits
  <2>2. pc'[p] = "delRecords" /\ UNCHANGED <<cmd, taskId>>
    BY <1>2, WentOnFrom DEF DelTaskRow
  <2>3. /\ DOMAIN tasks' = DOMAIN tasks \ {taskId[p]}
        /\ \A k \in DOMAIN tasks' : tasks'[k] = tasks[k]
    BY <2>1 DEF Delete, Restrict
  <2>4. HasTables(p)' /\ Runs(p)'
    BY <2>1, <2>2 DEF UserInv, UserOK, HasTables, Runs, Creates
  <2>5. Sees(p)'
    BY <2>2, <2>3 DEF Sees, UsesTaskId
  <2>6. UniqueLabels'
    BY <2>3 DEF UserInv, UniqueLabels
  <2> QED
    BY <2>4, <2>5, <2>6, OnlyUser DEF UserOK
<1> QED
  BY <1>1, <1>2

(* StartTask, StopTask and Status never write a task, and go on with what   *)
(* they have.                                                              *)
LEMMA RunningSees ==
    ASSUME OneUser, IInv, UserInv, NEW p \in Proc,
           \/ \E at \in {"startSelect", "stopSelect", "statusSelect"} : FindOpen(p, at)
           \/ StartRow(p) \/ StartEnd(p) \/ StartFinish(p) \/ StartTime(p)
           \/ StartInsert(p) \/ StopRow(p) \/ StopEnd(p) \/ StatusRow(p)
    PROVE  UserInv'
<1>1. UNCHANGED <<tasks, schema>>
  BY DEF FindOpen, StartRow, StartEnd, StartFinish, StartTime, StartInsert, StopRow,
         StopEnd, StatusRow, file
<1>2. ASSUME NEW code, NEW shown, ReturnShowing(p, code, shown) PROVE UserInv'
  BY <1>1, <1>2, LeftKeeps
<1>3. ASSUME NEW at \in {"startSelect", "stopSelect", "statusSelect"}, FindOpen(p, at)
      PROVE UserInv'
  <2>1. UNCHANGED <<pc, cmd, taskId>> /\ pc[p] = at
    BY <1>3 DEF FindOpen, OpensSelect
  <2>2. UserOK(p)'
    BY <1>1, <2>1 DEF UserInv, UserOK, HasTables, Runs, Sees, Creates, UsesTaskId, WithLabel
  <2> QED
    BY <1>1, <2>2, TasksKept
<1>4. ASSUME NEW at, \/ at \in {"startEnd", "startFinish", "startTime", "startInsert"}
                        /\ pc[p] \in {"startSelect", "startEnd", "startFinish", "startTime"}
                     \/ at = "stopEnd" /\ pc[p] = "stopSelect",
             Jump(p, at), UNCHANGED taskId
      PROVE  UserInv'
  <2>1. pc'[p] = at /\ UNCHANGED <<cmd, taskId>>
    BY <1>4 DEF Jump, IInv, TypeOK, SessionOK
  <2>2. UserOK(p)'
    BY <1>1, <1>4, <2>1 DEF UserInv, UserOK, HasTables, Runs, Sees, Creates, UsesTaskId,
       PastOpen, WithLabel
  <2> QED
    BY <1>1, <2>2, TasksKept
<1>5. CASE StartRow(p)
  BY <1>2, <1>4, <1>5 DEF StartRow, HasRow, NoRow, SelectBusy, Return, ThenHolding, Proceed,
     local
<1>6. CASE StartEnd(p) \/ StartFinish(p) \/ StartTime(p)
  BY <1>4, <1>6 DEF StartEnd, Commits, WriteBusy, StartFinish, StartTime, Proceed, local
<1>7. CASE StopRow(p)
  BY <1>2, <1>4, <1>7 DEF StopRow, HasRow, Return, ThenHolding
<1>8. CASE StartInsert(p) \/ StopEnd(p) \/ StatusRow(p)
  BY <1>2, <1>8 DEF StartInsert, StopEnd, StatusRow, Return
<1> QED
  BY <1>3, <1>5, <1>6, <1>7, <1>8

(* CopyTask inserts a new task and then copies the original's records only. *)
LEMMA CopyInsertSees ==
    ASSUME OneUser, IInv, UserInv, NEW p \in Proc, CopyInsert(p)
    PROVE  UserInv'
<1>1. CASE UNCHANGED tasks /\ Return(p, "DATABASE_ERROR")
  BY <1>1, LeftKeeps DEF Return
<1>2. CASE ~(UNCHANGED tasks /\ Return(p, "DATABASE_ERROR"))
  <2>1. PICK id \in RowId :
           /\ FreshRowid(tasks, id)
           /\ tasks' = Insert(tasks, id, [label |-> cmd[p].newLabel,
                                          title |-> cmd[p].title])
           /\ newId' = [newId EXCEPT ![p] = id]
    BY <1>2 DEF CopyInsert
  <2>2. /\ pc[p] = "copyInsert" /\ pc'[p] = "copyFetch"
        /\ UNCHANGED <<cmd, taskId, schema>> /\ newId'[p] = id
    BY <1>2, <2>1 DEF CopyInsert, Commits, Jump, IInv, TypeOK, SessionOK
  <2>3. /\ WithLabel(tasks, cmd[p].newLabel) = {}
        /\ taskId[p] \in WithLabel(tasks, cmd[p].label)
        /\ cmd[p].op = "copy"
    BY <2>2 DEF UserInv, UserOK, Runs, Sees, UsesTaskId
  <2>4. /\ UniqueLabels'
        /\ id \notin DOMAIN tasks
        /\ WithLabel(tasks, cmd[p].label) \subseteq WithLabel(tasks', cmd[p].label)
        /\ id \in WithLabel(tasks', cmd[p].newLabel)
    BY <2>1, <2>3, InsertedLabel DEF UserInv
  <2>5. HasTables(p)' /\ Runs(p)'
    BY <2>2, <2>3 DEF UserInv, UserOK, HasTables, Runs, Creates
  <2>6. taskId[p] # id
    BY <2>3, <2>4 DEF WithLabel
  <2>7. Sees(p)'
    BY <2>2, <2>3, <2>4, <2>6 DEF Sees, UsesTaskId
  <2> QED
    BY <2>4, <2>5, <2>7, OnlyUser DEF UserOK
<1> QED
  BY <1>1, <1>2 DEF CopyInsert, Commits

(* The scan of CopyTask stops only at records of the original.             *)
LEMMA CopyLoopSees ==
    ASSUME OneUser, IInv, UserInv, NEW p \in Proc,
           CopyOpen(p) \/ CopyFetch(p) \/ CopyRecord(p)
    PROVE  UserInv'
<1>1. UNCHANGED <<tasks, schema>>
  BY DEF CopyOpen, CopyFetch, CopyRecord, file
<1>2. CASE Return(p, "OK")
  BY <1>1, <1>2, LeftKeeps DEF Return
<1>3. CASE ~Return(p, "OK")
  <2>1. /\ pc[p] \in {"copyFetch", "copyRecord"} /\ pc'[p] \in {"copyFetch", "copyRecord"}
        /\ UNCHANGED <<cmd, taskId, newId>>
    BY <1>3 DEF CopyOpen, OpensSelect, CopyFetch, CopyRecord, Commits, InsertRefused,
       WriteBusy, Jump, local, IInv, TypeOK, SessionOK
  <2>2. pc'[p] = "copyRecord" => recordId'[p] \in RecordsOf(records', taskId[p])
    <3>1. CASE CopyFetch(p)
      <4>1. PICK k \in RowId \cup {0} :
               /\ IsFirst(RemainingRecords(p), k) /\ k # 0
               /\ recordId' = [recordId EXCEPT ![p] = k]
        BY <1>3, <3>1 DEF CopyFetch
      <4>2. k \in RecordsOf(records, taskId[p]) /\ recordId'[p] = k /\ UNCHANGED records
        BY <3>1, <4>1 DEF CopyFetch, file, IsFirst, RemainingRecords, IInv, TypeOK, SessionOK
      <4> QED
        BY <4>2
    <3>2. CASE CopyOpen(p) \/ CopyRecord(p)
      BY <3>2 DEF CopyOpen, OpensSelect, CopyRecord, Jump, IInv, TypeOK, SessionOK
    <3> QED
      BY <3>1, <3>2
  <2>3. HasTables(p)' /\ Runs(p)'
    BY <1>1, <2>1 DEF UserInv, UserOK, HasTables, Runs, Creates
  <2>4. Sees(p)'
    BY <1>1, <2>1, <2>2 DEF UserInv, UserOK, Sees, UsesTaskId
  <2> QED
    BY <1>1, <2>3, <2>4, TasksKept DEF UserOK
<1> QED
  BY <1>2, <1>3

(* The program's own steps keep UserInv. *)
LEMMA StepUserInv ==
    ASSUME OneUser, IInv, UserInv, NEW p \in Proc, Step(p)
    PROVE  UserInv'
<1>1. ASSUME PrepareFails(p) PROVE UserInv'
  BY <1>1, LeftKeeps DEF PrepareFails, Return, file
<1>2. ASSUME AddTask(p) \/ UpdTask(p) \/ DelTask(p) PROVE UserInv'
  BY <1>2, FindTaskSees, FindNoTaskSees, AddInsertSees, UpdUpdateSees, DelTaskSees
  DEF AddTask, UpdTask, DelTask
<1>3. ASSUME StartTask(p) \/ StopTask(p) \/ Status(p) PROVE UserInv'
  BY <1>3, FindTaskSees, RunningSees DEF StartTask, StopTask, Status
<1>4. ASSUME CopyTask(p) PROVE UserInv'
  BY <1>4, FindTaskSees, FindNoTaskSees, CopyInsertSees, CopyLoopSees DEF CopyTask
<1> QED
  BY <1>1, <1>2, <1>3, <1>4, LocksKeep, CreateDoneSees, GetTaskIdSees DEF Step

(* Every step keeps UserInv: also beginning a command, and being killed.    *)
LEMMA NextUserInv ==
    ASSUME OneUser, IInv, UserInv, [Next]_vars
    PROVE  UserInv'
<1>1. ASSUME NEW p \in Proc, Step(p) PROVE UserInv'
  BY <1>1, StepUserInv
<1>2. ASSUME NEW p \in Proc, Crash(p) PROVE UserInv'
  BY <1>2, LeftKeeps DEF Crash, Return, file
<1>3. ASSUME NEW p \in Proc, NEW c \in Command, Begin(p, c) PROVE UserInv'
  <2>1. pc'[p] = "createTasks" /\ UNCHANGED <<tasks, schema, lock>> /\ lock[p] = "none"
    BY <1>3 DEF Begin, file, IInv, TypeOK, SessionOK
  <2>2. UserOK(p)'
    BY <2>1 DEF UserOK, HasTables, Runs, Sees, Creates, UsesTaskId
  <2> QED
    BY <2>1, <2>2, TasksKept
<1>4. CASE Tick \/ Quiet \/ UNCHANGED vars
  <2>1. UNCHANGED <<tasks, records, schema, lock, pc, cmd, taskId, newId, recordId>>
    BY <1>4 DEF Tick, Quiet, vars, file, local
  <2>2. ASSUME NEW p \in Proc PROVE UserOK(p)'
    BY <2>1 DEF UserInv, UserOK, HasTables, Runs, Sees, WithLabel, RecordsOf
  <2>3. UniqueLabels'
    BY <2>1 DEF UserInv, UniqueLabels
  <2> QED
    BY <2>2, <2>3 DEF UserInv
<1> QED
  BY <1>1, <1>2, <1>3, <1>4 DEF Next

(* UserInv is an invariant of the specification.                            *)
LEMMA UserInvariant ==
    ASSUME OneUser
    PROVE  Spec => [](IInv /\ UserInv)
<1>1. Init => UserInv
  BY DEF Init, UserInv, UniqueLabels, UserOK, HasTables, Runs, Sees, Creates, UsesTaskId
<1>2. IInv /\ UserInv /\ [Next]_vars => UserInv'
  BY NextUserInv
<1> QED
  BY <1>1, <1>2, InductiveInvariant, PTL DEF Spec

(* For one user AddTask and CopyTask never give a label to a second task,   *)
(* whatever was deleted, copied or killed before.                          *)
THEOREM OneUserUniqueLabels ==
    ASSUME OneUser
    PROVE  Spec => []UniqueLabels
<1>1. UserInv => UniqueLabels
  BY DEF UserInv
<1> QED
  BY <1>1, UserInvariant, PTL

(* For one user the loop of CopyTask, which scans the table it inserts     *)
(* into, reads no record that it has inserted.                             *)
THEOREM OneUserCopyReadsOriginals ==
    ASSUME OneUser
    PROVE  Spec => []CopyReadsOriginalsOnly
<1>1. UserInv => CopyReadsOriginalsOnly
  BY DEF UserInv, UserOK, Sees, CopyReadsOriginalsOnly, RecordsOf
<1> QED
  BY <1>1, UserInvariant, PTL

-----------------------------------------------------------------------------
(* Which statement ends a method.                                          *)

Refusals == {"DATABASE_ERROR", "TASK_NOT_FOUND", "TASK_ALREADY_EXISTS",
             "ALREADY_RUNNING"}

\* The statements after which a method does not go on, other than refusals.
LastStatement(p) ==
    \/ AddInsert(p) \/ UpdUpdate(p) \/ DelRecords(p) \/ StartInsert(p)
    \/ StopRow(p) \/ StopEnd(p) \/ StatusRow(p) \/ CopyFetch(p)

(* A method ends with a refusal, or with its last statement.               *)
LEMMA ReturnsFrom ==
    ASSUME IInv, NEW p \in Proc, Step(p), pc[p] # "idle", pc'[p] = "idle"
    PROVE  reply'[p].code \in Refusals \/ LastStatement(p)
<1> DEFINE Over == reply'[p].code \in Refusals \/ LastStatement(p)
<1>0. ASSUME NEW code \in Refusals, NEW shown, ReturnShowing(p, code, shown) PROVE Over
  BY <1>0 DEF ReturnShowing, IInv, TypeOK, SessionOK
<1>a. ASSUME NEW at, at # "idle", pc' = [pc EXCEPT ![p] = at] PROVE FALSE
  BY <1>a DEF IInv, TypeOK, SessionOK
<1>1. ASSUME NEW code \in Refusals, Return(p, code) PROVE Over
  BY <1>0, <1>1 DEF Return
<1>2. ASSUME \/ Reserve(p) \/ Pend(p) \/ CreateCheck(p) \/ GetTaskId(p) \/ CopyOpen(p)
             \/ \E at : FindOpen(p, at)
      PROVE  FALSE
  BY <1>2 DEF Reserve, Pend, CreateCheck, GetTaskId, CopyOpen, FindOpen
<1>3. ASSUME CreateDone(p) PROVE FALSE
  <2>1. cmd[p] \in Command \cup {NoCommand}
    BY DEF IInv, TypeOK, SessionOK
  <2>2. FirstStatement(cmd[p].op) # "idle"
    BY <2>1, SessionAssumption DEF FirstStatement, Command, NoCommand
  <2> QED
    BY <1>a, <1>3, <2>2 DEF CreateDone, Jump
<1>4. ASSUME NEW op, NEW at, at # "idle", FindTask(p, op, at) PROVE Over
  BY <1>a, <1>1, <1>4 DEF FindTask, Proceed, Jump, Refusals
<1>5. ASSUME NEW at, NEW op, NEW next, next # "idle", FindNoTask(p, at, op, next)
      PROVE  Over
  BY <1>a, <1>1, <1>5 DEF FindNoTask, Proceed, Jump, Refusals
<1>6. ASSUME PrepareFails(p) \/ DelTaskRow(p) PROVE Over
  BY <1>a, <1>1, <1>6 DEF PrepareFails, DelTaskRow, Proceed, Jump, Refusals
<1>7. ASSUME StartRow(p) \/ StartEnd(p) \/ StartFinish(p) \/ StartTime(p) PROVE Over
  BY <1>a, <1>1, <1>7 DEF StartRow, StartEnd, StartFinish, StartTime, ThenHolding, Proceed,
     Jump, Refusals
<1>8. ASSUME CopyInsert(p) \/ CopyRecord(p) PROVE Over
  BY <1>a, <1>1, <1>8 DEF CopyInsert, CopyRecord, Jump, Refusals
<1>9. ASSUME LastStatement(p) PROVE Over
  BY <1>9
<1> HIDE DEF Over
<1>10. ASSUME AddTask(p) \/ UpdTask(p) \/ DelTask(p) PROVE Over
  BY <1>4, <1>5, <1>6, <1>9, <1>10 DEF AddTask, UpdTask, DelTask, LastStatement
<1>11. ASSUME StartTask(p) \/ StopTask(p) \/ Status(p) PROVE Over
  BY <1>2, <1>4, <1>7, <1>9, <1>11 DEF StartTask, StopTask, Status, LastStatement
<1>12. ASSUME CopyTask(p) PROVE Over
  BY <1>2, <1>4, <1>5, <1>8, <1>9, <1>12 DEF CopyTask, LastStatement
<1>13. Over
  BY <1>2, <1>3, <1>6, <1>10, <1>11, <1>12 DEF Step
<1> QED
  BY <1>13 DEF Over

(* For one user, the last statement of a command is its own.               *)
LEMMA LastOf ==
    ASSUME UserInv, NEW p \in Proc, LastStatement(p)
    PROVE  /\ cmd[p].op = "add" => AddInsert(p)
           /\ cmd[p].op = "upd" => UpdUpdate(p)
           /\ cmd[p].op = "del" => DelRecords(p)
           /\ cmd[p].op = "start" => StartInsert(p)
           /\ cmd[p].op = "stop" => StopRow(p) \/ StopEnd(p)
           /\ cmd[p].op = "status" => StatusRow(p)
           /\ cmd[p].op = "copy" => CopyFetch(p)
<1>1. Runs(p)
  BY DEF UserInv, UserOK
<1>2. /\ AddInsert(p) => pc[p] = "addInsert"
      /\ UpdUpdate(p) => pc[p] = "updUpdate"
      /\ DelRecords(p) => pc[p] = "delRecords"
      /\ StartInsert(p) => pc[p] = "startInsert"
      /\ StopEnd(p) => pc[p] = "stopEnd"
  BY DEF AddInsert, UpdUpdate, DelRecords, StartInsert, StopEnd, Commits, InsertRefused,
         WriteBusy
<1>3. /\ StopRow(p) => pc[p] = "stopSelect"
      /\ StatusRow(p) => pc[p] = "statusSelect"
      /\ CopyFetch(p) => pc[p] = "copyFetch"
  BY DEF StopRow, StatusRow, CopyFetch, HasRow, NoRow, SelectBusy
<1> QED
  BY <1>1, <1>2, <1>3 DEF Runs, LastStatement

(* What a step of one user's process returns.                              *)
LEMMA WhoReturns ==
    ASSUME OneUser, IInv, UserInv, Next, NEW p \in Proc, NEW op, NEW code,
           op # "none", Returns(p, op, code)
    PROVE  \/ code \in Refusals \cup {"CRASHED"}
           \/ Step(p) /\ LastStatement(p)
<1>1. pc[p] # "idle" /\ UNCHANGED pc => FALSE
  BY DEF Returns
<1>2. pc[p] # "idle"
  BY DEF Returns, UserInv, UserOK, Runs, NoCommand
<1>3. ASSUME NEW q \in Proc, Step(q) PROVE code \in Refusals \/ (Step(p) /\ LastStatement(p))
  BY <1>2, <1>3, ReturnsFrom DEF OneUser, Returns
<1>4. ASSUME NEW q \in Proc, Crash(q) PROVE code = "CRASHED"
  BY <1>4 DEF OneUser, Crash, Return, ReturnShowing, Returns, IInv, TypeOK, SessionOK
<1>5. ASSUME NEW q \in Proc, NEW c \in Command, Begin(q, c) PROVE FALSE
  BY <1>2, <1>5 DEF OneUser, Begin
<1>6. ASSUME Tick \/ Quiet PROVE FALSE
  BY <1>1, <1>2, <1>6 DEF Tick, Quiet, vars
<1> QED
  BY <1>3, <1>4, <1>5, <1>6 DEF Next

-----------------------------------------------------------------------------
(* What a command has done when it returns OK. *)

\* Neither table has used up its rowids, so that no INSERT is SQLITE_FULL.
HasRoom == ~Full(tasks) /\ ~Full(records)

(* The statements that return OK have committed.                           *)
LEMMA WrittenIsDone ==
    ASSUME OneUser, IInv, UserInv, HasRoom, NEW p \in Proc,
           \/ AddInsert(p) \/ UpdUpdate(p) \/ DelRecords(p)
           \/ StartInsert(p) \/ StopEnd(p)
    PROVE  Done(p)
<1>1. \A at : ~InsertRefused(p, at, tasks) /\ ~InsertRefused(p, at, records)
              /\ ~WriteBusy(p, at)
  BY NeverBusy DEF InsertRefused, HasRoom
<1>2. CASE AddInsert(p)
  <2>1. cmd[p].op = "add"
    BY <1>2 DEF AddInsert, Commits, InsertRefused, WriteBusy, UserInv, UserOK, Runs
  <2>2. PICK id \in RowId :
           tasks' = Insert(tasks, id, [label |-> cmd[p].label, title |-> cmd[p].title])
    BY <1>1, <1>2 DEF AddInsert
  <2>3. id \in DOMAIN tasks' /\ tasks'[id] = [label |-> cmd[p].label, title |-> cmd[p].title]
    BY <2>2 DEF Insert
  <2> QED
    BY <2>1, <2>3 DEF Done, Returns
<1>3. CASE UpdUpdate(p)
  <2>1. pc[p] = "updUpdate" /\ tasks' = Retitle(tasks, taskId[p], cmd[p].title)
    BY <1>1, <1>3 DEF UpdUpdate, Commits
  <2>2. cmd[p].op = "upd" /\ taskId[p] \in DOMAIN tasks
    BY <2>1 DEF UserInv, UserOK, Runs, Sees, UsesTaskId, WithLabel
  <2>3. tasks[taskId[p]] \in TaskRow
    BY <2>2 DEF IInv, TypeOK, FileOK
  <2> QED
    BY <2>1, <2>2, <2>3 DEF Done, Returns, Retitle, TaskRow
<1>4. CASE DelRecords(p)
  <2>1. /\ pc[p] = "delRecords" /\ UNCHANGED tasks
        /\ records' = Delete(records, RecordsOf(records, taskId[p]))
    BY <1>1, <1>4 DEF DelRecords, Commits
  <2>2. cmd[p].op = "del" /\ taskId[p] \notin DOMAIN tasks
    BY <2>1 DEF UserInv, UserOK, Runs, Sees
  <2>3. \A r \in DOMAIN records' : records'[r].task # taskId[p]
    BY <2>1 DEF Delete, Restrict, RecordsOf
  <2> QED
    BY <2>1, <2>2, <2>3 DEF Done, Returns
<1>5. CASE StartInsert(p)
  <2>1. cmd[p].op = "start"
    BY <1>5 DEF StartInsert, Commits, InsertRefused, WriteBusy, UserInv, UserOK, Runs
  <2>2. PICK id \in RowId :
           records' = Insert(records, id, [task |-> taskId[p], begin |-> now[p], end |-> Null])
    BY <1>1, <1>5 DEF StartInsert
  <2>3. id \in DOMAIN records' /\ records'[id] = [task |-> taskId[p], begin |-> now[p], end |-> Null]
    BY <2>2 DEF Insert
  <2> QED
    BY <2>1, <2>3 DEF Done, Returns
<1>6. CASE StopEnd(p)
  <2>1. pc[p] = "stopEnd" /\ records' = CloseRecord(records, recordId[p], now[p])
    BY <1>1, <1>6 DEF StopEnd, Commits
  <2>2. cmd[p].op = "stop" /\ recordId[p] \in DOMAIN records
    BY <2>1 DEF UserInv, UserOK, Runs, IInv, ProcOK, HoldsRow, OpenRecords
  <2>3. records[recordId[p]] \in RecordRow
    BY <2>2 DEF IInv, TypeOK, FileOK
  <2> QED
    BY <2>1, <2>2, <2>3 DEF Done, Returns, CloseRecord, RecordRow
<1> QED
  BY <1>2, <1>3, <1>4, <1>5, <1>6

(* For one user, as long as SQLite has rowids left, OK is the truth: the    *)
(* command of which main says that it was done has been done, although no  *)
(* method looks at more than whether the result was SQLITE_ERROR.          *)
THEOREM OneUserOkMeansDone ==
    ASSUME OneUser
    PROVE  Spec /\ []HasRoom => OkMeansDone
<1>1. IInv /\ UserInv /\ HasRoom /\ [Next]_vars => [\A p \in Proc : Done(p)]_vars
  <2> SUFFICES ASSUME IInv, UserInv, HasRoom, Next, NEW p \in Proc
               PROVE  Done(p)
    OBVIOUS
  <2>1. ASSUME NEW op \in {"add", "upd", "del", "start", "stop"}, Returns(p, op, "OK")
        PROVE  Done(p)
    <3>1. LastStatement(p) /\ cmd[p].op = op /\ reply'[p].code = "OK"
      BY <2>1, WhoReturns DEF Refusals, Returns
    <3>2. ~StopRow(p)
      BY <2>1, <3>1 DEF StopRow, ThenHolding, Jump, Return, ReturnShowing, Returns,
         IInv, TypeOK, SessionOK
    <3> QED
      BY <3>1, <3>2, LastOf, WrittenIsDone
  <2> QED
    BY <2>1 DEF Done
<1> QED
  BY <1>1, UserInvariant, PTL DEF Spec, OkMeansDone

-----------------------------------------------------------------------------
(***************************************************************************)
(* What holds when the commands are not killed either: every period has    *)
(* its task, no moment is counted twice, and copy and status do what they  *)
(* say.  A kill inside DelTask breaks each of these.                       *)
(***************************************************************************)

\* One process, which is not killed.
Undisturbed == OneUser /\ ~Crashes

\* The periods of a task are in the order of their ids; the open one is last.
InOrder ==
    \A r, s \in DOMAIN records :
        r < s /\ records[r].task = records[s].task =>
            /\ records[r].end # Null
            /\ records[r].end \in Nat => records[r].end <= records[s].begin

\* What has ended when StartTask begins a period had ended before.
EndedBefore(p) ==
    pc[p] = "startInsert" =>
        \A r \in DOMAIN records : records[r].end \in Nat => records[r].end <= now[p]

\* Status has seen that no period is open.
SawFree(p) ==
    pc[p] = "statusSelect" /\ lock[p] # "none" /\ recordId[p] = 0 =>
        OpenRecords(records) = {}

\* The records of the original that the loop of CopyTask has passed.
Copied(p) ==
    {k \in RecordsOf(records, taskId[p]) :
        k < recordId[p] \/ (k = recordId[p] /\ pc[p] = "copyFetch")}

\* g gives the original of each copy.  Only a full table keeps a record from
\* being copied.
IsCopy(p, g) ==
    /\ \A s \in DOMAIN g :
          records[s] = [task  |-> newId[p],
                        begin |-> records[g[s]].begin,
                        end   |-> Rebound(records[g[s]].end)]
    /\ \A r, s \in DOMAIN g : r < s => g[r] < g[s]
    /\ Full(records) \/ \A k \in Copied(p) : \E s \in DOMAIN g : g[s] = k

Copying(p) ==
    /\ pc[p] \in {"idle", "copyInsert"} \cup Creates \cup Lookups => recordId[p] = 0
    /\ pc[p] \in {"copyFetch", "copyRecord"} =>
          \E g \in [RecordsOf(records, newId[p]) -> Copied(p)] : IsCopy(p, g)

LocalOK(p) == EndedBefore(p) /\ SawFree(p) /\ Copying(p)

RecordInv == RecordsHaveTasks /\ InOrder /\ \A p \in Proc : LocalOK(p)

\* All that is known of one user's process.
AllInv == IInv /\ OneInv /\ UserInv /\ RecordInv

-----------------------------------------------------------------------------
(* Steps that leave the records alone. *)

(* They keep RecordInv unless they delete a task or leave DelTask.         *)
LEMMA RecordsKept ==
    ASSUME OneUser, RecordInv, NEW p \in Proc, UNCHANGED records,
           DOMAIN tasks \subseteq DOMAIN tasks',
           pc[p] # "delRecords" \/ UNCHANGED <<pc, taskId>>,
           LocalOK(p)'
    PROVE  RecordInv'
<1>1. \A q \in Proc : q = p
  BY DEF OneUser
<1>2. RecordsHaveTasks'
  BY <1>1 DEF RecordInv, RecordsHaveTasks
<1>3. InOrder'
  BY DEF RecordInv, InOrder
<1> QED
  BY <1>1, <1>2, <1>3 DEF RecordInv

(* A process that has just come to a statement knows nothing yet of the    *)
(* records, but for the three locations that rely on what it has done.     *)
LEMMA NothingKnown ==
    ASSUME NEW p \in Proc,
           pc'[p] \notin {"startInsert", "copyFetch", "copyRecord"},
           pc'[p] = "statusSelect" => lock'[p] = "none",
           pc'[p] \in {"idle", "copyInsert"} \cup Creates \cup Lookups => recordId'[p] = 0
    PROVE  LocalOK(p)'
  BY DEF LocalOK, EndedBefore, SawFree, Copying

(* Leaving a method, but for DelTask.                                      *)
LEMMA LeftRecords ==
    ASSUME OneUser, IInv, RecordInv, NEW p \in Proc, NEW code, NEW shown,
           ReturnShowing(p, code, shown), UNCHANGED records,
           DOMAIN tasks \subseteq DOMAIN tasks', pc[p] # "delRecords"
    PROVE  RecordInv'
<1>1. pc'[p] = "idle" /\ recordId'[p] = 0
  BY DEF ReturnShowing, IInv, TypeOK, SessionOK
<1> QED
  BY <1>1, NothingKnown, RecordsKept

(* Steps that change nothing that RecordInv is about, but a lock.          *)
LEMMA LocksKeepRecords ==
    ASSUME OneUser, IInv, RecordInv, NEW p \in Proc,
           UNCHANGED <<tasks, records, pc, taskId, recordId, newId, now>>,
           pc[p] = "statusSelect" => lock[p] # "none" \/ lock'[p] = "none"
    PROVE  RecordInv'
<1>1. EndedBefore(p)' /\ SawFree(p)'
  BY DEF RecordInv, LocalOK, EndedBefore, SawFree, OpenRecords
<1>2. Copying(p)'
  <2>1. UNCHANGED <<Copied(p), RecordsOf(records, newId[p])>>
    BY DEF Copied, RecordsOf
  <2>2. \A g : IsCopy(p, g) => IsCopy(p, g)'
    BY <2>1 DEF IsCopy, Full
  <2> QED
    BY <2>1, <2>2 DEF RecordInv, LocalOK, Copying
<1> QED
  BY <1>1, <1>2, RecordsKept DEF LocalOK

(* The statements of OpenDatabase and of GetTaskId, and the taking of locks. *)
LEMMA OpeningKeeps ==
    ASSUME OneUser, IInv, RecordInv, NEW p \in Proc,
           \/ Reserve(p) \/ Pend(p) \/ CreateCheck(p) \/ CreateDone(p)
           \/ GetTaskId(p) \/ CopyOpen(p)
    PROVE  RecordInv'
<1>1. CASE Reserve(p) \/ Pend(p) \/ CreateCheck(p) \/ CopyOpen(p)
  <2>1. /\ UNCHANGED <<tasks, records, pc, taskId, recordId, newId, now>>
        /\ pc[p] = "statusSelect" => lock[p] # "none"
    BY <1>1 DEF Reserve, Pend, CreateCheck, CopyOpen, OpensSelect, Writes, Creates, file, local
  <2> QED
    BY <2>1, LocksKeepRecords
<1>2. CASE CreateDone(p)
  <2>1. cmd[p] \in Command \cup {NoCommand}
    BY DEF IInv, TypeOK, SessionOK
  <2>2. FirstStatement(cmd[p].op) \in {"lookupNew", "stopSelect", "statusSelect", "lookup"}
    BY <2>1, SessionAssumption DEF FirstStatement, Command, NoCommand
  <2>3. /\ UNCHANGED <<tasks, records, recordId>> /\ lock'[p] = "none"
        /\ pc[p] \in Creates
        /\ pc'[p] \in {"createRecords", "lookupNew", "stopSelect", "statusSelect", "lookup"}
    BY <1>2, <2>2 DEF CreateDone, Hold, Jump, local, IInv, TypeOK, SessionOK
  <2>4. LocalOK(p)'
    BY <2>3, NothingKnown DEF RecordInv, LocalOK, Copying
  <2> QED
    BY <2>3, <2>4, RecordsKept DEF Creates
<1>3. CASE GetTaskId(p)
  <2>1. UNCHANGED <<tasks, records, pc, recordId>> /\ pc[p] \in Lookups
    BY <1>3 DEF GetTaskId, file
  <2>2. LocalOK(p)'
    BY <2>1, NothingKnown DEF RecordInv, LocalOK, Copying, Lookups
  <2> QED
    BY <2>1, <2>2, RecordsKept DEF Lookups
<1> QED
  BY <1>1, <1>2, <1>3

(* What the methods do with the result of GetTaskId.                       *)
LEMMA LookedUpKeeps ==
    ASSUME OneUser, IInv, RecordInv, NEW p \in Proc, NEW at, NEW op, NEW next,
           FindTask(p, op, next) \/ FindNoTask(p, at, op, next),
           at \in Lookups,
           next \in {"updUpdate", "delTask", "startSelect", "copyInsert", "addInsert", "lookup"}
    PROVE  RecordInv'
<1>1. UNCHANGED <<tasks, records>> /\ pc[p] \in Lookups
  BY DEF FindTask, FindNoTask, LookedUp, file, Lookups
<1>2. ASSUME NEW code, Return(p, code) PROVE RecordInv'
  BY <1>1, <1>2, LeftRecords DEF Return, Lookups
<1>3. CASE Proceed(p, next)
  <2>1. pc'[p] = next /\ lock'[p] = "none" /\ UNCHANGED recordId
    BY <1>3, WentOnFrom
  <2>2. LocalOK(p)'
    BY <1>1, <2>1, NothingKnown DEF RecordInv, LocalOK, Copying
  <2> QED
    BY <1>1, <2>2, RecordsKept DEF Lookups
<1> QED
  BY <1>2, <1>3 DEF FindTask, FindNoTask

(* AddTask and UpdTask delete no task.                                     *)
LEMMA TaskWritesKeep ==
    ASSUME OneUser, IInv, RecordInv, NEW p \in Proc, AddInsert(p) \/ UpdUpdate(p)
    PROVE  RecordInv'
<1>1. DOMAIN tasks \subseteq DOMAIN tasks' /\ UNCHANGED records
  BY DEF AddInsert, UpdUpdate, Insert, Retitle
<1>2. pc[p] \in {"addInsert", "updUpdate"} /\ Return(p, "OK")
  BY DEF AddInsert, UpdUpdate, Commits, InsertRefused, WriteBusy
<1> QED
  BY <1>1, <1>2, LeftRecords DEF Return

(* DelTask deletes the task and then, nobody coming between, its records.  *)
LEMMA DeletingKeeps ==
    ASSUME OneUser, IInv, UserInv, RecordInv, NEW p \in Proc,
           DelTaskRow(p) \/ DelRecords(p)
    PROVE  RecordInv'
<1>1. \A q \in Proc : q = p
  BY DEF OneUser
<1>2. CASE DelTaskRow(p)
  <2>1. /\ UNCHANGED records /\ DOMAIN tasks' = DOMAIN tasks \ {taskId[p]}
        /\ pc[p] = "delTask"
    BY <1>2, NeverBusy DEF DelTaskRow, Commits, Delete, Restrict
  <2>2. pc'[p] = "delRecords" /\ UNCHANGED taskId
    BY <1>2, WentOnFrom DEF DelTaskRow
  <2>3. RecordsHaveTasks'
    BY <1>1, <2>1, <2>2 DEF RecordInv, RecordsHaveTasks
  <2>4. InOrder'
    BY <2>1 DEF RecordInv, InOrder
  <2>5. LocalOK(p)'
    BY <2>2, NothingKnown DEF Creates, Lookups
  <2> QED
    BY <1>1, <2>3, <2>4, <2>5 DEF RecordInv
<1>3. CASE DelRecords(p)
  <2>1. /\ pc[p] = "delRecords" /\ UNCHANGED tasks
        /\ DOMAIN records' = DOMAIN records \ RecordsOf(records, taskId[p])
        /\ \A r \in DOMAIN records' : records'[r] = records[r]
    BY <1>3, NeverBusy DEF DelRecords, Commits, Delete, Restrict
  <2>2. pc'[p] = "idle" /\ recordId'[p] = 0
    BY <1>3 DEF DelRecords, Return, ReturnShowing, IInv, TypeOK, SessionOK
  <2>3. RecordsHaveTasks'
    BY <1>1, <2>1 DEF RecordInv, RecordsHaveTasks, RecordsOf
  <2>4. InOrder'
    BY <2>1 DEF RecordInv, InOrder
  <2>5. LocalOK(p)'
    BY <2>2, NothingKnown
  <2> QED
    BY <1>1, <2>3, <2>4, <2>5 DEF RecordInv
<1> QED
  BY <1>2, <1>3

(* A SELECT of the open periods that gives no row has seen that there are   *)
(* none.                                                                   *)
LEMMA FoundOpenKeeps ==
    ASSUME OneUser, IInv, RecordInv, NEW p \in Proc,
           NEW at \in {"startSelect", "stopSelect", "statusSelect"}, FindOpen(p, at)
    PROVE  RecordInv'
<1>1. PICK k \in RowId \cup {0} :
         IsFirst(OpenRecords(records), k) /\ recordId' = [recordId EXCEPT ![p] = k]
  BY DEF FindOpen
<1>2. UNCHANGED <<tasks, records, pc, taskId>> /\ recordId'[p] = k /\ pc[p] = at
  BY <1>1 DEF FindOpen, OpensSelect, file, IInv, TypeOK, SessionOK
<1>3. k = 0 => OpenRecords(records) = {}
  <2>1. OpenRecords(records) \subseteq RowId
    BY DEF OpenRecords, IInv, TypeOK, FileOK
  <2> QED
    BY <1>1, <2>1, RowAssumption DEF IsFirst, RowId
<1>4. LocalOK(p)'
  BY <1>2, <1>3 DEF LocalOK, EndedBefore, SawFree, Copying, Creates, Lookups, OpenRecords
<1> QED
  BY <1>2, <1>4, RecordsKept

(* Every end is in the past when StartTask comes to its INSERT.            *)
LEMMA AllEnded ==
    ASSUME IInv, IInv', NEW p \in Proc, StartTime(p)
    PROVE  LocalOK(p)'
<1>1. pc'[p] = "startInsert" /\ now'[p] = clock /\ UNCHANGED clock
  BY DEF StartTime, Jump, GetCurrentDatetime, IInv, TypeOK, SessionOK
<1>2. EndedBefore(p)'
  BY <1>1 DEF EndedBefore, IInv, PeriodsForward
<1> QED
  BY <1>1, <1>2 DEF LocalOK, SawFree, Copying, Creates, Lookups

(* Ending the open period: it is the last of its task.                     *)
LEMMA ClosingKeeps ==
    ASSUME OneUser, IInv, RecordInv, NEW p \in Proc, pc[p] \in {"startEnd", "stopEnd"},
           records' = CloseRecord(records, recordId[p], now[p]), UNCHANGED tasks,
           LocalOK(p)'
    PROVE  RecordInv'
<1>1. \A q \in Proc : q = p
  BY DEF OneUser
<1>2. recordId[p] \in OpenRecords(records) /\ now[p] # Null
  BY RowAssumption DEF IInv, ProcOK, HoldsRow, TypeOK, SessionOK, Time
<1>3. \A r \in DOMAIN records : records[r] \in RecordRow
  BY DEF IInv, TypeOK, FileOK
<1>4. DOMAIN records' = DOMAIN records
  BY DEF CloseRecord
<1>5. \A r \in DOMAIN records :
         /\ records'[r].task = records[r].task /\ records'[r].begin = records[r].begin
         /\ records'[r].end = IF r = recordId[p] THEN now[p] ELSE records[r].end
  BY <1>3 DEF CloseRecord, RecordRow
<1>6. RecordsHaveTasks'
  BY <1>1, <1>4, <1>5 DEF RecordInv, RecordsHaveTasks
<1>7. InOrder'
  BY <1>2, <1>4, <1>5 DEF RecordInv, InOrder, OpenRecords
<1> QED
  BY <1>1, <1>6, <1>7 DEF RecordInv

(* Inserting a period of a task after all the others have ended.           *)
LEMMA InsertingKeeps ==
    ASSUME OneUser, IInv, RecordInv, NEW p \in Proc, pc[p] # "delRecords",
           NEW id \in RowId, FreshRowid(records, id), NEW row,
           row.task \in DOMAIN tasks,
           \A r \in RecordsOf(records, row.task) :
               /\ records[r].end # Null
               /\ records[r].end \in Nat => records[r].end <= row.begin,
           records' = Insert(records, id, row), UNCHANGED tasks, LocalOK(p)'
    PROVE  RecordInv'
<1>1. \A q \in Proc : q = p
  BY DEF OneUser
<1>2. DOMAIN records \subseteq RowId
  BY DEF IInv, TypeOK, FileOK
<1>3. \A k \in DOMAIN records : k < id /\ ~(id < k) /\ k # id
  BY <1>2, RowAssumption DEF FreshRowid, RowId
<1>4. /\ DOMAIN records' = DOMAIN records \cup {id} /\ records'[id] = row
      /\ \A k \in DOMAIN records : records'[k] = records[k]
  BY <1>3 DEF Insert
<1>5. RecordsHaveTasks'
  BY <1>1, <1>4 DEF RecordInv, RecordsHaveTasks
<1>6. ~(id < id)
  BY RowAssumption DEF RowId
<1>7. InOrder'
  BY <1>3, <1>4, <1>6 DEF RecordInv, InOrder, RecordsOf
<1> QED
  BY <1>1, <1>5, <1>7 DEF RecordInv

(* StartTask, StopTask and Status.                                         *)
LEMMA RunningKeeps ==
    ASSUME OneUser, AllInv, IInv', NEW p \in Proc,
           \/ StartRow(p) \/ StartEnd(p) \/ StartFinish(p) \/ StartTime(p)
           \/ StopRow(p) \/ StopEnd(p) \/ StatusRow(p)
    PROVE  RecordInv'
<1>0. \A at : ~SelectBusy(p, at) /\ ~WriteBusy(p, at)
  BY NeverBusy
<1>1. UNCHANGED tasks /\ pc[p] # "delRecords"
  BY DEF StartRow, StartEnd, StartFinish, StartTime, StopRow, StopEnd, StatusRow, HasRow,
         NoRow, SelectBusy, Commits, WriteBusy, file
<1>2. ASSUME NEW code, NEW shown, ReturnShowing(p, code, shown)
      PROVE  LocalOK(p)'
  <2>1. pc'[p] = "idle" /\ recordId'[p] = 0
    BY <1>2 DEF ReturnShowing, AllInv, IInv, TypeOK, SessionOK
  <2> QED
    BY <2>1, NothingKnown
<1>3. ASSUME NEW at \in {"startEnd", "stopEnd", "startFinish", "startTime"}, Jump(p, at)
      PROVE  LocalOK(p)'
  <2>1. pc'[p] = at
    BY <1>3 DEF Jump, AllInv, IInv, TypeOK, SessionOK
  <2> QED
    BY <2>1, NothingKnown DEF Creates, Lookups
<1>4. CASE StartRow(p) \/ StartFinish(p) \/ StartTime(p) \/ StopRow(p) \/ StatusRow(p)
  <2>1. UNCHANGED records
    BY <1>4 DEF StartRow, StartFinish, StartTime, StopRow, StatusRow, file
  <2>2. LocalOK(p)'
    BY <1>2, <1>3, <1>4, AllEnded DEF StartRow, StartFinish, StopRow, StatusRow, Return,
       ThenHolding, Proceed, AllInv
  <2> QED
    BY <1>1, <2>1, <2>2, RecordsKept DEF AllInv
<1>5. CASE StartEnd(p) \/ StopEnd(p)
  <2>1. /\ pc[p] \in {"startEnd", "stopEnd"}
        /\ records' = CloseRecord(records, recordId[p], now[p])
    BY <1>0, <1>5 DEF StartEnd, StopEnd, Commits
  <2>2. LocalOK(p)'
    BY <1>2, <1>3, <1>5 DEF StartEnd, StopEnd, Return
  <2> QED
    BY <1>1, <2>1, <2>2, ClosingKeeps DEF AllInv
<1> QED
  BY <1>4, <1>5

(* StartTask begins its period after every other has ended.                *)
LEMMA BeginningKeeps ==
    ASSUME OneUser, AllInv, NEW p \in Proc, StartInsert(p)
    PROVE  RecordInv'
<1>1. pc[p] = "startInsert" /\ UNCHANGED tasks /\ Return(p, "OK")
  BY DEF StartInsert, Commits, InsertRefused, WriteBusy
<1>2. CASE UNCHANGED records
  BY <1>1, <1>2, LeftRecords DEF Return, AllInv
<1>3. CASE records' # records
  <2>1. PICK id \in RowId :
           /\ FreshRowid(records, id)
           /\ records' = Insert(records, id, [task  |-> taskId[p],
                                              begin |-> now[p],
                                              end   |-> Null])
    BY <1>3 DEF StartInsert
  <2>2. taskId[p] \in DOMAIN tasks
    BY <1>1 DEF AllInv, UserInv, UserOK, Sees, UsesTaskId, WithLabel
  <2>3. \A r \in DOMAIN records :
           records[r].end # Null /\ (records[r].end \in Nat => records[r].end <= now[p])
    BY <1>1 DEF AllInv, OneInv, SawNothingOpen, PastOpen, NothingOpen, OpenRecords, RecordInv,
       LocalOK, EndedBefore
  <2>4. pc'[p] = "idle" /\ recordId'[p] = 0
    BY <1>1 DEF Return, ReturnShowing, AllInv, IInv, TypeOK, SessionOK
  <2>5. LocalOK(p)'
    BY <2>4, NothingKnown
  <2> DEFINE row == [task |-> taskId[p], begin |-> now[p], end |-> Null]
  <2>6. /\ row.task \in DOMAIN tasks
        /\ \A r \in RecordsOf(records, row.task) :
              records[r].end # Null /\ (records[r].end \in Nat => records[r].end <= row.begin)
    BY <2>2, <2>3 DEF RecordsOf
  <2>7. records' = Insert(records, id, row)
    BY <2>1
  <2> HIDE DEF row
  <2> QED
    BY <1>1, <2>1, <2>5, <2>6, <2>7, InsertingKeeps DEF AllInv
<1> QED
  BY <1>2, <1>3

-----------------------------------------------------------------------------
(* The steps of CopyTask. *)

(* The new task has no periods.                                            *)
LEMMA CopyInsertBegins ==
    ASSUME OneUser, AllInv, NEW p \in Proc, CopyInsert(p)
    PROVE  RecordInv'
<1>1. pc[p] = "copyInsert" /\ UNCHANGED records
  BY DEF CopyInsert, Commits, InsertRefused, WriteBusy
<1>2. CASE Return(p, "DATABASE_ERROR") /\ UNCHANGED tasks
  BY <1>1, <1>2, LeftRecords DEF Return, AllInv
<1>3. CASE ~(Return(p, "DATABASE_ERROR") /\ UNCHANGED tasks)
  <2>1. PICK id \in RowId :
           /\ FreshRowid(tasks, id)
           /\ tasks' = Insert(tasks, id, [label |-> cmd[p].newLabel,
                                          title |-> cmd[p].title])
           /\ newId' = [newId EXCEPT ![p] = id]
           /\ Jump(p, "copyFetch")
           /\ UNCHANGED <<taskId, recordId>>
    BY <1>3 DEF CopyInsert
  <2>2. pc'[p] = "copyFetch" /\ newId'[p] = id /\ recordId'[p] = 0
    BY <1>1, <2>1 DEF Jump, AllInv, IInv, TypeOK, SessionOK, RecordInv, LocalOK, Copying
  <2>3. DOMAIN tasks \subseteq DOMAIN tasks' /\ id \notin DOMAIN tasks
    BY <2>1, RowAssumption DEF Insert, FreshRowid, RowId
  <2>4. RecordsOf(records', newId'[p]) = {}
    BY <1>1, <2>2, <2>3 DEF RecordsOf, AllInv, RecordInv, RecordsHaveTasks, OneUser
  <2>5. Copied(p)' = {}
    <3>1. DOMAIN records \subseteq RowId
      BY DEF AllInv, IInv, TypeOK, FileOK
    <3>2. \A k \in RowId : ~(k < 0) /\ k # 0
      BY RowAssumption DEF RowId
    <3> QED
      BY <1>1, <2>2, <3>1, <3>2 DEF Copied, RecordsOf
  <2> DEFINE g == [s \in {} |-> 0]
  <2>6. g \in [RecordsOf(records, newId[p])' -> Copied(p)']
    BY <2>4, <2>5
  <2>7. IsCopy(p, g)'
    BY <2>5 DEF IsCopy
  <2>8. LocalOK(p)'
    BY <2>2, <2>6, <2>7 DEF LocalOK, EndedBefore, SawFree, Copying, Creates, Lookups
  <2> QED
    BY <1>1, <2>3, <2>8, RecordsKept DEF AllInv
<1> QED
  BY <1>2, <1>3

(* The scan goes on to the next record of the original, or to its end.     *)
LEMMA CopyFetchGoesOn ==
    ASSUME OneUser, AllInv, NEW p \in Proc, CopyFetch(p)
    PROVE  RecordInv'
<1>1. pc[p] = "copyFetch" /\ UNCHANGED <<tasks, records>>
  BY DEF CopyFetch, SelectBusy, file
<1>2. CASE Return(p, "OK")
  BY <1>1, <1>2, LeftRecords DEF Return, AllInv
<1>3. CASE ~Return(p, "OK")
  <2>1. PICK k \in RowId :
           /\ IsFirst(RemainingRecords(p), k)
           /\ recordId' = [recordId EXCEPT ![p] = k]
           /\ Jump(p, "copyRecord")
           /\ UNCHANGED <<taskId, newId>>
    BY <1>3 DEF CopyFetch
  <2>2. pc'[p] = "copyRecord" /\ recordId'[p] = k
    BY <2>1 DEF Jump, AllInv, IInv, TypeOK, SessionOK
  <2>3. Copied(p)' = Copied(p)
    <3>1. RecordsOf(records, taskId[p]) \subseteq Nat
      BY DEF RecordsOf, RowId, AllInv, IInv, TypeOK, FileOK
    <3>2. recordId[p] \in Nat /\ k \in Nat
      BY DEF RowId, AllInv, IInv, TypeOK, SessionOK
    <3>3. /\ k > recordId[p]
          /\ \A j \in RecordsOf(records, taskId[p]) : j > recordId[p] => k <= j
      BY <2>1, RowAssumption DEF IsFirst, RemainingRecords, RowId
    <3>4. \A j \in RecordsOf(records, taskId[p]) :
             j < k <=> (j < recordId[p] \/ j = recordId[p])
      BY <3>1, <3>2, <3>3
    <3> QED
      BY <1>1, <2>1, <2>2, <3>4 DEF Copied
  <2>4. PICK g \in [RecordsOf(records, newId[p]) -> Copied(p)] : IsCopy(p, g)
    BY <1>1 DEF AllInv, RecordInv, LocalOK, Copying
  <2>5. IsCopy(p, g)'
    BY <1>1, <2>1, <2>3, <2>4 DEF IsCopy, Full
  <2>6. RecordsOf(records, newId[p])' = RecordsOf(records, newId[p])
    BY <1>1, <2>1
  <2>7. LocalOK(p)'
    BY <2>2, <2>3, <2>4, <2>5, <2>6
    DEF LocalOK, EndedBefore, SawFree, Copying, Creates, Lookups
  <2> QED
    BY <1>1, <2>7, RecordsKept DEF AllInv
<1> QED
  BY <1>2, <1>3

(* The copy of a record ends as the original does, so it is in order too,   *)
(* and it extends the map from copies to originals.                        *)
LEMMA CopyRecordAdds ==
    ASSUME OneUser, AllInv, NEW p \in Proc, CopyRecord(p)
    PROVE  RecordInv'
<1>1. pc[p] = "copyRecord" /\ UNCHANGED <<tasks, taskId, newId, recordId>>
  BY DEF CopyRecord, Commits, InsertRefused, WriteBusy, local
<1>2. pc'[p] = "copyFetch" /\ lock'[p] = "shared"
  BY DEF CopyRecord, Jump, Hold, AllInv, IInv, TypeOK, SessionOK
<1>3. /\ recordId[p] \in RecordsOf(records, taskId[p]) /\ recordId[p] \in DOMAIN records
      /\ newId[p] \in DOMAIN tasks /\ newId[p] # taskId[p]
  BY <1>1 DEF AllInv, UserInv, UserOK, Sees, WithLabel, RecordsOf
<1>4. DOMAIN records \subseteq RowId /\ \A r \in DOMAIN records : records[r] \in RecordRow
  BY DEF AllInv, IInv, TypeOK, FileOK
<1>5. PICK g \in [RecordsOf(records, newId[p]) -> Copied(p)] : IsCopy(p, g)
  BY <1>1 DEF AllInv, RecordInv, LocalOK, Copying
<1>6. Copied(p) = {k \in RecordsOf(records, taskId[p]) : k < recordId[p]}
  <2>1. pc[p] # "copyFetch"
    BY <1>1
  <2> QED
    BY <2>1 DEF Copied
<1>7. ~(recordId[p] < recordId[p])
  BY <1>3, <1>4 DEF RowId
<1>8. CASE InsertRefused(p, "copyRecord", records) /\ UNCHANGED records
  <2>1. Full(records)
    BY <1>8, NeverBusy DEF InsertRefused
  <2>2. /\ RecordsOf(records, newId[p])' = RecordsOf(records, newId[p])
        /\ RecordsOf(records, taskId[p])' = RecordsOf(records, taskId[p])
    BY <1>1, <1>8
  <2>3. Copied(p) \subseteq Copied(p)'
    BY <1>1, <1>2, <1>6, <2>2 DEF Copied
  <2>4. IsCopy(p, g)'
    BY <1>1, <1>5, <1>8, <2>1 DEF IsCopy, Full
  <2>5. Copying(p)'
    BY <1>2, <1>5, <2>2, <2>3, <2>4 DEF Copying, Creates, Lookups
  <2>6. LocalOK(p)'
    BY <1>2, <2>5 DEF LocalOK, EndedBefore, SawFree
  <2> QED
    BY <1>1, <1>8, <2>6, RecordsKept DEF AllInv
<1> DEFINE row == [task  |-> newId[p],
                   begin |-> records[recordId[p]].begin,
                   end   |-> Rebound(records[recordId[p]].end)]
<1>9. CASE \E id \in RowId : FreshRowid(records, id) /\ records' = Insert(records, id, row)
  <2>1. PICK id \in RowId : FreshRowid(records, id) /\ records' = Insert(records, id, row)
    BY <1>9
  <2>2. \A k \in DOMAIN records : k < id /\ ~(id < k) /\ k # id
    BY <1>4, <2>1, RowAssumption DEF FreshRowid, RowId
  <2>3. /\ DOMAIN records' = DOMAIN records \cup {id} /\ records'[id] = row
        /\ \A k \in DOMAIN records : records'[k] = records[k]
    BY <2>1, <2>2 DEF Insert
  <2>4. /\ RecordsOf(records, newId[p])' = RecordsOf(records, newId[p]) \cup {id}
        /\ RecordsOf(records, taskId[p])' = RecordsOf(records, taskId[p])
    BY <1>1, <1>3, <2>2, <2>3 DEF RecordsOf
  <2>5. Copied(p)' = Copied(p) \cup {recordId[p]}
    BY <1>1, <1>2, <1>3, <1>6, <2>4 DEF Copied
  <2>6. ~(id < id)
    BY RowAssumption DEF RowId
  <2>7. row.task = newId[p]
    OBVIOUS
  <2>8. PICK h \in [RecordsOf(records, newId[p])' -> Copied(p)'] :
           h = [s \in RecordsOf(records, newId[p])' |->
                   IF s = id THEN recordId[p] ELSE g[s]]
    BY <2>4, <2>5
  <2>9. \A s \in RecordsOf(records, newId[p]) :
           /\ s # id /\ s < id /\ ~(id < s) /\ h[s] = g[s]
           /\ g[s] \in DOMAIN records /\ g[s] \in RecordsOf(records, taskId[p])
           /\ g[s] < recordId[p]
    BY <1>5, <1>6, <2>2, <2>4, <2>8 DEF RecordsOf
  <2>10. h[id] = recordId[p] /\ DOMAIN h = RecordsOf(records, newId[p]) \cup {id}
    BY <2>4, <2>8
  <2>11. DOMAIN g = RecordsOf(records, newId[p])
    BY <1>5
  <2>12. \A s \in DOMAIN h :
            records'[s] = [task  |-> newId'[p],
                           begin |-> records'[h[s]].begin,
                           end   |-> Rebound(records'[h[s]].end)]
    <3>1. records'[id] = [task  |-> newId'[p],
                          begin |-> records'[h[id]].begin,
                          end   |-> Rebound(records'[h[id]].end)]
      BY <1>1, <1>3, <2>3, <2>10
    <3>2. ASSUME NEW s \in RecordsOf(records, newId[p])
          PROVE  records'[s] = [task  |-> newId'[p],
                                begin |-> records'[h[s]].begin,
                                end   |-> Rebound(records'[h[s]].end)]
      <4>1. s \in DOMAIN records
        BY DEF RecordsOf
      <4>2. records'[s] = records[s] /\ records'[g[s]] = records[g[s]] /\ h[s] = g[s]
        BY <2>3, <2>9, <4>1
      <4> QED
        BY <1>1, <1>5, <2>11, <4>2 DEF IsCopy
    <3> QED
      BY <2>10, <3>1, <3>2
  <2> HIDE DEF row
  <2>13. \A r, s \in DOMAIN h : r < s => h[r] < h[s]
    BY <1>5, <2>6, <2>9, <2>10, <2>11 DEF IsCopy
  <2>14. Full(records)' \/ \A k \in Copied(p)' : \E s \in DOMAIN h : h[s] = k
    BY <1>5, <2>3, <2>5, <2>9, <2>10, <2>11 DEF IsCopy, Full
  <2>15. IsCopy(p, h)'
    BY <2>12, <2>13, <2>14 DEF IsCopy
  <2>16. Copying(p)'
    BY <1>2, <2>8, <2>15 DEF Copying, Creates, Lookups
  <2>17. LocalOK(p)'
    BY <1>2, <2>16 DEF LocalOK, EndedBefore, SawFree
  <2>18. ASSUME NEW r \in RecordsOf(records, newId[p])
         PROVE  /\ records[r].end # Null
                /\ records[r].end \in Nat => records[r].end <= row.begin
    <3>1. /\ g[r] \in DOMAIN records /\ g[r] < recordId[p]
          /\ records[g[r]].task = records[recordId[p]].task
      BY <1>3, <2>9, <2>18 DEF RecordsOf
    <3>2. records[r].end = Rebound(records[g[r]].end)
      <4>1. records[r] = [task  |-> newId[p],
                          begin |-> records[g[r]].begin,
                          end   |-> Rebound(records[g[r]].end)]
        BY <1>5, <2>11, <2>18 DEF IsCopy
      <4> QED
        BY <4>1
    <3>3. records[g[r]].end \in Nat => records[g[r]].end <= records[recordId[p]].begin
      BY <1>3, <3>1 DEF AllInv, RecordInv, InOrder
    <3> QED
      BY <3>2, <3>3, RowAssumption DEF Rebound, row
  <2> QED
    BY <1>1, <1>3, <2>1, <2>7, <2>17, <2>18, InsertingKeeps DEF AllInv
<1> QED
  BY <1>8, <1>9 DEF CopyRecord

-----------------------------------------------------------------------------
(* All that is known is inductive, if nothing is killed. *)

(* The program's own steps keep RecordInv. *)
LEMMA StepRecordInv ==
    ASSUME OneUser, AllInv, IInv', NEW p \in Proc, Step(p)
    PROVE  RecordInv'
<1>0. IInv /\ UserInv /\ RecordInv
  BY DEF AllInv
<1>1. CASE PrepareFails(p)
  <2>1. pc[p] \notin {"idle"} \cup Creates
    BY <1>1 DEF PrepareFails, Selects, Writes, Creates
  <2> QED
    BY <1>0, <1>1, <2>1, AlwaysPrepared
<1>2. ASSUME NEW op, NEW at \in {"updUpdate", "delTask", "startSelect", "copyInsert"},
             FindTask(p, op, at)
      PROVE  RecordInv'
  BY <1>0, <1>2, LookedUpKeeps DEF Lookups
<1>3. ASSUME NEW at \in Lookups, NEW op, NEW next \in {"addInsert", "lookup"},
             FindNoTask(p, at, op, next)
      PROVE  RecordInv'
  BY <1>0, <1>3, LookedUpKeeps
<1>4. CASE AddTask(p) \/ UpdTask(p)
  BY <1>0, <1>2, <1>3, <1>4, TaskWritesKeep DEF AddTask, UpdTask, Lookups
<1>5. CASE DelTask(p)
  BY <1>0, <1>2, <1>5, DeletingKeeps DEF DelTask
<1>6. CASE StartTask(p) \/ StopTask(p) \/ Status(p)
  BY <1>0, <1>2, <1>6, FoundOpenKeeps, RunningKeeps, BeginningKeeps
  DEF StartTask, StopTask, Status
<1>7. CASE CopyTask(p)
  BY <1>0, <1>2, <1>3, <1>7, OpeningKeeps, CopyInsertBegins, CopyFetchGoesOn, CopyRecordAdds
  DEF CopyTask, Lookups
<1> QED
  BY <1>0, <1>1, <1>4, <1>5, <1>6, <1>7, OpeningKeeps DEF Step

(* Every step keeps RecordInv; there are no kills.                          *)
LEMMA NextRecordInv ==
    ASSUME Undisturbed, AllInv, IInv', [Next]_vars
    PROVE  RecordInv'
<1>0. OneUser /\ IInv /\ RecordInv
  BY DEF Undisturbed, AllInv
<1>1. ASSUME NEW p \in Proc, Step(p) PROVE RecordInv'
  BY <1>0, <1>1, StepRecordInv
<1>2. ASSUME NEW p \in Proc, Crash(p) PROVE FALSE
  BY <1>2 DEF Crash, Undisturbed
<1>3. ASSUME NEW p \in Proc, NEW c \in Command, Begin(p, c) PROVE RecordInv'
  <2>1. pc[p] = "idle" /\ pc'[p] = "createTasks" /\ UNCHANGED <<tasks, records, recordId>>
    BY <1>0, <1>3 DEF Begin, file, local, IInv, TypeOK, SessionOK
  <2>2. LocalOK(p)'
    BY <1>0, <2>1, NothingKnown DEF RecordInv, LocalOK, Copying
  <2> QED
    BY <1>0, <2>1, <2>2, RecordsKept
<1>4. CASE Tick \/ Quiet \/ UNCHANGED vars
  <2>1. UNCHANGED <<tasks, records, pc, taskId, recordId, newId, now, lock>>
    BY <1>4 DEF Tick, Quiet, vars, file, local
  <2>2. ASSUME NEW p \in Proc PROVE RecordInv'
    BY <1>0, <2>1, LocksKeepRecords
  <2>3. CASE Proc = {}
    BY <1>0, <2>1, <2>3 DEF RecordInv, RecordsHaveTasks, InOrder
  <2> QED
    BY <2>2, <2>3
<1> QED
  BY <1>1, <1>2, <1>3, <1>4 DEF Next

(* AllInv is an invariant of the specification.                             *)
LEMMA UndisturbedInvariant ==
    ASSUME Undisturbed
    PROVE  Spec => []AllInv
<1>0. OneUser
  BY DEF Undisturbed
<1>1. Init => RecordInv
  BY DEF Init, RecordInv, RecordsHaveTasks, InOrder, LocalOK, EndedBefore, SawFree, Copying
<1>2. Spec => [](IInv /\ OneInv)
  BY <1>0, OneInvariant
<1>3. Spec => [](IInv /\ UserInv)
  BY <1>0, UserInvariant
<1>4. AllInv /\ IInv' /\ [Next]_vars => RecordInv'
  BY NextRecordInv
<1>5. AllInv <=> IInv /\ OneInv /\ UserInv /\ RecordInv
  BY DEF AllInv
<1> QED
  BY <1>1, <1>2, <1>3, <1>4, <1>5, PTL DEF Spec

(* DelTask leaves no record behind, so no later task of the same id         *)
(* inherits one: while a record is there its task is, but for the moment    *)
(* between the two statements of DelTask.                                  *)
THEOREM UndisturbedRecordsHaveTasks ==
    ASSUME Undisturbed
    PROVE  Spec => []RecordsHaveTasks
<1>1. AllInv => RecordsHaveTasks
  BY DEF AllInv, RecordInv
<1> QED
  BY <1>1, UndisturbedInvariant, PTL

(* The periods of a task, copied ones included, do not overlap, so a sum of *)
(* them counts no moment twice.                                            *)
THEOREM UndisturbedNoDoubleCounting ==
    ASSUME Undisturbed
    PROVE  Spec => []NoDoubleCounting
<1>1. AllInv => NoDoubleCounting
  BY DEF AllInv, RecordInv, InOrder, NoDoubleCounting
<1> QED
  BY <1>1, UndisturbedInvariant, PTL

-----------------------------------------------------------------------------
(* What status and copy report. *)

(* Status says NOTHING_RUNNING only if nothing is: its second SELECT always *)
(* finds the task of the record that the first has found.                  *)
THEOREM UndisturbedStatus ==
    ASSUME Undisturbed
    PROVE  Spec => FreeMeansNothingOpen
<1>1. AllInv /\ [Next]_vars => [\A p \in Proc : Free(p)]_vars
  <2> SUFFICES ASSUME AllInv, Next, NEW p \in Proc, Returns(p, "status", "NOTHING_RUNNING")
               PROVE  OpenRecords(records) = {}
    BY DEF Free
  <2>0. OneUser /\ IInv /\ UserInv /\ RecordsHaveTasks /\ SawFree(p)
    BY DEF Undisturbed, AllInv, RecordInv, LocalOK
  <2>1. LastStatement(p) /\ cmd[p].op = "status" /\ reply'[p].code = "NOTHING_RUNNING"
    BY <2>0, WhoReturns DEF Refusals, Returns
  <2>2. StatusRow(p)
    BY <2>0, <2>1, LastOf
  <2>3. CASE NoRow(p, "statusSelect")
    BY <2>0, <2>3, NeverBusy DEF NoRow, SawFree
  <2>4. CASE HasRow(p, "statusSelect")
    <3>1. pc[p] = "statusSelect" /\ recordId[p] \in DOMAIN records
      BY <2>0, <2>4 DEF HasRow, IInv, ProcOK, HoldsRow, OpenRecords
    <3>2. records[recordId[p]].task \in DOMAIN tasks
      BY <2>0, <3>1 DEF RecordsHaveTasks, OneUser
    <3>3. ~NoRow(p, "statusSelect")
      BY <2>4 DEF HasRow, NoRow, SelectBusy
    <3>4. \E shown : ReturnShowing(p, "ALREADY_RUNNING", shown)
      BY <2>2, <3>2, <3>3 DEF StatusRow
    <3> QED
      BY <2>0, <2>1, <3>4 DEF ReturnShowing, IInv, TypeOK, SessionOK
  <2> QED
    BY <2>2, <2>3, <2>4 DEF StatusRow
<1> QED
  BY <1>1, UndisturbedInvariant, PTL DEF Spec, FreeMeansNothingOpen

(* Two sets of records that a map pairs off have as many elements.         *)
LEMMA PairedOff ==
    ASSUME NEW g, NEW A \in SUBSET DOMAIN g, NEW B, IsFiniteSet(A),
           \A r, s \in A : g[r] = g[s] => r = s,
           \A s \in A : g[s] \in B,
           \A k \in B : \E s \in A : g[s] = k
    PROVE  Cardinality(A) = Cardinality(B)
<1> DEFINE f == [s \in A |-> g[s]]
<1>1. f \in [A -> B]
  OBVIOUS
<1>2. f \in Bijection(A, B)
  BY <1>1, Fun_IsBij
<1>3. ExistsBijection(A, B)
  BY <1>2 DEF ExistsBijection
<1> QED
  BY <1>3, FS_Bijection

(* CopyTask reports success only when the map to the originals is whole.   *)
LEMMA CopiedAll ==
    ASSUME OneUser, AllInv, ~Full(records), NEW p \in Proc, CopyFetch(p), Return(p, "OK")
    PROVE  \E g \in [RecordsOf(records, newId[p]) -> RecordsOf(records, taskId[p])] :
               /\ IsCopy(p, g)
               /\ \A k \in RecordsOf(records, taskId[p]) :
                     \E s \in RecordsOf(records, newId[p]) : g[s] = k
<1>1. pc[p] = "copyFetch"
  BY DEF CopyFetch, SelectBusy
<1>2. IsFirst(RemainingRecords(p), 0)
  <2>1. pc'[p] = "idle"
    BY DEF Return, ReturnShowing, AllInv, IInv, TypeOK, SessionOK
  <2>2. ~Jump(p, "copyRecord")
    BY <2>1 DEF Jump, AllInv, IInv, TypeOK, SessionOK
  <2> QED
    BY <2>2, NeverBusy DEF CopyFetch
<1>3. RecordsOf(records, taskId[p]) \subseteq RowId
  BY DEF RecordsOf, AllInv, IInv, TypeOK, FileOK
<1>4. RemainingRecords(p) = {}
  <2>1. 0 \notin RowId
    BY RowAssumption DEF RowId
  <2> QED
    BY <1>2, <1>3, <2>1 DEF IsFirst, RemainingRecords
<1>5. recordId[p] \in Nat
  BY DEF RowId, AllInv, IInv, TypeOK, SessionOK
<1>6. \A k \in RowId : k > recordId[p] \/ k < recordId[p] \/ k = recordId[p]
  BY <1>5 DEF RowId
<1>7. Copied(p) = RecordsOf(records, taskId[p])
  BY <1>1, <1>3, <1>4, <1>6 DEF Copied, RemainingRecords
<1>8. PICK g \in [RecordsOf(records, newId[p]) -> Copied(p)] : IsCopy(p, g)
  BY <1>1 DEF AllInv, RecordInv, LocalOK, Copying
<1>9. \A k \in Copied(p) : \E s \in RecordsOf(records, newId[p]) : g[s] = k
  <2>1. DOMAIN g = RecordsOf(records, newId[p])
    BY <1>8
  <2> QED
    BY <1>8, <2>1 DEF IsCopy
<1> QED
  BY <1>7, <1>8, <1>9

(* As long as SQLite has rowids left, a copy has the periods of its         *)
(* original, every one once, although each is a commit of its own and the   *)
(* table is scanned while it grows.                                        *)
THEOREM UndisturbedCopy ==
    ASSUME Undisturbed
    PROVE  Spec /\ []HasRoom => CopiesAllRecords
<1>1. AllInv /\ HasRoom /\ [Next]_vars => [\A p \in Proc : Whole(p)]_vars
  <2> SUFFICES ASSUME AllInv, HasRoom, Next, NEW p \in Proc, Returns(p, "copy", "OK"),
                      NEW b \in Time
               PROVE  /\ \A e \in Time : Periods(newId[p], b, e) = Periods(taskId[p], b, e)
                      /\ Periods(newId[p], b, Null) = 0
                      /\ Periods(newId[p], b, Blank)
                            = Periods(taskId[p], b, Null) + Periods(taskId[p], b, Blank)
    BY DEF Whole
  <2>0. OneUser /\ IInv /\ UserInv /\ ~Full(records)
    BY DEF Undisturbed, AllInv, HasRoom
  <2>1. LastStatement(p) /\ cmd[p].op = "copy" /\ pc'[p] = "idle"
    BY <2>0, WhoReturns DEF Refusals, Returns
  <2>2. CopyFetch(p)
    BY <2>0, <2>1, LastOf
  <2>3. Return(p, "OK")
    <3>1. ~Jump(p, "copyRecord")
      BY <2>0, <2>1 DEF Jump, IInv, TypeOK, SessionOK
    <3> QED
      BY <2>2, <3>1 DEF CopyFetch
  <2> DEFINE copies == RecordsOf(records, newId[p])
             originals == RecordsOf(records, taskId[p])
  <2>4. PICK g \in [copies -> originals] :
           /\ IsCopy(p, g)
           /\ \A k \in originals : \E s \in copies : g[s] = k
    BY <2>0, <2>2, <2>3, CopiedAll
  <2>5. \A r, s \in copies : g[r] = g[s] => r = s
    <3>1. \A r, s \in copies : r < s => g[r] < g[s]
      BY <2>4 DEF IsCopy
    <3>2. copies \subseteq Nat /\ originals \subseteq Nat
      BY <2>0 DEF RecordsOf, RowId, IInv, TypeOK, FileOK
    <3> HIDE DEF copies, originals
    <3>3. SUFFICES ASSUME NEW r \in copies, NEW s \in copies, g[r] = g[s], r # s
                   PROVE  FALSE
      OBVIOUS
    <3>4. r \in Nat /\ s \in Nat /\ g[r] \in Nat /\ g[s] \in Nat
      BY <2>4, <3>2
    <3>5. r < s \/ s < r
      BY <3>3, <3>4
    <3>6. g[r] < g[s] \/ g[s] < g[r]
      BY <3>1, <3>5
    <3> QED
      BY <3>3, <3>4, <3>6
  <2>6. \A s \in copies : /\ records[s].begin = records[g[s]].begin
                          /\ records[s].end = Rebound(records[g[s]].end)
    <3> SUFFICES ASSUME NEW s \in copies
                 PROVE  /\ records[s].begin = records[g[s]].begin
                        /\ records[s].end = Rebound(records[g[s]].end)
      OBVIOUS
    <3>1. records[s] = [task  |-> newId[p],
                        begin |-> records[g[s]].begin,
                        end   |-> Rebound(records[g[s]].end)]
      BY <2>4 DEF IsCopy
    <3> QED
      BY <3>1
  <2>7. IsFiniteSet(copies) /\ IsFiniteSet(originals)
    <3>1. IsFiniteSet(RowId)
      BY FS_Interval, RowAssumption DEF RowId
    <3>2. copies \subseteq RowId /\ originals \subseteq RowId
      BY <2>0 DEF RecordsOf, IInv, TypeOK, FileOK
    <3> QED
      BY <3>1, <3>2, FS_Subset
  <2> DEFINE ending(S, e) == {r \in S : records[r].begin = b /\ records[r].end = e}
  <2>8. \A e : /\ Periods(newId[p], b, e) = Cardinality(ending(copies, e))
              /\ Periods(taskId[p], b, e) = Cardinality(ending(originals, e))
    BY DEF Periods
  <2>9. DOMAIN g = copies
    BY <2>4
  <2>10. \A S, e : IsFiniteSet(S) => IsFiniteSet(ending(S, e))
    <3>1. \A S, e : ending(S, e) \in SUBSET S
      OBVIOUS
    <3> QED
      BY <3>1, FS_Subset
  <2> HIDE DEF copies, originals
  <2>11. ASSUME NEW e \in Time
         PROVE  Cardinality(ending(copies, e)) = Cardinality(ending(originals, e))
    <3>1. \A x : Rebound(x) = e <=> x = e
      BY RowAssumption DEF Rebound, Time
    <3>2. \A s \in copies : s \in ending(copies, e) <=> g[s] \in ending(originals, e)
      BY <2>4, <2>6, <3>1
    <3> DEFINE A == ending(copies, e)
               B == ending(originals, e)
    <3>3. /\ A \in SUBSET DOMAIN g /\ IsFiniteSet(A)
          /\ \A r, s \in A : g[r] = g[s] => r = s
      BY <2>5, <2>7, <2>9, <2>10
    <3>4. (\A s \in A : g[s] \in B) /\ \A k \in B : \E s \in A : g[s] = k
      BY <2>4, <3>2
    <3> HIDE DEF A, B
    <3>5. Cardinality(A) = Cardinality(B)
      BY <3>3, <3>4, PairedOff
    <3> QED
      BY <3>5 DEF A, B
  <2>12. Cardinality(ending(copies, Null)) = 0
    <3>1. \A x : Rebound(x) # Null
      BY RowAssumption DEF Rebound
    <3>2. ending(copies, Null) = {}
      BY <2>6, <3>1
    <3> QED
      BY <3>2, FS_EmptySet
  <2>13. Cardinality(ending(copies, Blank))
           = Cardinality(ending(originals, Null)) + Cardinality(ending(originals, Blank))
    <3> DEFINE A == ending(copies, Blank)
               N == ending(originals, Null)
               L == ending(originals, Blank)
    <3>1. \A x : Rebound(x) = Blank <=> x \in {Null, Blank}
      BY RowAssumption DEF Rebound
    <3>2. \A s \in copies : s \in A <=> g[s] \in N \cup L
      BY <2>4, <2>6, <3>1
    <3>3. /\ A \in SUBSET DOMAIN g /\ IsFiniteSet(A) /\ IsFiniteSet(N) /\ IsFiniteSet(L)
          /\ \A r, s \in A : g[r] = g[s] => r = s
      BY <2>5, <2>7, <2>9, <2>10
    <3>4. (\A s \in A : g[s] \in N \cup L) /\ \A k \in N \cup L : \E s \in A : g[s] = k
      BY <2>4, <3>2
    <3>5. N \cap L = {}
      BY RowAssumption
    <3> HIDE DEF A, N, L
    <3>6. Cardinality(A) = Cardinality(N \cup L)
      BY <3>3, <3>4, PairedOff
    <3>7. Cardinality(N \cup L) = Cardinality(N) + Cardinality(L) - Cardinality({})
      BY <3>3, <3>5, FS_Union
    <3>8. Cardinality({}) = 0 /\ Cardinality(N) \in Nat /\ Cardinality(L) \in Nat
      BY <3>3, FS_EmptySet, FS_CardinalityType
    <3>9. Cardinality(A) = Cardinality(N) + Cardinality(L)
      BY <3>6, <3>7, <3>8
    <3> QED
      BY <3>9 DEF A, N, L
  <2> HIDE DEF ending
  <2> QED
    BY <2>8, <2>11, <2>12, <2>13
<1> QED
  BY <1>1, UndisturbedInvariant, PTL DEF Spec, CopiesAllRecords
=============================================================================
