---------------------------- MODULE PwtSession -----------------------------
(***************************************************************************)
(* The pwt program run by several processes on one database file.          *)
(*                                                                         *)
(* A process is one invocation of the command line after another: it opens *)
(* the database (OpenDatabase), runs one method of CPersonalWorkTime and   *)
(* exits.  No method opens a transaction, so each SQL statement commits by *)
(* itself and what the method decided from one statement may be stale when *)
(* it runs the next.  There is one action per sqlite3_step that matters.   *)
(*                                                                         *)
(* The statements of different processes meet in SQLite's file lock (no    *)
(* busy handler is installed, so a statement never waits):                 *)
(*   - a SELECT holds SHARED from its first step until it is finalized or  *)
(*     has returned its last row;                                          *)
(*   - a statement that writes takes RESERVED, then PENDING, and commits   *)
(*     only if no other process holds a lock; otherwise it is SQLITE_BUSY  *)
(*     and changes nothing;                                                *)
(*   - while a process is PENDING no other process can start to read.      *)
(* The code compares the result of sqlite3_step with SQLITE_ERROR only, so *)
(* a refused statement (SQLITE_BUSY, SQLITE_FULL) goes on as a success.    *)
(***************************************************************************)
EXTENDS PwtTables

CONSTANTS
    Proc,         \* the processes that may run at the same time
    Label,        \* task labels a user may type
    Title,        \* task titles a user may type
    Ops,          \* the commands users give
    Crashes,      \* may a process be killed in the middle of a command?
    MaxTime,      \* bound: the last instant of the wall clock
    MaxCommands   \* bound: how many commands are begun

ASSUME SessionAssumption ==
    /\ Crashes \in BOOLEAN
    /\ MaxTime \in Nat
    /\ MaxCommands \in Nat
    /\ Ops \subseteq {"add", "upd", "del", "start", "stop", "status", "copy"}

VARIABLES
    tasks, records, schema, \* the file: the two tables, and which exist
    clock,                  \* local time, as GetCurrentDatetime reads it
    begun,                  \* commands begun so far
    lock,                   \* the lock each process holds on the file
    known,                  \* the tables in the schema each connection read
    pc, cmd, reply,         \* where a process is, its command, its last result
    taskId, recordId, newId, now  \* the local variables of the running method

file == <<tasks, records, schema>>
local == <<taskId, recordId, newId, now>>
vars == <<file, clock, begun, lock, known, pc, cmd, reply, local>>

NoCommand == [op |-> "none"]

Command == {c \in
    [op : {"add", "upd"}, label : Label, title : Title]
    \cup [op : {"del", "start"}, label : Label]
    \cup [op : {"stop", "status"}]
    \cup [op : {"copy"}, label : Label, newLabel : Label, title : Title]
    : c.op \in Ops}

Tables == {"tasks", "records"}

\* PWTResult, "NONE" before the first command ends and "CRASHED" for a process
\* that was killed.
PWTResult == {"OK", "DATABASE_ERROR", "TASK_NOT_FOUND", "TASK_ALREADY_EXISTS",
              "NOTHING_RUNNING", "ALREADY_RUNNING", "FILESYSTEM_ERROR",
              "NONE", "CRASHED"}

Lookups == {"lookupNew", "lookup"}
Creates == {"createTasks", "createRecords"}
Selects == {"startSelect", "stopSelect", "statusSelect", "copyFetch"}
Writes  == {"addInsert", "updUpdate", "delTask", "delRecords", "startEnd",
            "startInsert", "stopEnd", "copyInsert", "copyRecord"}

\* Where StartTask goes on without a statement.
Pauses == {"startFinish", "startTime"}

\* The table that the statement at a location is about.
TableAt(at) ==
    IF at \in Lookups \cup {"createTasks", "addInsert", "updUpdate", "delTask",
                            "copyInsert", "list", "xmlTasks"}
    THEN "tasks" ELSE "records"

Init ==
    /\ tasks = <<>>
    /\ records = <<>>
    /\ schema = {}
    /\ clock = 0
    /\ begun = 0
    /\ lock = [p \in Proc |-> "none"]
    /\ known = [p \in Proc |-> {}]
    /\ pc = [p \in Proc |-> "idle"]
    /\ cmd = [p \in Proc |-> NoCommand]
    /\ reply = [p \in Proc |-> [code |-> "NONE", shown |-> {}]]
    /\ taskId = [p \in Proc |-> 0]
    /\ recordId = [p \in Proc |-> 0]
    /\ newId = [p \in Proc |-> 0]
    /\ now = [p \in Proc |-> 0]

-----------------------------------------------------------------------------
(* The file lock. *)

Others(p) == Proc \ {p}

\* p cannot take SHARED.
Blocked(p) == \E q \in Others(p) : lock[q] = "pending"

\* p cannot take RESERVED.
WriterElsewhere(p) == \E q \in Others(p) : lock[q] \in {"reserved", "pending"}

\* p can take EXCLUSIVE.
Alone(p) == \A q \in Others(p) : lock[q] = "none"

Hold(p, level) == lock' = [lock EXCEPT ![p] = level]

\* sqlite3_prepare succeeds for a statement on table t: the connection has the
\* table in its schema, or can read the schema and the table exists.
Prepared(p, t) == t \in known[p] \/ (t \in schema /\ ~Blocked(p))

Load(p) == known' = [known EXCEPT ![p] = schema]

\* The first sqlite3_step of a SELECT takes SHARED ...
OpensSelect(p, at) ==
    /\ pc[p] = at
    /\ lock[p] = "none"
    /\ Prepared(p, TableAt(at))
    /\ ~Blocked(p)
    /\ Hold(p, "shared")
    /\ Load(p)

\* ... or is SQLITE_BUSY, which reads like "no rows".
SelectBusy(p, at) ==
    /\ pc[p] = at
    /\ lock[p] = "none"
    /\ Prepared(p, TableAt(at))
    /\ Blocked(p)

\* A statement that writes commits ...
Commits(p, at) ==
    /\ pc[p] = at
    /\ lock[p] = "pending"
    /\ Alone(p)

\* ... or is SQLITE_BUSY and changes nothing.
WriteBusy(p, at) ==
    /\ pc[p] = at
    /\ \/ lock[p] = "pending" /\ ~Alone(p)
       \/ /\ lock[p] \in {"none", "shared"}
          /\ Prepared(p, TableAt(at))
          /\ WriterElsewhere(p)

InsertRefused(p, at, rows) == WriteBusy(p, at) \/ (Commits(p, at) /\ Full(rows))

-----------------------------------------------------------------------------
(* Moving through a method and leaving it. *)

Jump(p, at) ==
    /\ pc' = [pc EXCEPT ![p] = at]
    /\ UNCHANGED <<cmd, reply, begun, clock>>

\* The method returns, main prints the result, and the process exits.
ReturnShowing(p, code, shown) ==
    /\ pc' = [pc EXCEPT ![p] = "idle"]
    /\ cmd' = [cmd EXCEPT ![p] = NoCommand]
    /\ reply' = [reply EXCEPT ![p] = [code |-> code, shown |-> shown]]
    /\ Hold(p, "none")
    /\ known' = [known EXCEPT ![p] = {}]
    /\ taskId' = [taskId EXCEPT ![p] = 0]
    /\ recordId' = [recordId EXCEPT ![p] = 0]
    /\ newId' = [newId EXCEPT ![p] = 0]
    /\ now' = [now EXCEPT ![p] = 0]
    /\ UNCHANGED <<begun, clock>>

Return(p, code) == ReturnShowing(p, code, {})

\* The user starts the program with a command.
Begin(p, c) ==
    /\ pc[p] = "idle"
    /\ begun < MaxCommands
    /\ begun' = begun + 1
    /\ pc' = [pc EXCEPT ![p] = "createTasks"]
    /\ cmd' = [cmd EXCEPT ![p] = c]
    /\ UNCHANGED <<file, clock, lock, known, reply, local>>

\* RESERVED, then PENDING, for the statement about to write.
Reserve(p) ==
    /\ \/ pc[p] \in Writes /\ Prepared(p, TableAt(pc[p]))
       \/ pc[p] \in Creates /\ TableAt(pc[p]) \notin schema
    /\ lock[p] \in {"none", "shared"}
    /\ ~WriterElsewhere(p)
    /\ Hold(p, "reserved")
    /\ Load(p)
    /\ UNCHANGED <<file, clock, begun, pc, cmd, reply, local>>

Pend(p) ==
    /\ lock[p] = "reserved"
    /\ Hold(p, "pending")
    /\ UNCHANGED <<file, clock, begun, known, pc, cmd, reply, local>>

\* sqlite3_prepare fails in a method that reports it.
PrepareFails(p) ==
    /\ pc[p] \in Selects \cup Writes
    /\ lock[p] = "none"
    /\ ~Prepared(p, TableAt(pc[p]))
    /\ Return(p, "DATABASE_ERROR")
    /\ UNCHANGED file

-----------------------------------------------------------------------------
(* OpenDatabase: CREATE TABLE IF NOT EXISTS, twice.  Neither a failed       *)
(* prepare nor SQLITE_BUSY stops it.                                        *)

CreateCheck(p) ==
    /\ pc[p] \in Creates
    /\ lock[p] = "none"
    /\ TableAt(pc[p]) \in schema
    /\ ~Blocked(p)
    /\ Hold(p, "shared")
    /\ Load(p)
    /\ UNCHANGED <<file, clock, begun, pc, cmd, reply, local>>

FirstStatement(op) ==
    CASE op = "copy"   -> "lookupNew"
      [] op = "stop"   -> "stopSelect"
      [] op = "status" -> "statusSelect"
      [] op \in {"list", "export"} -> op
      [] OTHER         -> "lookup"

CreateDone(p) ==
    /\ pc[p] \in Creates
    /\ \/ /\ lock[p] = "pending" /\ Alone(p)
          /\ schema' = schema \cup {TableAt(pc[p])}
          /\ known' = [known EXCEPT ![p] = schema']
       \/ /\ lock[p] = "pending" /\ ~Alone(p)
          /\ known' = [known EXCEPT ![p] = {}]   \* rolled back, cache and all
          /\ UNCHANGED schema
       \/ lock[p] = "shared" /\ UNCHANGED <<schema, known>>
       \/ /\ lock[p] = "none"
          /\ Blocked(p) \/ (WriterElsewhere(p) /\ TableAt(pc[p]) \notin schema)
          /\ IF Blocked(p) THEN UNCHANGED known ELSE Load(p)
          /\ UNCHANGED schema
    /\ Hold(p, "none")
    /\ Jump(p, IF pc[p] = "createTasks" THEN "createRecords"
               ELSE FirstStatement(cmd[p].op))
    /\ UNCHANGED <<tasks, records, local>>

-----------------------------------------------------------------------------
(* GetTaskId: 0 if the label is not there, if the statement cannot be       *)
(* prepared, or if it is SQLITE_BUSY.                                       *)

\* Mutant: CopyTask takes its two labels in the wrong order.
WantedLabel_Swapped(p) ==
    IF pc[p] = "lookup" /\ cmd[p].op = "copy" THEN cmd[p].newLabel ELSE cmd[p].label

WantedLabel(p) == IF pc[p] = "lookupNew" THEN cmd[p].newLabel ELSE cmd[p].label

GetTaskId(p) ==
    /\ pc[p] \in Lookups
    /\ OpensSelect(p, pc[p])
    /\ \E k \in RowId \cup {0} :
          /\ IsFirst(WithLabel(tasks, WantedLabel(p)), k)
          /\ taskId' = [taskId EXCEPT ![p] = k]
    /\ UNCHANGED <<file, clock, begun, pc, cmd, reply, recordId, newId, now>>

\* GetTaskId has returned taskId[p] to the method op.
LookedUp(p, at, op) ==
    /\ pc[p] = at
    /\ cmd[p].op = op
    /\ \/ lock[p] = "shared"
       \/ lock[p] = "none" /\ (Blocked(p) \/ ~Prepared(p, "tasks"))

Proceed(p, at) ==
    /\ Hold(p, "none")
    /\ Jump(p, at)
    /\ UNCHANGED <<known, local>>

\* Mutant: the result of GetTaskId is not tested.
FindTask_Untested(p, op, at) ==
    LookedUp(p, "lookup", op) /\ Proceed(p, at) /\ UNCHANGED file

\* The first lines of UpdTask, DelTask, StartTask and (second) CopyTask.
FindTask(p, op, at) ==
    /\ LookedUp(p, "lookup", op)
    /\ \/ taskId[p] = 0 /\ Return(p, "TASK_NOT_FOUND")
       \/ taskId[p] # 0 /\ Proceed(p, at)
    /\ UNCHANGED file

\* The first lines of AddTask and CopyTask.
FindNoTask(p, at, op, next) ==
    /\ LookedUp(p, at, op)
    /\ \/ taskId[p] # 0 /\ Return(p, "TASK_ALREADY_EXISTS")
       \/ taskId[p] = 0 /\ Proceed(p, next)
    /\ UNCHANGED file

-----------------------------------------------------------------------------
(* AddTask and UpdTask. *)

AddInsert(p) ==
    /\ \/ /\ Commits(p, "addInsert")
          /\ \E id \in RowId :
                /\ FreshRowid(tasks, id)
                /\ tasks' = Insert(tasks, id, [label |-> cmd[p].label,
                                               title |-> cmd[p].title])
       \/ InsertRefused(p, "addInsert", tasks) /\ UNCHANGED tasks
    /\ Return(p, "OK")
    /\ UNCHANGED <<records, schema>>

AddTask(p) ==
    \/ FindNoTask(p, "lookup", "add", "addInsert")
    \/ AddInsert(p)

UpdUpdate(p) ==
    /\ \/ /\ Commits(p, "updUpdate")
          /\ tasks' = Retitle(tasks, taskId[p], cmd[p].title)
       \/ WriteBusy(p, "updUpdate") /\ UNCHANGED tasks
    /\ Return(p, "OK")
    /\ UNCHANGED <<records, schema>>

UpdTask(p) == FindTask(p, "upd", "updUpdate") \/ UpdUpdate(p)

-----------------------------------------------------------------------------
(* DelTask: the task, then its records. *)

DelTaskRow(p) ==
    /\ \/ /\ Commits(p, "delTask")
          /\ tasks' = Delete(tasks, {taskId[p]})
       \/ WriteBusy(p, "delTask") /\ UNCHANGED tasks
    /\ Proceed(p, "delRecords")
    /\ UNCHANGED <<records, schema>>

DelRecords(p) ==
    /\ \/ /\ Commits(p, "delRecords")
          /\ records' = Delete(records, RecordsOf(records, taskId[p]))
       \/ WriteBusy(p, "delRecords") /\ UNCHANGED records
    /\ Return(p, "OK")
    /\ UNCHANGED <<tasks, schema>>

DelTask(p) == FindTask(p, "del", "delTask") \/ DelTaskRow(p) \/ DelRecords(p)

-----------------------------------------------------------------------------
(* StartTask: end the running period, then begin one for the task.  The     *)
(* SELECT stays open, and its SHARED lock held, until the UPDATE is done.   *)

FindOpen(p, at) ==
    /\ OpensSelect(p, at)
    /\ \E k \in RowId \cup {0} :
          /\ IsFirst(OpenRecords(records), k)
          /\ recordId' = [recordId EXCEPT ![p] = k]
    /\ UNCHANGED <<file, clock, begun, pc, cmd, reply, taskId, newId, now>>

\* The SELECT of location at has given no row.
NoRow(p, at) ==
    \/ pc[p] = at /\ lock[p] = "shared" /\ recordId[p] = 0
    \/ SelectBusy(p, at)

HasRow(p, at) == pc[p] = at /\ lock[p] = "shared" /\ recordId[p] # 0

\* Mutant: a fraction of a second counts as a whole one.
GetCurrentDatetime_RoundedUp(p) == now' = [now EXCEPT ![p] = clock + 1]

GetCurrentDatetime(p) == now' = [now EXCEPT ![p] = clock]

\* Mutant: the SELECT is finalized before the record it has found is ended.
ThenHolding_Finalized(p, at) ==
    /\ GetCurrentDatetime(p)
    /\ Jump(p, at)
    /\ Hold(p, "none")
    /\ UNCHANGED <<known, taskId, recordId, newId>>

\* The time is read while the SELECT stays open.
ThenHolding(p, at) ==
    /\ GetCurrentDatetime(p)
    /\ Jump(p, at)
    /\ UNCHANGED <<lock, known, taskId, recordId, newId>>

StartRow(p) ==
    /\ \/ /\ HasRow(p, "startSelect")
          /\ records[recordId[p]].task = taskId[p]
          /\ Return(p, "ALREADY_RUNNING")
       \/ /\ HasRow(p, "startSelect")
          /\ records[recordId[p]].task # taskId[p]
          /\ ThenHolding(p, "startEnd")
       \/ NoRow(p, "startSelect") /\ Proceed(p, "startTime")
    /\ UNCHANGED file

StartEnd(p) ==
    /\ \/ /\ Commits(p, "startEnd")
          /\ records' = CloseRecord(records, recordId[p], now[p])
       \/ WriteBusy(p, "startEnd") /\ UNCHANGED records
    /\ Hold(p, "shared")
    /\ Jump(p, "startFinish")
    /\ UNCHANGED <<tasks, schema, known, local>>

\* The SELECT is finalized.
StartFinish(p) ==
    /\ pc[p] = "startFinish"
    /\ Proceed(p, "startTime")
    /\ UNCHANGED file

\* The time is read once more.
StartTime(p) ==
    /\ pc[p] = "startTime"
    /\ GetCurrentDatetime(p)
    /\ Jump(p, "startInsert")
    /\ UNCHANGED <<file, lock, known, taskId, recordId, newId>>

StartInsert(p) ==
    /\ \/ /\ Commits(p, "startInsert")
          /\ \E id \in RowId :
                /\ FreshRowid(records, id)
                /\ records' = Insert(records, id, [task  |-> taskId[p],
                                                   begin |-> now[p],
                                                   end   |-> Null])
       \/ InsertRefused(p, "startInsert", records) /\ UNCHANGED records
    /\ Return(p, "OK")
    /\ UNCHANGED <<tasks, schema>>

StartTask(p) ==
    \/ FindTask(p, "start", "startSelect")
    \/ FindOpen(p, "startSelect")
    \/ StartRow(p)
    \/ StartEnd(p)
    \/ StartFinish(p)
    \/ StartTime(p)
    \/ StartInsert(p)

-----------------------------------------------------------------------------
(* StopTask and Status. *)

StopRow(p) ==
    /\ \/ HasRow(p, "stopSelect") /\ ThenHolding(p, "stopEnd")
       \/ NoRow(p, "stopSelect") /\ Return(p, "NOTHING_RUNNING")
    /\ UNCHANGED file

StopEnd(p) ==
    /\ \/ /\ Commits(p, "stopEnd")
          /\ records' = CloseRecord(records, recordId[p], now[p])
       \/ WriteBusy(p, "stopEnd") /\ UNCHANGED records
    /\ Return(p, "OK")
    /\ UNCHANGED <<tasks, schema>>

StopTask(p) == FindOpen(p, "stopSelect") \/ StopRow(p) \/ StopEnd(p)

\* The second SELECT runs under the SHARED lock of the first.  It can be
\* prepared: no record is stored before pwt_tasks exists.
StatusRow(p) ==
    /\ \/ NoRow(p, "statusSelect") /\ Return(p, "NOTHING_RUNNING")
       \/ /\ HasRow(p, "statusSelect")
          /\ LET task == records[recordId[p]].task
             IN \/ task \notin DOMAIN tasks /\ Return(p, "NOTHING_RUNNING")
                \/ /\ task \in DOMAIN tasks
                   /\ ReturnShowing(p, "ALREADY_RUNNING",
                         {[label |-> tasks[task].label,
                           title |-> tasks[task].title,
                           begin |-> records[recordId[p]].begin]})
    /\ UNCHANGED file

Status(p) == FindOpen(p, "statusSelect") \/ StatusRow(p)

-----------------------------------------------------------------------------
(* CopyTask: insert the new task, then scan the records of the original and *)
(* insert a copy of each, one commit per record, with the scan still open.  *)

CopyInsert(p) ==
    /\ \/ /\ Commits(p, "copyInsert")
          /\ \E id \in RowId :
                /\ FreshRowid(tasks, id)
                /\ tasks' = Insert(tasks, id, [label |-> cmd[p].newLabel,
                                               title |-> cmd[p].title])
                /\ newId' = [newId EXCEPT ![p] = id]
          /\ Jump(p, "copyFetch")
          /\ Hold(p, "none")
          /\ UNCHANGED <<known, taskId, recordId, now>>
       \/ /\ InsertRefused(p, "copyInsert", tasks)   \* last_insert_rowid is 0
          /\ Return(p, "DATABASE_ERROR")
          /\ UNCHANGED tasks
    /\ UNCHANGED <<records, schema>>

CopyOpen(p) ==
    /\ OpensSelect(p, "copyFetch")
    /\ UNCHANGED <<file, clock, begun, pc, cmd, reply, local>>

\* Mutants: the WHERE clause is missing; the cursor does not advance.
RemainingRecords_All(p) == {r \in DOMAIN records : r > recordId[p]}
RemainingRecords_Again(p) ==
    {r \in RecordsOf(records, taskId[p]) : r >= recordId[p]}

\* The scan is live: it also meets the rows this loop has inserted.
RemainingRecords(p) == {r \in RecordsOf(records, taskId[p]) : r > recordId[p]}

CopyFetch(p) ==
    /\ \/ /\ pc[p] = "copyFetch"
          /\ lock[p] = "shared"
          /\ \E k \in RowId \cup {0} :
                /\ IsFirst(RemainingRecords(p), k)
                /\ \/ k = 0 /\ Return(p, "OK")
                   \/ /\ k # 0
                      /\ recordId' = [recordId EXCEPT ![p] = k]
                      /\ Jump(p, "copyRecord")
                      /\ UNCHANGED <<lock, known, taskId, newId, now>>
       \/ SelectBusy(p, "copyFetch") /\ Return(p, "OK")
    /\ UNCHANGED file

CopyRecord(p) ==
    /\ \/ /\ Commits(p, "copyRecord")
          /\ \E id \in RowId :
                /\ FreshRowid(records, id)
                /\ records' = Insert(records, id,
                        [task  |-> newId[p],
                         begin |-> records[recordId[p]].begin,
                         end   |-> Rebound(records[recordId[p]].end)])
       \/ InsertRefused(p, "copyRecord", records) /\ UNCHANGED records
    /\ Hold(p, "shared")
    /\ Jump(p, "copyFetch")
    /\ UNCHANGED <<tasks, schema, known, local>>

CopyTask(p) ==
    \/ FindNoTask(p, "lookupNew", "copy", "lookup")
    \/ FindTask(p, "copy", "copyInsert")
    \/ CopyInsert(p)
    \/ CopyOpen(p)
    \/ CopyFetch(p)
    \/ CopyRecord(p)

-----------------------------------------------------------------------------
(* The whole system. *)

\* The process is killed; what it had not committed is rolled back.
Crash(p) ==
    /\ Crashes
    /\ pc[p] # "idle"
    /\ Return(p, "CRASHED")
    /\ UNCHANGED file

Tick ==
    /\ clock < MaxTime
    /\ clock' = clock + 1
    /\ UNCHANGED <<file, begun, lock, known, pc, cmd, reply, local>>

\* Nobody gives another command.
Quiet ==
    /\ begun = MaxCommands
    /\ \A p \in Proc : pc[p] = "idle"
    /\ UNCHANGED vars

\* The next step of the program in process p, once it has a command.
Step(p) ==
    \/ Reserve(p) \/ Pend(p) \/ PrepareFails(p)
    \/ CreateCheck(p) \/ CreateDone(p)
    \/ GetTaskId(p)
    \/ AddTask(p) \/ UpdTask(p) \/ DelTask(p)
    \/ StartTask(p) \/ StopTask(p) \/ Status(p)
    \/ CopyTask(p)

Next ==
    \/ \E p \in Proc : (\E c \in Command : Begin(p, c)) \/ Step(p) \/ Crash(p)
    \/ Tick
    \/ Quiet

Spec == Init /\ [][Next]_vars

\* A started process is scheduled until its command ends.
FairSpec == Spec /\ \A p \in Proc : WF_vars(Step(p))
=============================================================================
