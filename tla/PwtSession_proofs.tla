------------------------- MODULE PwtSession_proofs --------------------------
(***************************************************************************)
(* What holds of the database however many processes run commands on it,   *)
(* and however often they are killed: the types, that an ended period is   *)
(* never altered, and that periods run forward.                            *)
(***************************************************************************)
EXTENDS PwtProperties, TLAPS

-----------------------------------------------------------------------------
(* The inductive invariant.  A process that is about to end a period read   *)
(* its rowid in an earlier step, so what makes it safe is a relation        *)
(* between the process, its lock and the table: SHARED has been held since  *)
(* the row was read, nobody else can have committed, and the row is still   *)
(* there and still open.                                                    *)

\* A process runs the statements of the command it was given.
Dispatched(p) ==
    /\ pc[p] = "addInsert" => cmd[p].op = "add"
    /\ pc[p] = "updUpdate" => cmd[p].op = "upd"
    /\ pc[p] = "copyInsert" => cmd[p].op = "copy"

\* Past its lookups, a method has the task ids it needs.
HasIds(p) ==
    /\ pc[p] \in {"startSelect", "startEnd", "startFinish", "startTime",
                  "startInsert", "copyInsert", "copyFetch", "copyRecord"}
       => taskId[p] # 0
    /\ pc[p] \in {"copyFetch", "copyRecord"} => newId[p] # 0
    /\ taskId[p] # 0 => "tasks" \in schema

\* The row a SELECT found is there, and still open, while its lock is held.
HoldsRow(p) ==
    /\ /\ pc[p] \in {"startSelect", "stopSelect", "statusSelect"}
       /\ lock[p] # "none"
       /\ recordId[p] # 0
       => recordId[p] \in OpenRecords(records)
    /\ pc[p] \in {"startEnd", "stopEnd"} =>
          /\ lock[p] # "none"
          /\ recordId[p] \in OpenRecords(records)
          /\ records[recordId[p]].begin <= now[p]
    /\ pc[p] = "copyRecord" =>
          /\ lock[p] # "none"
          /\ recordId[p] \in DOMAIN records

ProcOK(p) == Dispatched(p) /\ HasIds(p) /\ HoldsRow(p) /\ now[p] <= clock

IInv == TypeOK /\ PeriodsForward /\ \A p \in Proc : ProcOK(p)

-----------------------------------------------------------------------------
(* Facts about tables and commands. *)

USE DEF RowId, Time

(* A command has the fields that its statements bind.                       *)
LEMMA CommandFields ==
    ASSUME NEW c \in Command \cup {NoCommand}
    PROVE  /\ c.op = "add"  => c.label \in Label /\ c.title \in Title
           /\ c.op = "upd"  => c.label \in Label /\ c.title \in Title
           /\ c.op = "copy" => c.newLabel \in Label /\ c.title \in Title
  BY DEF Command, NoCommand

(* A scan stops at a row that matches, or at none.                          *)
LEMMA FirstOf ==
    ASSUME NEW ids \in SUBSET RowId, NEW k, IsFirst(ids, k)
    PROVE  /\ k \in RowId \cup {0}
           /\ k # 0 => k \in ids
  BY DEF IsFirst

-----------------------------------------------------------------------------
(* One step of process p. *)

\* What belongs to the other processes stays as it is, and tables stay.
Frame(p) ==
    /\ \A q \in Proc \ {p} :
          /\ pc'[q] = pc[q] /\ cmd'[q] = cmd[q] /\ lock'[q] = lock[q]
          /\ taskId'[q] = taskId[q] /\ recordId'[q] = recordId[q]
          /\ newId'[q] = newId[q] /\ now'[q] = now[q]
    /\ clock' = clock
    /\ schema \subseteq schema'

StepOK(p) == SessionOK' /\ ProcOK(p)' /\ Frame(p)

(* A step keeps the facts of the other processes: it changes the records    *)
(* only when p is alone, and then no other process is holding a row.        *)
LEMMA OthersKeep ==
    ASSUME IInv, NEW p \in Proc, Frame(p), records' = records \/ Alone(p)
    PROVE  \A q \in Proc \ {p} : ProcOK(q)'
<1> SUFFICES ASSUME NEW q \in Proc \ {p} PROVE ProcOK(q)'
  OBVIOUS
<1>1. Dispatched(q)' /\ HasIds(q)' /\ now'[q] <= clock'
  BY DEF IInv, ProcOK, Dispatched, HasIds, Frame
<1>2. HoldsRow(q)'
  <2>1. CASE records' = records
    BY <2>1 DEF IInv, ProcOK, HoldsRow, Frame, OpenRecords
  <2>2. CASE Alone(p)
    <3>1. lock[q] = "none" /\ lock'[q] = "none"
      BY <2>2 DEF Alone, Others, Frame
    <3> QED
      BY <3>1 DEF IInv, ProcOK, HoldsRow, Frame
  <2> QED
    BY <2>1, <2>2
<1> QED
  BY <1>1, <1>2 DEF ProcOK

(* A step that leaves the file alone. *)
LEMMA FileKept ==
    ASSUME IInv, NEW p \in Proc, StepOK(p), UNCHANGED file
    PROVE  IInv'
<1>1. FileOK'
  BY DEF IInv, TypeOK, FileOK, file
<1>2. PeriodsForward'
  BY DEF IInv, PeriodsForward, file, StepOK, Frame
<1>3. \A q \in Proc : ProcOK(q)'
  BY OthersKeep DEF StepOK, file
<1> QED
  BY <1>1, <1>2, <1>3 DEF IInv, TypeOK, StepOK

(* A step that commits a change to the file. *)
LEMMA FileChanged ==
    ASSUME IInv, NEW p \in Proc, StepOK(p), FileOK', PeriodsForward',
           records' = records \/ Alone(p)
    PROVE  IInv'
  BY OthersKeep DEF IInv, TypeOK, StepOK

(* Leaving a method. *)
LEMMA Leave ==
    ASSUME IInv, NEW p \in Proc, NEW code \in PWTResult,
           NEW shown \in SUBSET [label : Label, title : Title, begin : Time],
           ReturnShowing(p, code, shown), UNCHANGED schema
    PROVE  StepOK(p)
<1>1. SessionOK'
  BY SessionAssumption
  DEF IInv, TypeOK, SessionOK, ReturnShowing, Hold, Reply
<1>2. ProcOK(p)'
  BY SessionAssumption DEF IInv, TypeOK, SessionOK, ReturnShowing, Hold, ProcOK, Dispatched,
     HasIds, HoldsRow
<1>3. Frame(p)
  BY DEF IInv, TypeOK, SessionOK, ReturnShowing, Hold, Frame
<1> QED
  BY <1>1, <1>2, <1>3 DEF StepOK

(* Leaving a method without showing anything.                               *)
LEMMA LeaveWith ==
    ASSUME IInv, NEW p \in Proc, NEW code \in PWTResult, Return(p, code),
           UNCHANGED schema
    PROVE  StepOK(p)
  BY Leave DEF Return

(* Going on to a statement that needs no row, with no lock on the file.     *)
LEMMA GoOn ==
    ASSUME IInv, NEW p \in Proc,
           NEW at \in Lookups \cup Creates \cup Selects \cup Writes \cup Pauses,
           at \notin {"startEnd", "stopEnd", "copyRecord"},
           at = "addInsert" => cmd[p].op = "add",
           at = "updUpdate" => cmd[p].op = "upd",
           at = "copyInsert" => cmd[p].op = "copy",
           at \in {"startSelect", "startFinish", "startTime", "startInsert",
                  "copyInsert"} => taskId[p] # 0,
           at # "copyFetch",
           Proceed(p, at), UNCHANGED schema
    PROVE  StepOK(p)
<1>1. SessionOK'
  BY DEF IInv, TypeOK, SessionOK, Proceed, Hold, Jump, local,
     Lookups, Creates, Selects, Writes, Pauses
<1>2. ProcOK(p)'
  <2>1. /\ pc'[p] = at /\ lock'[p] = "none"
        /\ UNCHANGED <<cmd, clock, schema, taskId, recordId, newId, now>>
    BY DEF IInv, TypeOK, SessionOK, Proceed, Hold, Jump, local
  <2>2. Dispatched(p)' /\ HasIds(p)'
    BY <2>1 DEF Dispatched, HasIds, IInv, ProcOK
  <2>3. HoldsRow(p)' /\ now'[p] <= clock'
    BY <2>1 DEF HoldsRow, IInv, ProcOK
  <2> QED
    BY <2>2, <2>3 DEF ProcOK
<1>3. Frame(p)
  BY DEF IInv, TypeOK, SessionOK, Proceed, Hold, Jump, Frame, local
<1> QED
  BY <1>1, <1>2, <1>3 DEF StepOK

-----------------------------------------------------------------------------
(* The steps that leave the file alone. *)

(* The user starting a command keeps IInv.                                  *)
LEMMA BeginKeeps ==
    ASSUME IInv, NEW p \in Proc, NEW c \in Command, Begin(p, c)
    PROVE  IInv'
<1>1. SessionOK'
  BY SessionAssumption DEF IInv, TypeOK, SessionOK, Begin, local, file, Creates
<1>2. /\ pc'[p] = "createTasks"
      /\ UNCHANGED <<clock, schema, lock, taskId, now>>
  BY DEF IInv, TypeOK, SessionOK, Begin, local, file
<1>3. ProcOK(p)'
  BY <1>2 DEF IInv, ProcOK, Dispatched, HasIds, HoldsRow
<1>4. Frame(p)
  BY DEF IInv, TypeOK, SessionOK, Begin, local, file, Frame
<1> QED
  BY <1>1, <1>3, <1>4, FileKept DEF StepOK, Begin

(* Taking RESERVED keeps IInv: no row is let go.                            *)
LEMMA ReserveKeeps ==
    ASSUME IInv, NEW p \in Proc, Reserve(p)
    PROVE  IInv'
<1>1. SessionOK'
  BY DEF IInv, TypeOK, SessionOK, Reserve, Load, Hold, local, file, Creates, Writes
<1>2. /\ lock'[p] # "none" /\ pc[p] \in Writes \cup Creates
      /\ UNCHANGED <<clock, file, pc, cmd, local>>
  BY DEF IInv, TypeOK, SessionOK, Reserve, Hold, local, file
<1>3. ProcOK(p)'
  BY <1>2 DEF IInv, ProcOK, Dispatched, HasIds, HoldsRow, local, file, OpenRecords,
     Writes, Creates
<1>4. Frame(p)
  BY DEF IInv, TypeOK, SessionOK, Reserve, Hold, local, file, Frame
<1> QED
  BY <1>1, <1>3, <1>4, FileKept DEF StepOK, Reserve

(* Taking PENDING keeps IInv: no row is let go.                             *)
LEMMA PendKeeps ==
    ASSUME IInv, NEW p \in Proc, Pend(p)
    PROVE  IInv'
<1>1. SessionOK'
  BY DEF IInv, TypeOK, SessionOK, Pend, Hold, local, file
<1>2. /\ lock'[p] = "pending" /\ lock[p] = "reserved"
      /\ UNCHANGED <<clock, file, pc, cmd, local>>
  BY DEF IInv, TypeOK, SessionOK, Pend, Hold, local, file
<1>3. ProcOK(p)'
  BY <1>2 DEF IInv, ProcOK, Dispatched, HasIds, HoldsRow, local, file, OpenRecords
<1>4. Frame(p)
  BY DEF IInv, TypeOK, SessionOK, Pend, Hold, local, file, Frame
<1> QED
  BY <1>1, <1>3, <1>4, FileKept DEF StepOK, Pend

(* Leaving a method with the file as it is keeps IInv.                      *)
LEMMA LeaveKeeps ==
    ASSUME IInv, NEW p \in Proc, NEW code \in PWTResult, Return(p, code),
           UNCHANGED file
    PROVE  IInv'
  BY LeaveWith, FileKept DEF file

(* Reading the schema in OpenDatabase keeps IInv.                           *)
LEMMA CreateCheckKeeps ==
    ASSUME IInv, NEW p \in Proc, CreateCheck(p)
    PROVE  IInv'
<1>1. SessionOK'
  BY DEF IInv, TypeOK, SessionOK, CreateCheck, Load, Hold, local, file, Creates
<1>2. /\ pc[p] \in Creates
      /\ UNCHANGED <<clock, file, pc, cmd, local>>
  BY DEF CreateCheck
<1>3. ProcOK(p)'
  BY <1>2 DEF IInv, ProcOK, Dispatched, HasIds, HoldsRow, local, file, Creates
<1>4. Frame(p)
  BY DEF IInv, TypeOK, SessionOK, CreateCheck, Hold, local, file, Frame
<1> QED
  BY <1>1, <1>3, <1>4, FileKept DEF StepOK, CreateCheck

(* Creating a table in OpenDatabase, or failing to, keeps IInv.             *)
LEMMA CreateDoneKeeps ==
    ASSUME IInv, NEW p \in Proc, CreateDone(p)
    PROVE  IInv'
<1>1. /\ schema \subseteq schema' /\ schema' \subseteq Tables
      /\ known' \in [Proc -> SUBSET schema']
  <2>1. \/ schema' = schema \cup {TableAt(pc[p])} /\ known' = [known EXCEPT ![p] = schema']
        \/ schema' = schema /\ known' = known
        \/ schema' = schema /\ known' = [known EXCEPT ![p] = {}]
        \/ schema' = schema /\ known' = [known EXCEPT ![p] = schema]
    BY DEF CreateDone, Load
  <2>2. TableAt(pc[p]) \in Tables
    BY DEF TableAt, Tables
  <2>3. schema \subseteq Tables /\ known \in [Proc -> SUBSET schema]
    BY DEF IInv, TypeOK, SessionOK, FileOK
  <2> QED
    BY <2>1, <2>2, <2>3
<1>2. PICK at \in {"createRecords", "lookupNew", "stopSelect", "statusSelect",
                   "lookup"} :
         pc' = [pc EXCEPT ![p] = at]
  <2>1. cmd[p] \in Command \cup {NoCommand}
    BY DEF IInv, TypeOK, SessionOK
  <2>2. cmd[p].op \notin {"list", "export"}
    BY <2>1 DEF Command, NoCommand
  <2> QED
    BY <2>2 DEF CreateDone, Jump, FirstStatement
<1>3. /\ lock' = [lock EXCEPT ![p] = "none"]
      /\ UNCHANGED <<cmd, reply, begun, clock, tasks, records, local>>
  BY DEF CreateDone, Jump, Hold
<1>4. SessionOK'
  BY <1>1, <1>2, <1>3 DEF IInv, TypeOK, SessionOK, local, Creates, Lookups, Selects
<1>5. ProcOK(p)'
  <2>1. pc'[p] = at /\ lock'[p] = "none"
    BY <1>2, <1>3 DEF IInv, TypeOK, SessionOK
  <2> QED
    BY <1>1, <1>3, <2>1 DEF IInv, ProcOK, Dispatched, HasIds, HoldsRow, local
<1>6. Frame(p)
  BY <1>1, <1>2, <1>3 DEF IInv, TypeOK, SessionOK, Frame, local
<1>7. FileOK' /\ PeriodsForward'
  <2>1. FileOK'
    BY <1>1, <1>3 DEF IInv, TypeOK, FileOK
  <2>2. PeriodsForward'
    BY <1>3 DEF IInv, PeriodsForward
  <2> QED
    BY <2>1, <2>2
<1> QED
  BY <1>3, <1>4, <1>5, <1>6, <1>7, FileChanged DEF StepOK

(* The first sqlite3_step of a SELECT. *)
LEMMA SelectKeeps ==
    ASSUME IInv, NEW p \in Proc, NEW at, at # "idle", OpensSelect(p, at),
           taskId' \in [Proc -> RowId \cup {0}],
           recordId' \in [Proc -> RowId \cup {0}],
           \A q \in Proc \ {p} : taskId'[q] = taskId[q] /\ recordId'[q] = recordId[q],
           HasIds(p)', HoldsRow(p)',
           UNCHANGED <<file, clock, begun, pc, cmd, reply, newId, now>>
    PROVE  IInv'
<1>1. SessionOK'
  BY DEF IInv, TypeOK, SessionOK, OpensSelect, Load, Hold, file
<1>2. ProcOK(p)'
  BY DEF IInv, ProcOK, Dispatched, file
<1>3. Frame(p)
  BY DEF IInv, TypeOK, SessionOK, OpensSelect, Hold, Frame, file
<1> QED
  BY <1>1, <1>2, <1>3, FileKept DEF StepOK

(* GetTaskId keeps IInv: a task id found means that pwt_tasks exists.       *)
LEMMA GetTaskIdKeeps ==
    ASSUME IInv, NEW p \in Proc, GetTaskId(p)
    PROVE  IInv'
<1>1. PICK k \in RowId \cup {0} : taskId' = [taskId EXCEPT ![p] = k]
  BY DEF GetTaskId
<1>2. /\ taskId' \in [Proc -> RowId \cup {0}]
      /\ recordId' = recordId /\ recordId \in [Proc -> RowId \cup {0}]
      /\ \A q \in Proc \ {p} : taskId'[q] = taskId[q]
  BY <1>1 DEF IInv, TypeOK, SessionOK, GetTaskId
<1>3. /\ pc[p] \in Lookups /\ OpensSelect(p, pc[p])
      /\ UNCHANGED <<file, clock, begun, pc, cmd, reply, newId, now>>
  BY DEF GetTaskId
<1>4. "tasks" \in schema
  BY <1>3 DEF IInv, TypeOK, SessionOK, OpensSelect, Prepared, TableAt, Lookups
<1>5. HasIds(p)' /\ HoldsRow(p)' /\ pc[p] # "idle"
  BY <1>3, <1>4 DEF HasIds, HoldsRow, file, Lookups
<1> QED
  BY <1>2, <1>3, <1>5, SelectKeeps

(* The SELECT of the open record keeps IInv: the row it finds is open.      *)
LEMMA FindOpenKeeps ==
    ASSUME IInv, NEW p \in Proc,
           NEW at \in {"startSelect", "stopSelect", "statusSelect"}, FindOpen(p, at)
    PROVE  IInv'
<1>1. PICK k \in RowId \cup {0} :
         /\ IsFirst(OpenRecords(records), k)
         /\ recordId' = [recordId EXCEPT ![p] = k]
  BY DEF FindOpen
<1>2. OpensSelect(p, at) /\ pc[p] = at
  BY DEF FindOpen, OpensSelect
<1>3. UNCHANGED <<file, clock, begun, pc, cmd, reply, taskId, newId, now>>
  BY DEF FindOpen
<1>4. /\ recordId' \in [Proc -> RowId \cup {0}] /\ recordId'[p] = k
      /\ taskId' \in [Proc -> RowId \cup {0}]
      /\ \A q \in Proc \ {p} : recordId'[q] = recordId[q] /\ taskId'[q] = taskId[q]
  BY <1>1, <1>3 DEF IInv, TypeOK, SessionOK
<1>5. k # 0 => k \in OpenRecords(records)
  BY <1>1, FirstOf DEF IInv, TypeOK, FileOK, OpenRecords
<1>6. HasIds(p)'
  BY <1>3 DEF IInv, ProcOK, HasIds, file
<1>7. HoldsRow(p)'
  BY <1>2, <1>3, <1>4, <1>5 DEF HoldsRow, file, OpenRecords
<1> QED
  BY <1>2, <1>3, <1>4, <1>6, <1>7, SelectKeeps

(* Starting the scan of CopyTask keeps IInv.                                *)
LEMMA CopyOpenKeeps ==
    ASSUME IInv, NEW p \in Proc, CopyOpen(p)
    PROVE  IInv'
<1>1. OpensSelect(p, "copyFetch") /\ pc[p] = "copyFetch"
  BY DEF CopyOpen, OpensSelect
<1>2. UNCHANGED <<file, clock, begun, pc, cmd, reply, local>>
  BY DEF CopyOpen
<1>3. HasIds(p)' /\ HoldsRow(p)'
  BY <1>1, <1>2 DEF IInv, ProcOK, HasIds, HoldsRow, file, local
<1> QED
  BY <1>1, <1>2, <1>3, SelectKeeps DEF local, IInv, TypeOK, SessionOK

(* Testing the task id a method needs keeps IInv.                           *)
LEMMA FindTaskKeeps ==
    ASSUME IInv, NEW p \in Proc,
           NEW op, NEW at \in {"updUpdate", "delTask", "startSelect", "copyInsert"},
           at = "updUpdate" => op = "upd",
           at = "copyInsert" => op = "copy",
           FindTask(p, op, at)
    PROVE  IInv'
<1>1. CASE Return(p, "TASK_NOT_FOUND")
  BY <1>1, LeaveKeeps DEF PWTResult, FindTask
<1>2. CASE taskId[p] # 0 /\ Proceed(p, at)
  BY <1>2, GoOn, FileKept DEF FindTask, LookedUp, file, Selects, Writes
<1> QED
  BY <1>1, <1>2 DEF FindTask

(* Testing that a label is free keeps IInv.                                 *)
LEMMA FindNoTaskKeeps ==
    ASSUME IInv, NEW p \in Proc,
           NEW op, NEW at, NEW next \in {"addInsert", "lookup"},
           next = "addInsert" => op = "add",
           FindNoTask(p, at, op, next)
    PROVE  IInv'
<1>1. CASE Return(p, "TASK_ALREADY_EXISTS")
  BY <1>1, LeaveKeeps DEF PWTResult, FindNoTask
<1>2. CASE Proceed(p, next)
  BY <1>2, GoOn, FileKept DEF FindNoTask, LookedUp, file, Lookups, Writes
<1> QED
  BY <1>1, <1>2 DEF FindNoTask

(* The time is read and the SELECT is kept open for the row it found.       *)
LEMMA HoldingKeeps ==
    ASSUME IInv, NEW p \in Proc,
           NEW from \in {"startSelect", "stopSelect"},
           NEW at \in {"startEnd", "stopEnd"},
           at = "startEnd" => from = "startSelect",
           HasRow(p, from), ThenHolding(p, at), UNCHANGED file
    PROVE  IInv'
<1>1. /\ pc' = [pc EXCEPT ![p] = at] /\ now' = [now EXCEPT ![p] = clock]
      /\ UNCHANGED <<file, cmd, reply, begun, clock, lock, known, taskId,
                     recordId, newId>>
  BY DEF ThenHolding, Jump, GetCurrentDatetime
<1>2. SessionOK'
  BY <1>1 DEF IInv, TypeOK, SessionOK, file, Writes
<1>3. ProcOK(p)'
  <2>1. pc'[p] = at /\ now'[p] = clock /\ pc[p] = from /\ lock[p] = "shared"
        /\ recordId[p] # 0
    BY <1>1 DEF IInv, TypeOK, SessionOK, HasRow
  <2>2. /\ recordId[p] \in OpenRecords(records)
        /\ records[recordId[p]].begin <= clock
    BY <2>1 DEF IInv, ProcOK, HoldsRow, PeriodsForward, OpenRecords
  <2>3. HoldsRow(p)'
    BY <1>1, <2>1, <2>2 DEF HoldsRow, OpenRecords, file
  <2>4. Dispatched(p)' /\ HasIds(p)' /\ now'[p] <= clock'
    BY <1>1, <2>1 DEF Dispatched, HasIds, IInv, ProcOK, file, TypeOK, SessionOK
  <2> QED
    BY <2>3, <2>4 DEF ProcOK
<1>4. Frame(p)
  BY <1>1 DEF IInv, TypeOK, SessionOK, Frame, file
<1> QED
  BY <1>2, <1>3, <1>4, FileKept DEF StepOK

(* The time is read, with no row held, and IInv is kept.                    *)
LEMMA StartTimeKeeps ==
    ASSUME IInv, NEW p \in Proc, StartTime(p)
    PROVE  IInv'
<1>1. /\ pc[p] = "startTime"
      /\ pc' = [pc EXCEPT ![p] = "startInsert"] /\ now' = [now EXCEPT ![p] = clock]
      /\ UNCHANGED <<file, cmd, reply, begun, clock, lock, known, taskId, recordId,
                     newId>>
  BY DEF StartTime, Jump, GetCurrentDatetime
<1>2. SessionOK'
  BY <1>1 DEF IInv, TypeOK, SessionOK, Writes, file
<1>3. ProcOK(p)'
  <2>1. pc'[p] = "startInsert" /\ now'[p] = clock /\ clock \in Time
    BY <1>1 DEF IInv, TypeOK, SessionOK
  <2>2. HoldsRow(p)' /\ Dispatched(p)' /\ HasIds(p)' /\ now'[p] <= clock'
    BY <1>1, <2>1 DEF IInv, ProcOK, HoldsRow, Dispatched, HasIds, file
  <2> QED
    BY <2>2 DEF ProcOK
<1>4. Frame(p)
  BY <1>1 DEF IInv, TypeOK, SessionOK, Frame, file
<1> QED
  BY <1>1, <1>2, <1>3, <1>4, FileKept DEF StepOK

(* The SELECT is finalized, and IInv is kept.                               *)
LEMMA StartFinishKeeps ==
    ASSUME IInv, NEW p \in Proc, StartFinish(p)
    PROVE  IInv'
<1>1. taskId[p] # 0
  BY DEF StartFinish, IInv, ProcOK, HasIds
<1>2. StepOK(p)
  BY <1>1, GoOn DEF StartFinish, Pauses, file
<1> QED
  BY <1>2, FileKept DEF StartFinish

(* What StartTask does with the row it found, or did not, keeps IInv.       *)
LEMMA StartRowKeeps ==
    ASSUME IInv, NEW p \in Proc, StartRow(p)
    PROVE  IInv'
<1>1. CASE Return(p, "ALREADY_RUNNING")
  BY <1>1, LeaveKeeps DEF PWTResult, StartRow
<1>2. CASE HasRow(p, "startSelect") /\ ThenHolding(p, "startEnd")
  BY <1>2, HoldingKeeps DEF StartRow
<1>3. CASE NoRow(p, "startSelect") /\ Proceed(p, "startTime")
  <2>1. taskId[p] # 0
    BY <1>3 DEF NoRow, SelectBusy, IInv, ProcOK, HasIds
  <2>2. StepOK(p)
    BY <1>3, <2>1, GoOn DEF StartRow, Pauses, file
  <2> QED
    BY <2>2, FileKept DEF StartRow
<1> QED
  BY <1>1, <1>2, <1>3 DEF StartRow

(* What StopTask does with the row it found, or did not, keeps IInv.        *)
LEMMA StopRowKeeps ==
    ASSUME IInv, NEW p \in Proc, StopRow(p)
    PROVE  IInv'
<1>1. CASE Return(p, "NOTHING_RUNNING")
  BY <1>1, LeaveKeeps DEF PWTResult, StopRow
<1>2. CASE HasRow(p, "stopSelect") /\ ThenHolding(p, "stopEnd")
  BY <1>2, HoldingKeeps DEF StopRow
<1> QED
  BY <1>1, <1>2 DEF StopRow

(* What Status shows is of the right type, and IInv is kept.                *)
LEMMA StatusRowKeeps ==
    ASSUME IInv, NEW p \in Proc, StatusRow(p)
    PROVE  IInv'
<1> DEFINE r == recordId[p]
           task == records[r].task
           shown == {[label |-> tasks[task].label, title |-> tasks[task].title,
                      begin |-> records[r].begin]}
<1>1. CASE Return(p, "NOTHING_RUNNING")
  BY <1>1, LeaveKeeps DEF PWTResult, StatusRow
<1>2. CASE /\ HasRow(p, "statusSelect") /\ task \in DOMAIN tasks
           /\ ReturnShowing(p, "ALREADY_RUNNING", shown)
  <2>1. r \in DOMAIN records
    BY <1>2 DEF HasRow, IInv, ProcOK, HoldsRow, OpenRecords
  <2>2. records[r].begin \in Time /\ tasks[task].label \in Label
        /\ tasks[task].title \in Title
    BY <1>2, <2>1 DEF IInv, TypeOK, FileOK, TaskRow, RecordRow
  <2>3. shown \in SUBSET [label : Label, title : Title, begin : Time]
    BY <2>2
  <2>4. StepOK(p)
    BY <1>2, <2>3, Leave DEF PWTResult, StatusRow, file
  <2> QED
    BY <2>4, FileKept DEF StatusRow
<1> QED
  BY <1>1, <1>2 DEF StatusRow

(* Fetching the next record to copy keeps IInv: the row is there.           *)
LEMMA CopyFetchKeeps ==
    ASSUME IInv, NEW p \in Proc, CopyFetch(p)
    PROVE  IInv'
<1>1. CASE Return(p, "OK")
  BY <1>1, LeaveKeeps DEF PWTResult, CopyFetch
<1>2. CASE ~Return(p, "OK")
  <2>1. PICK k \in RowId : /\ IsFirst(RemainingRecords(p), k)
                           /\ recordId' = [recordId EXCEPT ![p] = k]
    BY <1>2 DEF CopyFetch
  <2>2. /\ pc[p] = "copyFetch" /\ lock[p] = "shared"
        /\ pc' = [pc EXCEPT ![p] = "copyRecord"]
        /\ UNCHANGED <<file, cmd, reply, begun, clock, lock, known, taskId, newId, now>>
    BY <1>2 DEF CopyFetch, Jump
  <2>3. k \in DOMAIN records
    BY <2>1, RowAssumption DEF IsFirst, RemainingRecords, RecordsOf
  <2>4. SessionOK'
    BY <2>1, <2>2 DEF IInv, TypeOK, SessionOK, file, Writes
  <2>5. ProcOK(p)'
    <3>1. pc'[p] = "copyRecord" /\ recordId'[p] = k
      BY <2>1, <2>2 DEF IInv, TypeOK, SessionOK
    <3> QED
      BY <2>2, <2>3, <3>1 DEF IInv, ProcOK, HoldsRow, Dispatched, HasIds, file
  <2>6. Frame(p)
    BY <2>1, <2>2 DEF IInv, TypeOK, SessionOK, Frame, file
  <2> QED
    BY <2>2, <2>4, <2>5, <2>6, FileKept DEF StepOK
<1> QED
  BY <1>1, <1>2

-----------------------------------------------------------------------------
(* The steps that change the file: first what they do to it. *)

(* New rows of pwt_tasks of the right type are all FileOK asks for.         *)
LEMMA TasksChange ==
    ASSUME IInv, UNCHANGED <<records, schema, clock>>,
           DOMAIN tasks' \subseteq RowId, \A k \in DOMAIN tasks' : tasks'[k] \in TaskRow
    PROVE  FileOK' /\ PeriodsForward'
<1>1. FileOK'
  BY DEF IInv, TypeOK, FileOK
<1>2. PeriodsForward'
  BY DEF IInv, PeriodsForward
<1> QED
  BY <1>1, <1>2

\* A record that PeriodsForward admits.
Forward(row, t) ==
    /\ row.begin <= t
    /\ row.end \in Nat => row.begin <= row.end /\ row.end <= t

(* New rows of pwt_work_records must also run forward.                      *)
LEMMA RecordsChange ==
    ASSUME IInv, UNCHANGED <<tasks, schema, clock>>,
           DOMAIN records' \subseteq RowId,
           \A r \in DOMAIN records' :
               records'[r] \in RecordRow /\ Forward(records'[r], clock),
           DOMAIN records' # {} => "tasks" \in schema
    PROVE  FileOK' /\ PeriodsForward'
<1>1. FileOK'
  BY DEF IInv, TypeOK, FileOK
<1>2. PeriodsForward'
  BY DEF PeriodsForward, Forward
<1> QED
  BY <1>1, <1>2

(* Ending the row a process holds. *)
LEMMA EndRow ==
    ASSUME IInv, NEW p \in Proc, pc[p] \in {"startEnd", "stopEnd"},
           records' = CloseRecord(records, recordId[p], now[p]),
           UNCHANGED <<tasks, schema, clock>>
    PROVE  FileOK' /\ PeriodsForward'
<1> DEFINE r == recordId[p]
<1>1. /\ r \in OpenRecords(records) /\ now[p] \in Time
      /\ records[r].begin <= now[p] /\ now[p] <= clock
  BY DEF IInv, ProcOK, HoldsRow, TypeOK, SessionOK
<1>2. /\ r \in DOMAIN records /\ DOMAIN records' = DOMAIN records
      /\ records'[r] \in RecordRow
      /\ records'[r].begin = records[r].begin /\ records'[r].end = now[p]
      /\ \A k \in DOMAIN records \ {r} : records'[k] = records[k]
  <2>1. FileOK
    BY DEF IInv, TypeOK
  <2> QED
    BY <1>1, <2>1 DEF CloseRecord, OpenRecords, FileOK, RecordRow
<1> HIDE DEF r
<1>3. \A k \in DOMAIN records : records[k] \in RecordRow /\ Forward(records[k], clock)
  BY DEF IInv, TypeOK, FileOK, PeriodsForward, Forward
<1>4. Forward(records'[r], clock)
  BY <1>1, <1>2, <1>3 DEF Forward, r
<1>5. \A k \in DOMAIN records' : records'[k] \in RecordRow /\ Forward(records'[k], clock)
  BY <1>2, <1>3, <1>4
<1>6. DOMAIN records' \subseteq RowId /\ (DOMAIN records' # {} => "tasks" \in schema)
  BY <1>2 DEF IInv, TypeOK, FileOK
<1> QED
  BY <1>5, <1>6, RecordsChange

(* Inserting a record. *)
LEMMA AddRow ==
    ASSUME IInv, NEW id \in RowId, FreshRowid(records, id),
           NEW row \in RecordRow, Forward(row, clock), "tasks" \in schema,
           records' = Insert(records, id, row), UNCHANGED <<tasks, schema, clock>>
    PROVE  FileOK' /\ PeriodsForward'
<1>1. /\ DOMAIN records' = DOMAIN records \cup {id} /\ records'[id] = row
      /\ \A k \in DOMAIN records : records'[k] = records[k]
  <2>1. DOMAIN records \subseteq RowId
    BY DEF IInv, TypeOK, FileOK
  <2> QED
    BY <2>1, RowAssumption DEF Insert, FreshRowid
<1>2. \A k \in DOMAIN records : records[k] \in RecordRow /\ Forward(records[k], clock)
  BY DEF IInv, TypeOK, FileOK, PeriodsForward, Forward
<1>3. DOMAIN records' \subseteq RowId
  BY <1>1 DEF IInv, TypeOK, FileOK
<1>4. \A k \in DOMAIN records' : records'[k] \in RecordRow /\ Forward(records'[k], clock)
  BY <1>1, <1>2
<1> QED
  BY <1>3, <1>4, RecordsChange

-----------------------------------------------------------------------------

(* The INSERT of AddTask keeps IInv.                                        *)
LEMMA AddInsertKeeps ==
    ASSUME IInv, NEW p \in Proc, AddInsert(p)
    PROVE  IInv'
<1>1. CASE UNCHANGED tasks
  BY <1>1, LeaveKeeps DEF AddInsert, PWTResult, file
<1>2. CASE Commits(p, "addInsert") /\ tasks' # tasks
  <2>1. PICK id \in RowId :
           /\ FreshRowid(tasks, id)
           /\ tasks' = Insert(tasks, id, [label |-> cmd[p].label,
                                          title |-> cmd[p].title])
    BY <1>2 DEF AddInsert
  <2>2. [label |-> cmd[p].label, title |-> cmd[p].title] \in TaskRow
    <3>1. cmd[p] \in Command \cup {NoCommand} /\ cmd[p].op = "add"
      BY <1>2 DEF Commits, IInv, ProcOK, Dispatched, TypeOK, SessionOK
    <3> QED
      BY <3>1, CommandFields DEF TaskRow
  <2>3. DOMAIN tasks' \subseteq RowId /\ \A k \in DOMAIN tasks' : tasks'[k] \in TaskRow
    <3>1. DOMAIN tasks \subseteq RowId
      BY DEF IInv, TypeOK, FileOK
    <3>2. /\ DOMAIN tasks' = DOMAIN tasks \cup {id}
          /\ tasks'[id] \in TaskRow
          /\ \A k \in DOMAIN tasks : tasks'[k] = tasks[k]
      BY <2>1, <2>2, <3>1, RowAssumption DEF Insert, FreshRowid
    <3> QED
      BY <3>1, <3>2 DEF IInv, TypeOK, FileOK
  <2>4. StepOK(p) /\ UNCHANGED <<records, schema, clock>>
    BY LeaveWith DEF AddInsert, PWTResult, Return, ReturnShowing
  <2> QED
    BY <1>2, <2>3, <2>4, TasksChange, FileChanged
<1> QED
  BY <1>1, <1>2 DEF AddInsert

(* The UPDATE of UpdTask keeps IInv.                                        *)
LEMMA UpdUpdateKeeps ==
    ASSUME IInv, NEW p \in Proc, UpdUpdate(p)
    PROVE  IInv'
<1>1. CASE UNCHANGED tasks
  BY <1>1, LeaveKeeps DEF UpdUpdate, PWTResult, file
<1>2. CASE Commits(p, "updUpdate") /\ tasks' # tasks
  <2>1. tasks' = Retitle(tasks, taskId[p], cmd[p].title)
    BY <1>2 DEF UpdUpdate
  <2>2. cmd[p].title \in Title
    <3>1. cmd[p] \in Command \cup {NoCommand} /\ cmd[p].op = "upd"
      BY <1>2 DEF Commits, IInv, ProcOK, Dispatched, TypeOK, SessionOK
    <3> QED
      BY <3>1, CommandFields
  <2>3. DOMAIN tasks' \subseteq RowId /\ \A k \in DOMAIN tasks' : tasks'[k] \in TaskRow
    BY <2>1, <2>2 DEF IInv, TypeOK, FileOK, Retitle, TaskRow
  <2>4. StepOK(p) /\ UNCHANGED <<records, schema, clock>>
    BY LeaveWith DEF UpdUpdate, PWTResult, Return, ReturnShowing
  <2> QED
    BY <1>2, <2>3, <2>4, TasksChange, FileChanged DEF Commits
<1> QED
  BY <1>1, <1>2 DEF UpdUpdate

(* The first DELETE of DelTask keeps IInv.                                  *)
LEMMA DelTaskRowKeeps ==
    ASSUME IInv, NEW p \in Proc, DelTaskRow(p)
    PROVE  IInv'
<1>1. StepOK(p) /\ UNCHANGED <<records, schema, clock>>
  BY GoOn DEF DelTaskRow, Writes, Proceed, Jump
<1>2. CASE UNCHANGED tasks
  BY <1>1, <1>2, FileKept DEF file
<1>3. CASE Commits(p, "delTask") /\ tasks' = Delete(tasks, {taskId[p]})
  <2>1. DOMAIN tasks' \subseteq RowId /\ \A k \in DOMAIN tasks' : tasks'[k] \in TaskRow
    <3>1. /\ DOMAIN tasks' = DOMAIN tasks \ {taskId[p]}
          /\ \A k \in DOMAIN tasks' : tasks'[k] = tasks[k]
      BY <1>3 DEF Delete, Restrict
    <3> QED
      BY <3>1 DEF IInv, TypeOK, FileOK
  <2> QED
    BY <1>1, <1>3, <2>1, TasksChange, FileChanged DEF Commits
<1> QED
  BY <1>2, <1>3 DEF DelTaskRow

(* The second DELETE of DelTask keeps IInv.                                 *)
LEMMA DelRecordsKeeps ==
    ASSUME IInv, NEW p \in Proc, DelRecords(p)
    PROVE  IInv'
<1>1. StepOK(p) /\ UNCHANGED <<tasks, schema, clock>>
  BY LeaveWith DEF DelRecords, PWTResult, Return, ReturnShowing
<1>2. CASE UNCHANGED records
  BY <1>1, <1>2, FileKept DEF file
<1>3. CASE /\ Commits(p, "delRecords")
           /\ records' = Delete(records, RecordsOf(records, taskId[p]))
  <2>1. /\ DOMAIN records' \subseteq DOMAIN records
        /\ \A r \in DOMAIN records' : records'[r] = records[r]
    <3>1. /\ DOMAIN records' = DOMAIN records \ RecordsOf(records, taskId[p])
          /\ \A r \in DOMAIN records' : records'[r] = records[r]
      BY <1>3 DEF Delete, Restrict
    <3> QED
      BY <3>1
  <2>2. \A r \in DOMAIN records : records[r] \in RecordRow /\ Forward(records[r], clock)
    BY DEF IInv, TypeOK, FileOK, PeriodsForward, Forward
  <2>3. FileOK' /\ PeriodsForward'
    BY <1>1, <2>1, <2>2, RecordsChange DEF IInv, TypeOK, FileOK
  <2> QED
    BY <1>1, <1>3, <2>3, FileChanged DEF Commits
<1> QED
  BY <1>2, <1>3 DEF DelRecords

(* The UPDATE of StartTask keeps IInv: the row it ends is still open.       *)
LEMMA StartEndKeeps ==
    ASSUME IInv, NEW p \in Proc, StartEnd(p)
    PROVE  IInv'
<1>1. StepOK(p) /\ UNCHANGED <<tasks, schema, clock>> /\ pc[p] = "startEnd"
  <2>1. pc[p] = "startEnd"
    BY DEF StartEnd, Commits, WriteBusy
  <2>2. /\ pc' = [pc EXCEPT ![p] = "startFinish"] /\ lock' = [lock EXCEPT ![p] = "shared"]
        /\ UNCHANGED <<tasks, schema, cmd, reply, begun, clock, known, taskId, recordId,
                       newId, now>>
    BY DEF StartEnd, Jump, Hold, local
  <2>3. SessionOK'
    BY <2>2 DEF IInv, TypeOK, SessionOK, Pauses
  <2>4. ProcOK(p)'
    <3>1. pc'[p] = "startFinish"
      BY <2>2 DEF IInv, TypeOK, SessionOK
    <3> QED
      BY <2>1, <2>2, <3>1 DEF IInv, ProcOK, Dispatched, HasIds, HoldsRow
  <2>5. Frame(p)
    BY <2>2 DEF IInv, TypeOK, SessionOK, Frame
  <2> QED
    BY <2>1, <2>2, <2>3, <2>4, <2>5 DEF StepOK
<1>2. CASE UNCHANGED records
  BY <1>1, <1>2, FileKept DEF file
<1>3. CASE Alone(p) /\ records' = CloseRecord(records, recordId[p], now[p])
  BY <1>1, <1>3, EndRow, FileChanged
<1> QED
  BY <1>2, <1>3 DEF StartEnd, Commits

(* The UPDATE of StopTask keeps IInv: the row it ends is still open.        *)
LEMMA StopEndKeeps ==
    ASSUME IInv, NEW p \in Proc, StopEnd(p)
    PROVE  IInv'
<1>1. StepOK(p) /\ UNCHANGED <<tasks, schema, clock>> /\ pc[p] = "stopEnd"
  BY LeaveWith DEF StopEnd, PWTResult, Return, ReturnShowing, Commits, WriteBusy
<1>2. CASE UNCHANGED records
  BY <1>1, <1>2, FileKept DEF file
<1>3. CASE Alone(p) /\ records' = CloseRecord(records, recordId[p], now[p])
  BY <1>1, <1>3, EndRow, FileChanged
<1> QED
  BY <1>2, <1>3 DEF StopEnd, Commits

(* The INSERT of StartTask keeps IInv.                                      *)
LEMMA StartInsertKeeps ==
    ASSUME IInv, NEW p \in Proc, StartInsert(p)
    PROVE  IInv'
<1>1. StepOK(p) /\ UNCHANGED <<tasks, schema, clock>> /\ pc[p] = "startInsert"
  BY LeaveWith
  DEF StartInsert, PWTResult, Return, ReturnShowing, Commits, InsertRefused, WriteBusy
<1>2. CASE UNCHANGED records
  BY <1>1, <1>2, FileKept DEF file
<1>3. CASE Commits(p, "startInsert") /\ records' # records
  <2> DEFINE row == [task |-> taskId[p], begin |-> now[p], end |-> Null]
  <2>1. PICK id \in RowId : FreshRowid(records, id) /\ records' = Insert(records, id, row)
    BY <1>3 DEF StartInsert
  <2>2. /\ taskId[p] \in RowId /\ "tasks" \in schema
        /\ now[p] \in Time /\ now[p] <= clock
    BY <1>1 DEF IInv, ProcOK, HasIds, TypeOK, SessionOK
  <2>3. row \in RecordRow /\ Forward(row, clock)
    BY <2>2, RowAssumption DEF RecordRow, Forward
  <2> HIDE DEF row
  <2> QED
    BY <1>1, <1>3, <2>1, <2>2, <2>3, AddRow, FileChanged DEF Commits
<1> QED
  BY <1>2, <1>3 DEF StartInsert

(* The INSERT of the new task of CopyTask keeps IInv.                       *)
LEMMA CopyInsertKeeps ==
    ASSUME IInv, NEW p \in Proc, CopyInsert(p)
    PROVE  IInv'
<1>1. CASE Return(p, "DATABASE_ERROR") /\ UNCHANGED tasks
  BY <1>1, LeaveKeeps DEF CopyInsert, PWTResult, file
<1>2. CASE ~(Return(p, "DATABASE_ERROR") /\ UNCHANGED tasks)
  <2>1. PICK id \in RowId :
           /\ FreshRowid(tasks, id)
           /\ tasks' = Insert(tasks, id, [label |-> cmd[p].newLabel,
                                          title |-> cmd[p].title])
           /\ newId' = [newId EXCEPT ![p] = id]
    BY <1>2 DEF CopyInsert
  <2>2. /\ pc[p] = "copyInsert" /\ Alone(p)
        /\ pc' = [pc EXCEPT ![p] = "copyFetch"] /\ lock' = [lock EXCEPT ![p] = "none"]
        /\ UNCHANGED <<records, schema, cmd, reply, begun, clock, known, taskId,
                       recordId, now>>
    BY <1>2 DEF CopyInsert, Commits, Jump, Hold
  <2>3. [label |-> cmd[p].newLabel, title |-> cmd[p].title] \in TaskRow
    <3>1. cmd[p] \in Command \cup {NoCommand} /\ cmd[p].op = "copy"
      BY <2>2 DEF IInv, ProcOK, Dispatched, TypeOK, SessionOK
    <3> QED
      BY <3>1, CommandFields DEF TaskRow
  <2>4. DOMAIN tasks' \subseteq RowId /\ \A k \in DOMAIN tasks' : tasks'[k] \in TaskRow
    <3>1. DOMAIN tasks \subseteq RowId
      BY DEF IInv, TypeOK, FileOK
    <3>2. /\ DOMAIN tasks' = DOMAIN tasks \cup {id}
          /\ tasks'[id] \in TaskRow
          /\ \A k \in DOMAIN tasks : tasks'[k] = tasks[k]
      BY <2>1, <2>3, <3>1, RowAssumption DEF Insert, FreshRowid
    <3> QED
      BY <3>1, <3>2 DEF IInv, TypeOK, FileOK
  <2>5. SessionOK'
    BY <2>1, <2>2 DEF IInv, TypeOK, SessionOK, Selects
  <2>6. ProcOK(p)'
    <3>1. pc'[p] = "copyFetch" /\ newId'[p] # 0 /\ lock'[p] = "none"
      BY <2>1, <2>2 DEF IInv, TypeOK, SessionOK
    <3> QED
      BY <2>2, <3>1 DEF IInv, ProcOK, Dispatched, HasIds, HoldsRow
  <2>7. Frame(p)
    BY <2>1, <2>2 DEF IInv, TypeOK, SessionOK, Frame
  <2> QED
    BY <2>2, <2>4, <2>5, <2>6, <2>7, TasksChange, FileChanged DEF StepOK
<1> QED
  BY <1>1, <1>2

(* The INSERT of one copied record keeps IInv.                              *)
LEMMA CopyRecordKeeps ==
    ASSUME IInv, NEW p \in Proc, CopyRecord(p)
    PROVE  IInv'
<1>1. /\ pc[p] = "copyRecord"
      /\ pc' = [pc EXCEPT ![p] = "copyFetch"] /\ lock' = [lock EXCEPT ![p] = "shared"]
      /\ UNCHANGED <<tasks, schema, cmd, reply, begun, clock, known, taskId,
                     recordId, newId, now>>
  BY DEF CopyRecord, Commits, InsertRefused, WriteBusy, Jump, Hold, local
<1>2. StepOK(p)
  <2>1. SessionOK'
    BY <1>1 DEF IInv, TypeOK, SessionOK, Selects
  <2>2. ProcOK(p)'
    <3>1. pc'[p] = "copyFetch"
      BY <1>1 DEF IInv, TypeOK, SessionOK
    <3> QED
      BY <1>1, <3>1 DEF IInv, ProcOK, Dispatched, HasIds, HoldsRow
  <2>3. Frame(p)
    BY <1>1 DEF IInv, TypeOK, SessionOK, Frame
  <2> QED
    BY <2>1, <2>2, <2>3 DEF StepOK
<1>3. CASE UNCHANGED records
  BY <1>1, <1>2, <1>3, FileKept DEF file
<1>4. CASE Commits(p, "copyRecord") /\ records' # records
  <2> DEFINE old == records[recordId[p]]
             row == [task |-> newId[p], begin |-> old.begin, end |-> Rebound(old.end)]
  <2>1. PICK id \in RowId : FreshRowid(records, id) /\ records' = Insert(records, id, row)
    BY <1>4 DEF CopyRecord
  <2>2. /\ newId[p] \in RowId /\ "tasks" \in schema
        /\ recordId[p] \in DOMAIN records
    BY <1>1 DEF IInv, ProcOK, HasIds, HoldsRow, TypeOK, SessionOK
  <2>3. old \in RecordRow /\ Forward(old, clock)
    BY <2>2 DEF IInv, TypeOK, FileOK, PeriodsForward, Forward
  <2>4. row \in RecordRow /\ Forward(row, clock)
    BY <2>2, <2>3, RowAssumption DEF RecordRow, Forward, Rebound
  <2> HIDE DEF row
  <2> QED
    BY <1>1, <1>2, <1>4, <2>1, <2>2, <2>4, AddRow, FileChanged DEF Commits
<1> QED
  BY <1>3, <1>4 DEF CopyRecord

-----------------------------------------------------------------------------
(* All steps together. *)

(* The clock going forward keeps IInv.                                      *)
LEMMA TickKeeps == ASSUME IInv, Tick PROVE IInv'
<1>1. clock \in Time /\ clock' \in Time /\ clock <= clock'
  BY SessionAssumption DEF IInv, TypeOK, SessionOK, Tick
<1>2. FileOK'
  BY DEF IInv, TypeOK, FileOK, Tick, file
<1>3. SessionOK'
  BY <1>1 DEF IInv, TypeOK, SessionOK, Tick, file, local
<1>4. PeriodsForward'
  <2>1. \A r \in DOMAIN records : records[r] \in RecordRow
    BY DEF IInv, TypeOK, FileOK
  <2> QED
    BY <1>1, <2>1, SessionAssumption DEF IInv, PeriodsForward, Tick, file, RecordRow
<1>5. \A q \in Proc : ProcOK(q)'
  <2> SUFFICES ASSUME NEW q \in Proc PROVE ProcOK(q)'
    OBVIOUS
  <2>1. now[q] \in Time /\ now[q] <= clock
    BY DEF IInv, ProcOK, TypeOK, SessionOK
  <2> QED
    BY <1>1, <2>1 DEF IInv, ProcOK, Dispatched, HasIds, HoldsRow, OpenRecords, Tick,
       file, local
<1> QED
  BY <1>2, <1>3, <1>4, <1>5 DEF IInv, TypeOK

(* A step that changes nothing keeps IInv.                                  *)
LEMMA StutterKeeps == ASSUME IInv, UNCHANGED vars PROVE IInv'
<1>1. FileOK' /\ SessionOK'
  BY DEF IInv, TypeOK, FileOK, SessionOK, vars, file, local
<1>2. PeriodsForward'
  BY DEF IInv, PeriodsForward, vars, file
<1>3. \A q \in Proc : ProcOK(q)'
  BY DEF IInv, ProcOK, Dispatched, HasIds, HoldsRow, OpenRecords, vars, file, local
<1> QED
  BY <1>1, <1>2, <1>3 DEF IInv, TypeOK

(* IInv holds at first.                                                     *)
LEMMA InitIInv == Init => IInv
<1> SUFFICES ASSUME Init PROVE IInv
  OBVIOUS
<1>1. FileOK
  BY DEF Init, FileOK, Tables
<1>2. SessionOK
  BY SessionAssumption DEF Init, SessionOK, Reply, PWTResult
<1>3. PeriodsForward /\ \A q \in Proc : ProcOK(q)
  BY DEF Init, PeriodsForward, ProcOK, Dispatched, HasIds, HoldsRow
<1> QED
  BY <1>1, <1>2, <1>3 DEF IInv, TypeOK

(* The program's own steps. *)
LEMMA StepKeeps == ASSUME IInv, NEW p \in Proc, Step(p) PROVE IInv'
<1>1. ASSUME PrepareFails(p) PROVE IInv'
  BY <1>1, LeaveKeeps DEF PrepareFails, PWTResult
<1>2. ASSUME AddTask(p) PROVE IInv'
  BY <1>2, FindNoTaskKeeps, AddInsertKeeps DEF AddTask
<1>3. ASSUME UpdTask(p) PROVE IInv'
  BY <1>3, FindTaskKeeps, UpdUpdateKeeps DEF UpdTask
<1>4. ASSUME DelTask(p) PROVE IInv'
  BY <1>4, FindTaskKeeps, DelTaskRowKeeps, DelRecordsKeeps DEF DelTask
<1>5. ASSUME StartTask(p) PROVE IInv'
  BY <1>5, FindTaskKeeps, FindOpenKeeps, StartRowKeeps, StartEndKeeps,
     StartFinishKeeps, StartTimeKeeps, StartInsertKeeps DEF StartTask
<1>6. ASSUME StopTask(p) PROVE IInv'
  BY <1>6, FindOpenKeeps, StopRowKeeps, StopEndKeeps DEF StopTask
<1>7. ASSUME Status(p) PROVE IInv'
  BY <1>7, FindOpenKeeps, StatusRowKeeps DEF Status
<1>8. ASSUME CopyTask(p) PROVE IInv'
  BY <1>8, FindNoTaskKeeps, FindTaskKeeps, CopyInsertKeeps, CopyOpenKeeps,
     CopyFetchKeeps, CopyRecordKeeps DEF CopyTask
<1> QED
  BY <1>1, <1>2, <1>3, <1>4, <1>5, <1>6, <1>7, <1>8, ReserveKeeps, PendKeeps,
     CreateCheckKeeps, CreateDoneKeeps, GetTaskIdKeeps DEF Step

(* Every step keeps IInv.                                                   *)
LEMMA NextIInv == IInv /\ [Next]_vars => IInv'
<1> SUFFICES ASSUME IInv, [Next]_vars PROVE IInv'
  OBVIOUS
<1>1. ASSUME NEW p \in Proc, NEW c \in Command, Begin(p, c) PROVE IInv'
  BY <1>1, BeginKeeps
<1>2. ASSUME NEW p \in Proc, Step(p) PROVE IInv'
  BY <1>2, StepKeeps
<1>3. ASSUME NEW p \in Proc, Crash(p) PROVE IInv'
  BY <1>3, LeaveKeeps DEF Crash, PWTResult
<1>4. CASE Tick
  BY <1>4, TickKeeps
<1>5. CASE Quiet \/ UNCHANGED vars
  BY <1>5, StutterKeeps DEF Quiet
<1> QED
  BY <1>1, <1>2, <1>3, <1>4, <1>5 DEF Next

(* IInv is an invariant: it is inductive and holds at first.                *)
THEOREM InductiveInvariant == Spec => []IInv
  BY InitIInv, NextIInv, PTL DEF Spec

(* The tables, the schema and every process keep their types.               *)
THEOREM TypeCorrect == Spec => []TypeOK
  BY InductiveInvariant, PTL DEF IInv

(* However StartTask and StopTask interleave, and wherever they are killed, *)
(* no period ends before it begins.                                         *)
THEOREM PeriodsRunForward == Spec => []PeriodsForward
  BY InductiveInvariant, PTL DEF IInv

-----------------------------------------------------------------------------

(* A new record takes no existing record's id.                              *)
LEMMA InsertEndsNothing ==
    ASSUME NEW id \in RowId, FreshRowid(records, id), NEW row,
           records' = Insert(records, id, row)
    PROVE  EndsOnlyOpen
<1>1. id \notin DOMAIN records
  BY RowAssumption DEF FreshRowid
<1> QED
  BY <1>1 DEF EndsOnlyOpen, Insert

(* The record that StartTask or StopTask ends was open.                     *)
LEMMA EndEndsOpen ==
    ASSUME IInv, NEW p \in Proc, pc[p] \in {"startEnd", "stopEnd"},
           records' = CloseRecord(records, recordId[p], now[p])
    PROVE  EndsOnlyOpen
<1>1. recordId[p] \in OpenRecords(records)
  BY DEF IInv, ProcOK, HoldsRow
<1>2. \A r \in DOMAIN records : records[r] \in RecordRow
  BY DEF IInv, TypeOK, FileOK
<1> QED
  BY <1>1, <1>2 DEF EndsOnlyOpen, OpenRecords, CloseRecord, RecordRow

(* No statement of the program alters an ended record.                      *)
LEMMA StepEndsOnlyOpen ==
    ASSUME IInv, NEW p \in Proc, Step(p)
    PROVE  EndsOnlyOpen \/ UNCHANGED records
<1>1. ASSUME AddTask(p) \/ UpdTask(p) PROVE UNCHANGED records
  BY <1>1 DEF AddTask, FindNoTask, AddInsert, UpdTask, FindTask, UpdUpdate, file
<1>2. ASSUME DelTask(p) PROVE EndsOnlyOpen \/ UNCHANGED records
  <2>1. CASE records' = Delete(records, RecordsOf(records, taskId[p]))
    BY <2>1 DEF Delete, Restrict, EndsOnlyOpen
  <2> QED
    BY <1>2, <2>1 DEF DelTask, FindTask, DelTaskRow, DelRecords, file
<1>3. ASSUME StartEnd(p) \/ StopEnd(p) PROVE EndsOnlyOpen \/ UNCHANGED records
  BY <1>3, EndEndsOpen DEF StartEnd, StopEnd, Commits
<1>4. ASSUME StartInsert(p) PROVE EndsOnlyOpen \/ UNCHANGED records
  BY <1>4, InsertEndsNothing DEF StartInsert
<1>5. ASSUME StartTask(p) PROVE EndsOnlyOpen \/ UNCHANGED records
  BY <1>3, <1>4, <1>5 DEF StartTask, FindTask, FindOpen, StartRow, StartFinish, StartTime,
     file
<1>6. ASSUME StopTask(p) \/ Status(p) PROVE EndsOnlyOpen \/ UNCHANGED records
  BY <1>3, <1>6 DEF StopTask, FindOpen, StopRow, Status, StatusRow, file
<1>7. ASSUME CopyTask(p) PROVE EndsOnlyOpen \/ UNCHANGED records
  <2>1. CASE CopyRecord(p)
    BY <2>1, InsertEndsNothing DEF CopyRecord
  <2> QED
    BY <1>7, <2>1 DEF CopyTask, FindNoTask, FindTask, CopyInsert, CopyOpen, CopyFetch, file
<1>8. ASSUME ~(\/ AddTask(p) \/ UpdTask(p) \/ DelTask(p) \/ StartTask(p)
               \/ StopTask(p) \/ Status(p) \/ CopyTask(p))
      PROVE  UNCHANGED records
  BY <1>8 DEF Step, Reserve, Pend, PrepareFails, CreateCheck, CreateDone, GetTaskId, file
<1> QED
  BY <1>1, <1>2, <1>5, <1>6, <1>7, <1>8

(* No command, however it interleaves with others, alters a period that has *)
(* ended: StartTask and StopTask write the end of a record only while the   *)
(* SELECT that found it open still holds its lock.                          *)
THEOREM EndedPeriodsStay == Spec => ClosedStaysClosed
<1>1. IInv /\ [Next]_vars => [EndsOnlyOpen]_records
  <2> SUFFICES ASSUME IInv, [Next]_vars PROVE EndsOnlyOpen \/ UNCHANGED records
    OBVIOUS
  <2>1. ASSUME NEW p \in Proc, Step(p) PROVE EndsOnlyOpen \/ UNCHANGED records
    BY <2>1, StepEndsOnlyOpen
  <2>2. ASSUME ~(\E p \in Proc : Step(p)) PROVE UNCHANGED records
    BY <2>2 DEF Next, Begin, Crash, Tick, Quiet, vars, file
  <2> QED
    BY <2>1, <2>2
<1> QED
  BY <1>1, InductiveInvariant, PTL DEF Spec, ClosedStaysClosed

-----------------------------------------------------------------------------
(* The loop of CopyTask: while its SELECT is open no other process commits, *)
(* and what it inserts itself belongs to another task.                      *)

\* q's step leaves p's cursor alone, and the records if p holds a lock.
LeavesCursor(p) ==
    /\ taskId'[p] = taskId[p]
    /\ recordId'[p] = recordId[p]
    /\ lock[p] # "none" => records' = records

(* A process that returns changes no other process's variables.             *)
LEMMA ReturnLeaves ==
    ASSUME TypeOK, NEW p \in Proc, NEW q \in Proc, p # q, NEW code, NEW shown,
           ReturnShowing(q, code, shown)
    PROVE  taskId'[p] = taskId[p] /\ recordId'[p] = recordId[p]
  BY DEF ReturnShowing, TypeOK, SessionOK

(* A step of one process leaves another's cursor alone: a statement that    *)
(* changes records commits only when no other process holds a lock.         *)
LEMMA OthersLeaveCursor ==
    ASSUME TypeOK, NEW p \in Proc, NEW q \in Proc, p # q, Step(q)
    PROVE  LeavesCursor(p)
<1> USE DEF LeavesCursor, file, local
<1>1. ASSUME Commits(q, pc[q]) PROVE lock[p] = "none"
  BY <1>1 DEF Commits, Alone, Others
<1>2. ASSUME NEW at, Proceed(q, at) PROVE taskId' = taskId /\ recordId' = recordId
  BY <1>2 DEF Proceed
<1>3. ASSUME NEW code, Return(q, code)
      PROVE  taskId'[p] = taskId[p] /\ recordId'[p] = recordId[p]
  BY <1>3, ReturnLeaves DEF Return
<1>4. ASSUME NEW at, ThenHolding(q, at) PROVE taskId' = taskId /\ recordId' = recordId
  BY <1>4 DEF ThenHolding
<1>5. CASE Reserve(q) \/ Pend(q) \/ CreateCheck(q) \/ CreateDone(q)
  BY <1>5 DEF Reserve, Pend, CreateCheck, CreateDone
<1>6. CASE PrepareFails(q)
  BY <1>3, <1>6 DEF PrepareFails
<1>7. CASE GetTaskId(q)
  BY <1>7 DEF GetTaskId, TypeOK, SessionOK
<1>8. ASSUME NEW op, NEW at, FindTask(q, op, at) PROVE LeavesCursor(p)
  BY <1>2, <1>3, <1>8 DEF FindTask
<1>9. ASSUME NEW at, NEW op, NEW next, FindNoTask(q, at, op, next) PROVE LeavesCursor(p)
  BY <1>2, <1>3, <1>9 DEF FindNoTask
<1>10. ASSUME NEW at, FindOpen(q, at) PROVE LeavesCursor(p)
  BY <1>10 DEF FindOpen, TypeOK, SessionOK
<1>11. CASE AddTask(q) \/ UpdTask(q)
  BY <1>3, <1>8, <1>9, <1>11 DEF AddTask, AddInsert, UpdTask, UpdUpdate
<1>12. CASE DelTask(q)
  <2>1. ASSUME DelTaskRow(q) PROVE LeavesCursor(p)
    BY <1>2, <2>1 DEF DelTaskRow
  <2>2. ASSUME DelRecords(q) PROVE LeavesCursor(p)
    BY <1>1, <1>3, <2>2 DEF DelRecords, Commits
  <2> QED
    BY <1>8, <1>12, <2>1, <2>2 DEF DelTask
<1>13. CASE StartTask(q)
  <2>1. ASSUME StartRow(q) PROVE LeavesCursor(p)
    BY <1>2, <1>3, <1>4, <2>1 DEF StartRow
  <2>2. ASSUME StartEnd(q) PROVE LeavesCursor(p)
    BY <1>1, <2>2 DEF StartEnd, Commits
  <2>3. ASSUME StartFinish(q) \/ StartTime(q) PROVE LeavesCursor(p)
    BY <1>2, <2>3 DEF StartFinish, StartTime
  <2>4. ASSUME StartInsert(q) PROVE LeavesCursor(p)
    BY <1>1, <1>3, <2>4 DEF StartInsert, Commits
  <2> QED
    BY <1>8, <1>10, <1>13, <2>1, <2>2, <2>3, <2>4 DEF StartTask
<1>14. CASE StopTask(q)
  <2>1. ASSUME StopRow(q) PROVE LeavesCursor(p)
    BY <1>3, <1>4, <2>1 DEF StopRow
  <2>2. ASSUME StopEnd(q) PROVE LeavesCursor(p)
    BY <1>1, <1>3, <2>2 DEF StopEnd, Commits
  <2> QED
    BY <1>10, <1>14, <2>1, <2>2 DEF StopTask
<1>15. CASE Status(q)
  <2>1. ASSUME StatusRow(q) PROVE LeavesCursor(p)
    BY <1>3, <2>1, ReturnLeaves DEF StatusRow
  <2> QED
    BY <1>10, <1>15, <2>1 DEF Status
<1>16. CASE CopyTask(q)
  <2>1. ASSUME CopyInsert(q) PROVE LeavesCursor(p)
    BY <1>3, <2>1 DEF CopyInsert
  <2>2. ASSUME CopyOpen(q) PROVE LeavesCursor(p)
    BY <2>2 DEF CopyOpen
  <2>3. ASSUME CopyFetch(q) PROVE LeavesCursor(p)
    BY <1>3, <2>3 DEF CopyFetch, TypeOK, SessionOK
  <2>4. ASSUME CopyRecord(q) PROVE LeavesCursor(p)
    BY <1>1, <2>4 DEF CopyRecord, Commits
  <2> QED
    BY <1>8, <1>9, <1>16, <2>1, <2>2, <2>3, <2>4 DEF CopyTask
<1> QED
  BY <1>5, <1>6, <1>7, <1>11, <1>12, <1>13, <1>14, <1>15, <1>16 DEF Step

(* A step of the loop itself moves the cursor on, or inserts a record of    *)
(* another task.                                                            *)
LEMMA OwnLoopShrinks ==
    ASSUME TypeOK, NEW p \in Proc, Step(p), InCopyLoop(p), ~CopiesItself(p)
    PROVE  RemainingRecords(p)' \subseteq RemainingRecords(p)
<1>1. /\ pc[p] \in {"copyFetch", "copyRecord"} /\ lock[p] # "none"
      /\ newId[p] # taskId[p]
  BY DEF InCopyLoop, CopiesItself
<1>2. ASSUME NEW code, NEW shown, ReturnShowing(p, code, shown) PROVE FALSE
  BY <1>2 DEF ReturnShowing, InCopyLoop, TypeOK, SessionOK
<1>3. \/ Reserve(p) \/ Pend(p) \/ CopyFetch(p) \/ CopyRecord(p)
  <2>1. pc[p] \notin Creates \cup Lookups
    BY <1>1 DEF Creates, Lookups
  <2>2. ~AddTask(p) /\ ~UpdTask(p) /\ ~DelTask(p)
    BY <1>1 DEF AddTask, FindNoTask, LookedUp, AddInsert, InsertRefused, Commits, WriteBusy,
       UpdTask, FindTask, UpdUpdate, DelTask, DelTaskRow, DelRecords
  <2>3. ~StartTask(p)
    BY <1>1 DEF StartTask, FindTask, LookedUp, FindOpen, OpensSelect, StartRow, HasRow, NoRow,
       SelectBusy, StartEnd, Commits, WriteBusy, StartFinish, StartTime, StartInsert,
       InsertRefused
  <2>4. ~StopTask(p) /\ ~Status(p)
    BY <1>1 DEF StopTask, FindOpen, OpensSelect, StopRow, HasRow, NoRow, SelectBusy, StopEnd,
       Commits, WriteBusy, Status, StatusRow
  <2>5. ~PrepareFails(p)
    BY <1>1 DEF PrepareFails
  <2>6. CopyTask(p) => CopyFetch(p) \/ CopyRecord(p)
    BY <1>1 DEF CopyTask, FindNoTask, FindTask, LookedUp, CopyInsert, Commits, InsertRefused,
       WriteBusy, CopyOpen, OpensSelect
  <2> QED
    BY <2>1, <2>2, <2>3, <2>4, <2>5, <2>6 DEF Step, CreateCheck, CreateDone, GetTaskId
<1>4. CASE Reserve(p) \/ Pend(p)
  BY <1>4 DEF Reserve, Pend, RemainingRecords, RecordsOf, file, local
<1>5. CASE CopyFetch(p)
  <2>1. PICK k \in RowId \cup {0} : /\ IsFirst(RemainingRecords(p), k) /\ k # 0
                                    /\ recordId' = [recordId EXCEPT ![p] = k]
                                    /\ UNCHANGED <<records, taskId>>
    BY <1>2, <1>5 DEF CopyFetch, Return, file
  <2>2. recordId'[p] = k /\ k > recordId[p]
    BY <2>1 DEF IsFirst, RemainingRecords, TypeOK, SessionOK
  <2>3. \A r \in RecordsOf(records, taskId[p]) : r \in RowId
    BY DEF RecordsOf, TypeOK, FileOK
  <2>4. recordId[p] \in Nat /\ k \in Nat
    BY RowAssumption DEF TypeOK, SessionOK
  <2> QED
    BY <2>1, <2>2, <2>3, <2>4, RowAssumption DEF RemainingRecords, RecordsOf
<1>6. CASE CopyRecord(p)
  <2>1. UNCHANGED <<taskId, recordId>>
    BY <1>6 DEF CopyRecord, local
  <2>2. CASE UNCHANGED records
    BY <2>1, <2>2 DEF RemainingRecords, RecordsOf
  <2>3. CASE ~UNCHANGED records
    <3> DEFINE row == [task |-> newId[p], begin |-> records[recordId[p]].begin,
                       end |-> Rebound(records[recordId[p]].end)]
    <3>1. PICK id \in RowId : records' = Insert(records, id, row)
      BY <1>6, <2>3 DEF CopyRecord
    <3>2. \A r \in DOMAIN records' : r \in DOMAIN records \/ r = id
      BY <3>1 DEF Insert
    <3>3. id \in DOMAIN records' /\ records'[id].task # taskId[p]
      BY <1>1, <3>1 DEF Insert
    <3>4. \A r \in DOMAIN records \ {id} : records'[r] = records[r]
      BY <3>1 DEF Insert
    <3> QED
      BY <2>1, <3>2, <3>3, <3>4 DEF RemainingRecords, RecordsOf
  <2> QED
    BY <2>2, <2>3
<1> QED
  BY <1>3, <1>4, <1>5, <1>6

(* Whatever other processes do, no step adds to the records that CopyTask's *)
(* loop has still to copy, unless its new task has got the original's id:   *)
(* the loop that inserts into the table it scans ends.                      *)
THEOREM CopyLoopEnds == Spec => CopyLoopShrinks
<1> DEFINE Shrinks == \A p \in Proc : InCopyLoop(p) /\ ~CopiesItself(p) =>
                         RemainingRecords(p)' \subseteq RemainingRecords(p)
<1>1. TypeOK /\ [Next]_vars => [Shrinks]_vars
  <2> SUFFICES ASSUME TypeOK, Next, NEW p \in Proc, InCopyLoop(p), ~CopiesItself(p)
               PROVE  RemainingRecords(p)' \subseteq RemainingRecords(p)
    OBVIOUS
  <2>1. ASSUME LeavesCursor(p) PROVE RemainingRecords(p)' = RemainingRecords(p)
    BY <2>1 DEF LeavesCursor, InCopyLoop, RemainingRecords, RecordsOf
  <2>2. ASSUME NEW q \in Proc, NEW c \in Command, Begin(q, c) PROVE LeavesCursor(p)
    BY <2>2 DEF Begin, LeavesCursor, file, local
  <2>3. ASSUME NEW q \in Proc, q # p, Crash(q) PROVE LeavesCursor(p)
    BY <2>3, ReturnLeaves DEF Crash, Return, LeavesCursor, file
  <2>4. ~Crash(p)
    BY DEF Crash, Return, ReturnShowing, InCopyLoop, TypeOK, SessionOK
  <2>5. ASSUME Tick \/ Quiet PROVE LeavesCursor(p)
    BY <2>5 DEF Tick, Quiet, LeavesCursor, vars, file, local
  <2>6. ASSUME NEW q \in Proc, q # p, Step(q) PROVE LeavesCursor(p)
    BY <2>6, OthersLeaveCursor
  <2>7. ASSUME Step(p) PROVE RemainingRecords(p)' \subseteq RemainingRecords(p)
    BY <2>7, OwnLoopShrinks
  <2> QED
    BY <2>1, <2>2, <2>3, <2>4, <2>5, <2>6, <2>7 DEF Next
<1> QED
  BY <1>1, TypeCorrect, PTL DEF Spec, CopyLoopShrinks
=============================================================================
