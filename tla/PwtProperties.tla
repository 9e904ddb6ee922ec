--------------------------- MODULE PwtProperties ---------------------------
(***************************************************************************)
(* What the work-time database must satisfy while processes run commands   *)
(* on it.  Which of these hold depends on whether processes overlap and    *)
(* whether they are killed; README.md says which run checks what.          *)
(***************************************************************************)
EXTENDS PwtSession, FiniteSets

Time == 0..MaxTime

TaskRow == [label : Label, title : Title]
RecordRow == [task : RowId, begin : Time, end : Time \cup {Null, Blank}]
Reply == [code : PWTResult,
          shown : SUBSET [label : Label, title : Title, begin : Time]]

FileOK ==
    /\ DOMAIN tasks \subseteq RowId /\ \A k \in DOMAIN tasks : tasks[k] \in TaskRow
    /\ DOMAIN records \subseteq RowId
    /\ \A r \in DOMAIN records : records[r] \in RecordRow
    /\ schema \subseteq Tables
    /\ DOMAIN records # {} => "tasks" \in schema

SessionOK ==
    /\ clock \in Time
    /\ begun \in 0..MaxCommands
    /\ lock \in [Proc -> {"none", "shared", "reserved", "pending"}]
    /\ known \in [Proc -> SUBSET schema]
    /\ pc \in [Proc -> {"idle"} \cup Lookups \cup Creates \cup Selects \cup Writes
                       \cup Pauses]
    /\ cmd \in [Proc -> Command \cup {NoCommand}]
    /\ reply \in [Proc -> Reply]
    /\ taskId \in [Proc -> RowId \cup {0}]
    /\ recordId \in [Proc -> RowId \cup {0}]
    /\ newId \in [Proc -> RowId \cup {0}]
    /\ now \in [Proc -> Time]
    /\ \A p \in Proc : pc[p] = "idle" => lock[p] = "none"

(* The variables have their types; no connection knows a table the file    *)
(* does not have, no record is stored before pwt_tasks exists, and an idle *)
(* process holds no lock on the file (every return path of the methods     *)
(* finalizes its statements).                                              *)
TypeOK == FileOK /\ SessionOK

-----------------------------------------------------------------------------
(* State invariants. *)

(* StartTask ends the running period before it begins another, so at most  *)
(* one period is open at any moment.                                       *)
OneOpenRecord ==
    \A r, s \in OpenRecords(records) : r = s

(* AddTask and CopyTask refuse a label that exists, so a label names one   *)
(* task.                                                                   *)
UniqueLabels ==
    \A j, k \in DOMAIN tasks : tasks[j].label = tasks[k].label => j = k

(* Every period belongs to a task that exists: none is left behind by      *)
(* DelTask (which deletes the task first) for a later task with the same   *)
(* task_id to inherit.                                                     *)
RecordsHaveTasks ==
    \A r \in DOMAIN records :
        \/ records[r].task \in DOMAIN tasks
        \/ \E p \in Proc : pc[p] = "delRecords" /\ taskId[p] = records[r].task

(* While the wall clock does not go back, no period ends before it begins, *)
(* whatever StartTask and StopTask interleave.                             *)
PeriodsForward ==
    \A r \in DOMAIN records :
        /\ records[r].begin <= clock
        /\ records[r].end \in Nat =>
               records[r].begin <= records[r].end /\ records[r].end <= clock

(* The closed periods of one task do not overlap, so the sum of its        *)
(* periods counts no moment twice.                                         *)
NoDoubleCounting ==
    \A r, s \in DOMAIN records :
        /\ r < s
        /\ records[r].task = records[s].task
        /\ records[r].end \in Nat
        /\ records[s].end \in Nat
        => records[r].end <= records[s].begin

(* CopyTask copies records of the original only, never the copies it has   *)
(* itself inserted: if it did, its loop would feed itself.                 *)
CopyReadsOriginalsOnly ==
    \A p \in Proc : pc[p] = "copyRecord" => records[recordId[p]].task # newId[p]

-----------------------------------------------------------------------------
(* Action properties. *)

\* Records are inserted, deleted, or given an end they did not have.
EndsOnlyOpen ==
    \A r \in DOMAIN records \cap DOMAIN records' :
        \/ records'[r] = records[r]
        \/ /\ records[r].end = Null
           /\ records'[r] = [records[r] EXCEPT !.end = records'[r].end]

(* A period that has ended is never altered again: StartTask and StopTask  *)
(* close the record they read only while it is still open.                 *)
ClosedStaysClosed == [][EndsOnlyOpen]_records

Returns(p, op, code) ==
    /\ cmd[p].op = op
    /\ pc'[p] = "idle"
    /\ reply'[p].code = code

\* What p's command says it has done, if it returns OK with this step.
Done(p) ==
    /\ Returns(p, "add", "OK") =>
          \E k \in DOMAIN tasks' : tasks'[k] = [label |-> cmd[p].label,
                                                title |-> cmd[p].title]
    /\ Returns(p, "upd", "OK") => tasks'[taskId[p]].title = cmd[p].title
    /\ Returns(p, "del", "OK") =>
          /\ taskId[p] \notin DOMAIN tasks'
          /\ \A r \in DOMAIN records' : records'[r].task # taskId[p]
    /\ Returns(p, "start", "OK") =>
          \E r \in DOMAIN records' : records'[r] = [task  |-> taskId[p],
                                                    begin |-> now[p],
                                                    end   |-> Null]
    /\ Returns(p, "stop", "OK") => records'[recordId[p]].end = now[p]

(* PWTRESULT_OK means that the command was carried out: main then prints   *)
(* that the task was added, updated, deleted, started or stopped.          *)
OkMeansDone == [][\A p \in Proc : Done(p)]_vars

\* p's status command tells the truth about there being no open period.
Free(p) ==
    Returns(p, "status", "NOTHING_RUNNING") => OpenRecords(records) = {}

(* When Status reports that nothing is running, no period is open.         *)
FreeMeansNothingOpen == [][\A p \in Proc : Free(p)]_vars

\* How many records of task have this begin and this end.
Periods(task, begin, end) ==
    Cardinality({r \in RecordsOf(records, task) :
                    records[r].begin = begin /\ records[r].end = end})

\* What p has copied, if its copy command ends with success.
Whole(p) ==
    Returns(p, "copy", "OK") =>
        \A b \in Time :
            /\ \A e \in Time : Periods(newId[p], b, e) = Periods(taskId[p], b, e)
            /\ Periods(newId[p], b, Null) = 0
            /\ Periods(newId[p], b, Blank)
                  = Periods(taskId[p], b, Null) + Periods(taskId[p], b, Blank)

(* When CopyTask reports success, the copy has each period of the original, *)
(* with an empty end in place of an open one, and no other.                *)
CopiesAllRecords == [][\A p \in Proc : Whole(p)]_vars

\* p is in the loop of CopyTask before the step and after it, with its SELECT
\* open.
InCopyLoop(p) ==
    /\ pc[p] \in {"copyFetch", "copyRecord"} /\ lock[p] # "none"
    /\ pc'[p] \in {"copyFetch", "copyRecord"}

\* The new task has got the id of its original, which was deleted meanwhile.
CopiesItself(p) ==
    pc[p] \in {"copyFetch", "copyRecord"} /\ newId[p] = taskId[p]

(* No step of any process adds to the records that CopyTask's loop has still *)
(* to copy, although it inserts into the table that it scans and others     *)
(* start and stop the same task: unless it copies itself, its loop ends.    *)
CopyLoopShrinks ==
    [][\A p \in Proc : InCopyLoop(p) /\ ~CopiesItself(p) =>
          RemainingRecords(p)' \subseteq RemainingRecords(p)]_vars

-----------------------------------------------------------------------------
(* Liveness. *)

(* Every command that is begun ends, because no statement waits for a lock, *)
(* or is a copy that copies itself, which only a full file can end.         *)
CommandsEnd ==
    \A p \in Proc : pc[p] # "idle" ~> pc[p] = "idle" \/ CopiesItself(p)
=============================================================================
