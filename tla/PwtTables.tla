----------------------------- MODULE PwtTables -----------------------------
(***************************************************************************)
(* The two tables of the PWT database and what the SQL statements of       *)
(* CPersonalWorkTime compute from them.  A table is a function from the    *)
(* rowids in use to rows: pwt_tasks maps task_id to [label, title], and    *)
(* pwt_work_records maps record_id to [task, begin, end].                  *)
(***************************************************************************)
EXTENDS Naturals, Functions

CONSTANTS
    Null,     \* SQL NULL: the record_end of a period that is still running
    Blank,    \* the empty string CopyTask binds where the original has NULL
    MaxRowid  \* bound: the largest rowid the file has room for

ASSUME RowAssumption ==
    /\ MaxRowid \in Nat \ {0}
    /\ Null \notin Nat
    /\ Blank \notin Nat
    /\ Null # Blank

RowId == 1..MaxRowid

-----------------------------------------------------------------------------
(* INTEGER PRIMARY KEY without AUTOINCREMENT: a new row gets one more than  *)
(* the largest rowid in use, so the id of a deleted last row is used again. *)
FreshRowid(rows, id) ==
    /\ \A k \in DOMAIN rows : k < id
    /\ id = 1 \/ id - 1 \in DOMAIN rows

\* No room for another row (SQLITE_FULL).
Full(rows) == MaxRowid \in DOMAIN rows

Insert(rows, id, row) ==
    [k \in DOMAIN rows \cup {id} |-> IF k = id THEN row ELSE rows[k]]

Delete(rows, ids) == Restrict(rows, DOMAIN rows \ ids)

\* The rowid at which a scan in rowid order stops first; 0 if nothing matches.
IsFirst(ids, k) ==
    \/ ids = {} /\ k = 0
    \/ k \in ids /\ \A j \in ids : k <= j

-----------------------------------------------------------------------------
(* The WHERE clauses. *)

\* SELECT task_id FROM pwt_tasks WHERE task_label=:label
WithLabel(tasks, label) == {k \in DOMAIN tasks : tasks[k].label = label}

\* ... FROM pwt_work_records WHERE record_end IS NULL
OpenRecords(records) == {k \in DOMAIN records : records[k].end = Null}

\* Mutant: only the ended records of the task match.
RecordsOf_Ended(records, task) ==
    {k \in DOMAIN records : records[k].task = task /\ records[k].end # Null}

\* ... FROM pwt_work_records WHERE record_task_id=:task_id
RecordsOf(records, task) == {k \in DOMAIN records : records[k].task = task}

-----------------------------------------------------------------------------
(* The statements that write. *)

\* UPDATE pwt_tasks SET task_title=:title WHERE task_id=:task_id
Retitle(tasks, task, title) ==
    [k \in DOMAIN tasks |->
        IF k = task THEN [tasks[k] EXCEPT !.title = title] ELSE tasks[k]]

\* UPDATE pwt_work_records SET record_end=:record_end WHERE record_id=:record_id
CloseRecord(records, id, time) ==
    [k \in DOMAIN records |->
        IF k = id THEN [records[k] EXCEPT !.end = time] ELSE records[k]]

\* Mutant: NULL is copied as NULL.
Rebound_Null(end) == end

\* SqliteStrToUstring of the record_end column, bound again as text: a NULL
\* column comes back as the empty string, every other value as itself.
Rebound(end) == IF end = Null THEN Blank ELSE end
=============================================================================
