----------------------------- MODULE PwtReports -----------------------------
(***************************************************************************)
(* The commands list and export, beside the commands of PwtSession.        *)
(* ListTask and ExportXML step through the rows of a SELECT, whose SHARED  *)
(* lock lasts from its first row to its last; the two SELECTs of ExportXML *)
(* are not one transaction.  Export as SQLite reads the file itself, block *)
(* after block, without any lock.                                          *)
(***************************************************************************)
EXTENDS PwtSession

CONSTANTS
    Exports,   \* the types of export users ask for
    DiskFull   \* may the destination run out of room?

ASSUME ReportsAssumption ==
    /\ Exports \subseteq {"sqlite", "xml", "excel"}
    /\ DiskFull \in BOOLEAN

VARIABLES
    rows,   \* what a process has read so far of each table
    dst     \* what a process has exported, and whether a write has failed

reportVars == <<vars, rows, dst>>

Nothing == [tasks |-> <<>>, records |-> <<>>]

NewFile == [tasks |-> <<>>, records |-> <<>>, failed |-> FALSE]

\* The pattern of a list is "*", which selects all titles, or another.
ReportCommand == [op : {"list"}, all : BOOLEAN] \cup [op : {"export"}, type : Exports]

ReportsInit ==
    /\ Init
    /\ rows = [p \in Proc |-> Nothing]
    /\ dst = [p \in Proc |-> NewFile]

-----------------------------------------------------------------------------
(* A loop over the rows of a SELECT. *)

\* sqlite3_prepare, the legacy interface, does not prepare a statement again
\* when another process has changed the schema: sqlite3_step fails.
StaleSchema(p) == known[p] # {} /\ known[p] # schema

\* Mutant: no SELECT stays open from row to row.
ScanOpen_RowByRow(p, at, to) ==
    /\ pc[p] = at
    /\ Prepared(p, TableAt(at))
    /\ ~Blocked(p) /\ ~StaleSchema(p)
    /\ Load(p)
    /\ Jump(p, to)
    /\ UNCHANGED <<file, lock, local, rows, dst>>

ScanOpen(p, at, to) ==
    /\ OpensSelect(p, at)
    /\ ~StaleSchema(p)
    /\ Jump(p, to)
    /\ UNCHANGED <<file, local, rows, dst>>

\* The statement cannot be prepared, or its first step fails.
ScanFails(p, at) ==
    /\ pc[p] = at
    /\ ~Prepared(p, TableAt(at)) \/ Blocked(p) \/ StaleSchema(p)

\* Mutant: the loop's first sqlite3_step takes the second row.
NextRow_SkipsFirst(p, ids, k) ==
    IsFirst({i \in ids : i > recordId[p] /\ \E j \in ids : j < i}, k)

\* The next of the rows ids that the WHERE clause selects is the first after the
\* cursor recordId[p]; 0 if the scan has ended.
NextRow(p, ids, k) == IsFirst({i \in ids : i > recordId[p]}, k)

\* A step of the loop: the rows it selects are one of the sets given.
ScanRow(p, at, t, table, selections) ==
    /\ pc[p] = at
    /\ \E ids \in selections : \E k \in ids :
          /\ NextRow(p, ids, k)
          /\ rows' = [rows EXCEPT ![p][t] = Insert(@, k, table[k])]
          /\ recordId' = [recordId EXCEPT ![p] = k]
    /\ UNCHANGED <<file, lock, known, taskId, newId, now, dst>>
    /\ Jump(p, at)

ScanEnds(p, at, selections) ==
    pc[p] = at /\ \E ids \in selections : NextRow(p, ids, 0)

-----------------------------------------------------------------------------
(* ListTask *)

\* The rows that one sqlite3_step may select: any, if it reads a pattern, for
\* the text that it reads has been destroyed (see PwtList).
Found(p) == IF cmd[p].all THEN {DOMAIN tasks} ELSE SUBSET DOMAIN tasks

ListEnd(p) ==
    /\ ScanEnds(p, "listRows", Found(p)) \/ ScanFails(p, "list")
    /\ ReturnShowing(p, "OK", {rows[p].tasks[k] : k \in DOMAIN rows[p].tasks})
    /\ rows' = [rows EXCEPT ![p] = Nothing]
    /\ UNCHANGED <<file, dst>>

ListTask(p) ==
    \/ ScanOpen(p, "list", "listRows")
    \/ ScanRow(p, "listRows", "tasks", tasks, Found(p))
    \/ ListEnd(p)

-----------------------------------------------------------------------------
(* Export *)

\* The destination or, for sqlite, the source may not open.
ExportOpen(p) ==
    /\ pc[p] = "export"
    /\ \/ Return(p, "FILESYSTEM_ERROR") /\ UNCHANGED dst
       \/ /\ dst' = [dst EXCEPT ![p] = NewFile]   \* the file is truncated
          /\ \/ cmd[p].type = "excel" /\ Return(p, "OK")
             \/ /\ cmd[p].type = "sqlite"
                /\ Proceed(p, "copyTasks") \/ Return(p, "FILESYSTEM_ERROR")
             \/ cmd[p].type = "xml" /\ Proceed(p, "xmlTasks")
    /\ UNCHANGED <<file, rows>>

\* A write fails if there is no room, and then every later one fails.  Nothing
\* looks at the state of the stream.
Put(p, content) ==
    \/ ~dst[p].failed /\ dst' = [dst EXCEPT ![p].tasks = content.tasks,
                                            ![p].records = content.records]
    \/ DiskFull /\ dst' = [dst EXCEPT ![p].failed = TRUE]

\* dst << src.rdbuf( ): the blocks of the file in their order.
CopyTasks(p) ==
    /\ pc[p] = "copyTasks"
    /\ Put(p, [dst[p] EXCEPT !.tasks = tasks])
    /\ Proceed(p, "copyRecords")
    /\ UNCHANGED <<file, rows>>

CopyRecords(p) ==
    /\ pc[p] = "copyRecords"
    /\ Put(p, [dst[p] EXCEPT !.records = records])
    /\ Return(p, "OK")
    /\ UNCHANGED <<file, rows>>

XmlTasksEnd(p) ==
    /\ \/ ScanEnds(p, "xmlTaskRows", {DOMAIN tasks})
       \/ ScanFails(p, "xmlTasks")
    /\ Hold(p, "none")
    /\ Jump(p, "xmlRecords")
    /\ recordId' = [recordId EXCEPT ![p] = 0]
    /\ known' = [known EXCEPT ![p] = IF StaleSchema(p) THEN {} ELSE @]
    /\ UNCHANGED <<file, taskId, newId, now, rows, dst>>

\* In XML an open end is an empty element.
EndAsText(read) == [r \in DOMAIN read |-> [read[r] EXCEPT !.end = Rebound(@)]]

XmlEnd(p) ==
    /\ \/ ScanEnds(p, "xmlRecordRows", {DOMAIN records})
       \/ ScanFails(p, "xmlRecords")
    /\ Put(p, [rows[p] EXCEPT !.records = EndAsText(@)])
    /\ Return(p, "OK")
    /\ rows' = [rows EXCEPT ![p] = Nothing]
    /\ UNCHANGED file

ExportXML(p) ==
    \/ ScanOpen(p, "xmlTasks", "xmlTaskRows")
    \/ ScanRow(p, "xmlTaskRows", "tasks", tasks, {DOMAIN tasks})
    \/ XmlTasksEnd(p)
    \/ ScanOpen(p, "xmlRecords", "xmlRecordRows")
    \/ ScanRow(p, "xmlRecordRows", "records", records, {DOMAIN records})
    \/ XmlEnd(p)

Export(p) == ExportOpen(p) \/ CopyTasks(p) \/ CopyRecords(p) \/ ExportXML(p)

-----------------------------------------------------------------------------
\* The memory of a process ends with it.
ReportsNext ==
    \/ /\ Next
       /\ rows' = [p \in Proc |-> IF pc'[p] = "idle" THEN Nothing ELSE rows[p]]
       /\ UNCHANGED dst
    \/ \E p \in Proc, c \in ReportCommand : Begin(p, c) /\ UNCHANGED <<rows, dst>>
    \/ \E p \in Proc : ListTask(p) \/ Export(p)

ReportsSpec == ReportsInit /\ [][ReportsNext]_reportVars

-----------------------------------------------------------------------------
(* Properties. *)

\* What p has read of a table is what is there now.
ReadFrom(p, read, table) ==
    \A k \in DOMAIN read : k \in DOMAIN table /\ read[k] = table[k]

\* ... and there is nothing else up to the cursor of p.
Agrees(p, read, table) ==
    ReadFrom(p, read, table) /\ \A k \in 1..recordId[p] : k \in DOMAIN table => k \in DOMAIN read

(* What a loop over a SELECT has read so far is what the table holds now:   *)
(* no other process changes, inserts or deletes a row behind its cursor.    *)
(* (A pattern's loop may pass any row, but reads none that is not there.)   *)
ScansAreSnapshots ==
    \A p \in Proc :
        /\ pc[p] = "listRows" =>
              /\ ReadFrom(p, rows[p].tasks, tasks)
              /\ cmd[p].all => Agrees(p, rows[p].tasks, tasks)
        /\ pc[p] = "xmlTaskRows" => Agrees(p, rows[p].tasks, tasks)
        /\ pc[p] = "xmlRecordRows" => Agrees(p, rows[p].records, records)

Ends(p, op) == cmd[p].op = op /\ pc'[p] = "idle" /\ reply'[p].code = "OK"

(* list with the pattern "*" shows every task, and with any pattern nothing *)
(* but tasks.                                                               *)
ListIsComplete ==
    [][\A p \in Proc : Ends(p, "list") =>
          /\ reply'[p].shown \subseteq {tasks[k] : k \in DOMAIN tasks}
          /\ cmd[p].all => {tasks[k] : k \in DOMAIN tasks} \subseteq reply'[p].shown]_reportVars

\* Each task, and each begin of a period, is in what p has exported.
Exported(p) ==
    /\ dst'[p].tasks = tasks
    /\ DOMAIN dst'[p].records = DOMAIN records
    /\ \A r \in DOMAIN records :
          /\ dst'[p].records[r].task = records[r].task
          /\ dst'[p].records[r].begin = records[r].begin

(* An export as SQLite or XML is whole, whatever process was killed before  *)
(* and however often tasks were deleted and copied, if it reports success   *)
(* and a look at the stream, which Export does not take, would find it good. *)
GoodStreamMeansExported ==
    [][\A p \in Proc :
          Ends(p, "export") /\ cmd[p].type # "excel" /\ ~dst'[p].failed => Exported(p)]_reportVars

(* A finished export is a database: its periods are of tasks that it has.   *)
ExportIsDatabase ==
    [][\A p \in Proc : Ends(p, "export") =>
          \A r \in DOMAIN dst'[p].records :
              dst'[p].records[r].task \in DOMAIN dst'[p].tasks]_reportVars
=============================================================================
