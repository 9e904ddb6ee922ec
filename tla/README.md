# PWT: a formal model of the Personal Work Time tracker

PWT is a command-line tracker of working time. Each run of the program opens one
SQLite file, carries out one command (`add`, `upd`, `del`, `start`, `stop`,
`status`, `copy`, `list`, `export`) and exits. This directory holds TLA+ modules
for it, TLC configurations that check them on small instances, and theorems that
TLAPS proves for every value of the constants.

References are to `src/common/pwt/PersonalWorkTime.cpp` unless another file is
named (`main.cpp` is `src/linux/pwt/main.cpp`).

## 1. Inventory

| Component | State | Operations | What makes it correct |
|---|---|---|---|
| `CPersonalWorkTime`, 29-481 | the tables `pwt_tasks` and `pwt_work_records`; a connection | `OpenDatabase`, `AddTask`, `UpdTask`, `DelTask`, `StartTask`, `StopTask`, `Status`, `CopyTask`, `GetTaskId` | at most one open period; a label names one task; every period has its task; ended periods stay as they are; periods run forward and do not overlap; the result code tells what was done |
| `ListTask`, `Export`, `ExportXML`, 108-149 and 483-559 | none of their own; the exported file | list by pattern, copy the file, write XML | a list is one state of the table and complete; an export that is reported has everything, and is a state the database was in; the database itself is not harmed |
| command line, `main.cpp` | none | dispatch, argument counts, messages, time spent | every command and result has its message; the time spent is that since the begin |
| `CConfig`, `config.cpp` | the paths of the log and of the database | `LoadConfig` | both paths set as the document says, or an exception |
| `CLog`, `log.cpp` | an output stream | opened (and the file truncated) by every run, never written | the file it truncates is not the database |
| `CTask`, `CWorkRecord` | values | get, set | - |
| SQLite, libxml2, libiconv | vendored | - | external |

How they interact: `main` builds one `CPersonalWorkTime`, which loads the
configuration, opens the log and then the database, creating the tables that are
missing; `main` calls one method and prints a message for its `PWTResult`. There
are no threads and no callbacks. Concurrency is between *processes*: nothing keeps
a user (a cron job, a second terminal, a button of a desktop panel) from running
two commands at once on one file.

What is hard in this code:

* No method opens a transaction. Each decides from one statement and writes with
  another (`AddTask` 74/87, `StartTask` 239/285, `CopyTask` 394/412/442), so what it
  has read may be stale, except where an unfinalized SELECT still holds SQLite's
  SHARED lock (`StartTask` to 271, `StopTask` to 329).
* No busy handler is installed and results are compared with `SQLITE_ERROR` only:
  `SQLITE_BUSY` and `SQLITE_FULL` count as success, or as "no such row".
* `DelTask` and `CopyTask` are several commits; a process can be killed between them.
* `task_id` is a rowid without AUTOINCREMENT: the id of a deleted task is used again.
* `CopyTask` inserts into the table that its own SELECT is scanning.
* `SqliteStrToUstring` turns NULL into the empty string.
* `Export` as SQLite copies the file itself, without SQLite's lock; `ExportXML` reads
  the tables in two SELECTs without a transaction; neither looks at the stream.
* `ListTask` and `ExportXML` use the legacy `sqlite3_prepare`, which does not recover
  from a schema that another process has changed.
* `ListTask` binds the text of a pattern that is destroyed before the statement runs.
* Times are stored as local time without its offset.
* `CLog` truncates a file that the configuration names, and `Export` one that the user
  names; only the latter is compared, by name, with the database.

`PROJECT.json` lists these hazards line by line with the properties that cover them.

## 2. Modules

| Module | What it is |
|---|---|
| `PwtTables` | The two tables as functions from rowids to rows, the WHERE clauses and the writing statements. |
| `PwtSession` | The program run by several processes on one file: one action per `sqlite3_step`, SQLite's lock, crashes, the clock. |
| `PwtProperties` | Its type invariant, safety, action and liveness properties. |
| `PwtReports` | Extends `PwtSession` by `list` and `export`, row by row and block by block, with their properties. |
| `PwtCli` | Extends `PwtReports` by `main`: usage, exceptions, and the line printed for each result. |
| `TimeTracker` | What the user is promised: tasks by label, at most one running, logs of periods, every command atomic. |
| `SoloTracker` | `PwtSession` under one user implements `TimeTracker`: the refinement mapping. |
| `PwtConfig` | `LoadConfig`: the loop over the children of the document. |
| `PwtFiles` | Extends `PwtConfig` by what a run does to files: the log, the database, the destination of an export, and names that stand for one file. |
| `PwtList` | Which titles `ListTask` finds for a pattern: LIKE, and the memory of the pattern. |
| `PwtTime` | Local time as it is stored, read back and shown. |
| `MC...` | Instances for TLC: symmetry, names, alphabets, the bound on logs. |
| `PwtSession_proofs` | Proofs for any number of processes and crashes. |
| `OneUser_proofs` | Proofs for one process, with crashes, and for one that is not killed. |
| `SoloTracker_proofs` | Proof that one process that is not killed implements the abstract tracker. |
| `PwtCli_proofs` | Proofs about `list`, `export` and the messages. |
| `TimeTracker_proofs` | Proofs about the abstract tracker. |
| `PwtList_proofs` | Proof that a pattern finds what it should, for texts of any length. |
| `PwtTime_proofs` | Proofs about the times, for any zone. |
| `PwtFiles_proofs` | Proofs about the configuration and the files, for any names and documents. |

The modules compose as the program does: `PwtTables` < `PwtSession` < `PwtReports` <
`PwtCli` is one tower, in which each module adds the actions and the state of its
part, and `PwtConfig` < `PwtFiles` another, which sees the database only as a file.

### PwtSession and the code

*The file* is `tasks`, `records` and `schema` (which tables exist). A row of `tasks`
has its label and title; a row of `records` its task, begin and end, where the end
is an instant, `Null` (still open) or `Blank` (the empty string that `CopyTask`
stores for an open original).

*A process* has a location `pc`, the command `cmd`, the locals `taskId`, `recordId`,
`newId` and `now` of the running method, the `lock` it holds, and `known`, the tables
its connection has in its schema cache; a write that is rolled back empties that cache
(`CreateDone`; elsewhere the process then ends or has no use for it). `reply` is the result that `main` prints; for
`status` it also has the label, title and begin that are shown.

| Method | Locations, in order |
|---|---|
| `OpenDatabase` 29-71 | `createTasks`, `createRecords` |
| `GetTaskId` 464-481 | `lookup`; `lookupNew` for `CopyTask`'s first call |
| `AddTask` 73-93 | `lookup`, `addInsert` |
| `UpdTask` 151-172 | `lookup`, `updUpdate` |
| `DelTask` 174-211 | `lookup`, `delTask`, `delRecords` |
| `StartTask` 226-292 | `lookup`, `startSelect`; `startEnd` and `startFinish` (the SELECT is finalized) if a row was found; `startTime`, `startInsert` |
| `StopTask` 294-332 | `stopSelect`, `stopEnd` |
| `Status` 334-391 | `statusSelect` (both SELECTs, under one SHARED lock) |
| `CopyTask` 393-462 | `lookupNew`, `lookup`, `copyInsert`, then `copyFetch` and `copyRecord` in turn |

*The lock* follows SQLite's rollback-journal protocol as far as the program can
notice it. A SELECT takes SHARED at its first step (`OpensSelect`) and keeps it until
it is finalized. A write takes RESERVED (`Reserve`), then PENDING (`Pend`), and commits
(`Commits`) if it is alone; otherwise it is `SQLITE_BUSY` and changes nothing
(`WriteBusy`). While a process is PENDING no other starts to read (`Blocked`,
`SelectBusy`). `PrepareFails` is the one way a prepare fails that the
program meets: the table is not there, or the schema cannot be read. `Crash` kills a
process between any two steps; SQLite then rolls back what was not committed.

*Rowids* are as in SQLite: one more than the largest in use. `MaxRowid` is the room in
the file; with the last rowid in use an INSERT is `SQLITE_FULL`, which the code does
not notice either.

*Time* is `clock`, which `Tick` advances at any moment. It does not go back.

### TimeTracker and SoloTracker

`TimeTracker` has neither ids nor tables nor statements: `title` and `log` are
functions on the labels that exist, `running` is `Idle` or a label with its begin, and
a command is given (`Give`: it is then in `command`) and carried out and answered in one
step. So a refinement cannot let another command, or another label, explain what the
program has done and said. `StartTask` and `StopTask` read the clock while they run, so
the instants they write lie between the end of the previous command (`last`) and the
present. `SoloTracker` maps the database *between* commands onto it: two history
variables, `seen` and `ended`, keep the tables and the clock as they were when the
last command returned; `command` is the `cmd` of the process. `Titles` is the title of the row with a label; `Logs` the rows of
its task that have an end, in the order of their ids (`Nth` is the id that is the i-th);
`Running` the open row, or `Null`, which stands for `Idle` and so is not a period
(`NullAssumption`).

### PwtReports and PwtCli

`rows` is what a process has read of each table so far, `dst` the file it exports to and
whether its stream has failed.
A loop over a SELECT is `ScanOpen` (the first `sqlite3_step`, which takes SHARED),
`ScanRow` for each row after the cursor `recordId`, and the action that ends the
method (`ListEnd`, `XmlTasksEnd`, `XmlEnd`). It also ends if the statement could not
be prepared or its first step fails (`ScanFails`): the code tells these apart neither
from each other nor from an empty table. `StaleSchema` is the failure of the legacy
`sqlite3_prepare`: the connection has read the schema, and another process has
created a table since. For `export`, `ExportOpen` truncates the destination; `CopyTasks` and
`CopyRecords` are the blocks of `dst << src.rdbuf( )`, in the order in which the tables
are in the file, without a lock; `Put` may fail (`DiskFull`), after which every later write
fails too, which nothing notices. `Found` is which rows the loop of `list` may be given:
all for the pattern `*`, and any for another pattern, since each `sqlite3_step` reads a
pattern that has been destroyed; `PwtList` says what the pattern selects if its memory
still has it.

`PwtCli` adds `screen`, the last line of each process. `PrintResults` is the `switch`
of each command: `Named` has the results with a case, everything else is an
"unknown result". `ShowUsage` is every way to get the usage, `OpenFails` the exceptions
of the constructor. Wording and layout are left out.

### PwtConfig and PwtFiles

A document is its root and a sequence of children: `log`, `database`, each with a text
or without, and others. `NextChild` is one turn of the loop. `PwtFiles` runs it at the
start of every run (`Run`, `ReadConfig`), then opens the log it names (`OpenLog`
truncates), the database (`OpenDatabase` makes tables in a new or an empty file and
ignores that a file of another program is no database), and carries out `add` or an
`export` to any name. `FileOf` says which file a name stands for. Each open may fail,
and the run may be killed between any two of these.

### PwtList and PwtTime

In `PwtList` texts are sequences of characters and `Like` is SQLite's operator, with
letters folded in ASCII: the text can be cut so that each character of the pattern gets
one character of it, and each `%` any part. `bound` is what SQLite reads as the pattern: the pattern
between two `%`, or `Freed` memory, whose content is not known, so that any answer is
possible: `QueryFindsParts` is about the pattern that is built, and nothing can be said of what
is shown for it. In `PwtTime`, `Localtime` and `Mktime` are the C library's functions with an
offset for winter and one for summer; months and years are abstracted to a number of
days. `GetTimeSpent` reads a begin back with the daylight-saving flag of now, as
`main.cpp:245-262` does.

## 3. Runs

| Run | Instance | Checks | Shows |
|---|---|---|---|
| `solo` | 1 process, 2 labels, 2 titles, all commands on the database, 5 of them | `TypeOK`, `RecordsHaveTasks`, `NoDoubleCounting`, `CopyReadsOriginalsOnly`, `FreeMeansNothingOpen`, `CopiesAllRecords`, `ImplementsTracker` | The statements of each method fit together when commands do not overlap, and implement the command of the abstract tracker that was given. |
| `solo_crash` | 1 process, killed anywhere, 6 commands, `list` and every `export` too, full disk | `OneOpenRecord`, `UniqueLabels`, `OkMeansDone`, `ListIsComplete`, `GoodStreamMeansExported` | These survive a kill between any two statements. |
| `duo` | 2 processes, killed anywhere, 4 commands, not `status` | `PeriodsForward`, `ClosedStaysClosed`, `CopyLoopShrinks` | What holds although commands interleave; among it, why the loop of `copy` ends: nothing another process does while it runs gives it more to copy. |
| `duo_ends` | 2 processes, 3 commands, not `upd`, fairness | `CommandsEnd` | No deadlock on the lock, and no endless loop but that of a copy that has got the id of its original. |
| `cli` | 2 processes, every command and type of export, 3 commands, full disk | `ScansAreSnapshots`, `UnknownMeansFailure` | Each SELECT of `list` and `export xml` reads one state; `main` has a message for every result that any interleaving gives. |
| `tracker` | 2 labels, 2 titles, 2 periods per log | `TypeOK`, `Chronological` | The abstract tracker itself is right. |
| `files` | 3 names of 2 files, documents of 3 children, any content | `PathsAreRead`, `TasksStay` | A configuration that names both paths is read as it says, and the user's tasks are lost only if the log or the destination of an export is the database by another name. |
| `list_pattern` | titles of 3 and patterns of 2 of 6 characters | `QueryFindsParts` | The pattern that is built selects the titles that contain what the user typed, case aside. |
| `time` | 7 instants at the edges of seconds to days, and both changes of the clock | `SpentIsElapsed`, `StoredIsElapsed` | Stored and shown times are off by the change of the offset, and by nothing else. |

Three runs are expected to find a violation. Each states what a comment, a message
of the program or its description says, and shows the steps by which the code
departs from it. `PROJECT.json` quotes the lines under "findings".

| Run | Property | What happens |
|---|---|---|
| `two_open` | `OneOpenRecord` | Two `start` of one task both see nothing open, both insert. |
| `ok_but_refused` | `OkMeansDone` | An `add` that is `SQLITE_BUSY` prints that the task was added. |
| `torn_export` | `ExportIsDatabase` | A task is added and started between two blocks of `export sqlite`. |

### Where the properties for one user end

`OneOpenRecord`, `UniqueLabels`, `RecordsHaveTasks`, `CopyReadsOriginalsOnly`, `OkMeansDone`,
`FreeMeansNothingOpen`, `CopiesAllRecords` and `ListIsComplete` hold for one user and are
checked and proved there. None holds beside another process. Two of the runs above show it
for `OneOpenRecord` and `OkMeansDone`; for the others the configurations show it with
constants changed:

| Property | Configuration | How it fails beside another process |
|---|---|---|
| `UniqueLabels` | `SoloCrash.cfg`, `Proc = {p1, p2}` | Two `add` of one label both find it free, both insert. |
| `ListIsComplete` | `SoloCrash.cfg`, `Proc = {p1, p2}` | `list *` has read the schema, another process creates a table and adds a task, and `list` shows none; or its SELECT is `SQLITE_BUSY`. |
| `RecordsHaveTasks` | `DuoEnds.cfg`, `MaxCommands = 4` | A `start` has looked up an id, and a `del` of the task runs before the record is inserted; or the second DELETE of a `del` is `SQLITE_BUSY`. |
| `CopyReadsOriginalsOnly` | `DuoEnds.cfg`, `MaxCommands = 4` | The original is deleted between `copy`'s lookup and its INSERT, which gives the new task the same id. Once that task is started, the loop copies the copy. |
| `FreeMeansNothingOpen` | `DuoEnds.cfg`, `MaxCommands = 4` | The SELECT of a `status` is `SQLITE_BUSY`, and it prints that nothing is running. |
| `CopiesAllRecords` | `DuoEnds.cfg`, `MaxCommands = 4` | The new task is started before its copy is complete; or a SELECT is `SQLITE_BUSY`, and `copy` says OK without a period. |

A `del` that has looked up an id while another `del` deletes the task deletes the new task
that has got the id. `NoDoubleCounting` and `ImplementsTracker` are about commands that do
not overlap. A kill does not disturb `OneOpenRecord`, `UniqueLabels`,
`OkMeansDone`, `ListIsComplete` and `GoodStreamMeansExported` (`solo_crash`), but a `del` killed
between its two statements does disturb `RecordsHaveTasks` and `FreeMeansNothingOpen`: with
`Crashes = TRUE` in `Solo.cfg` both fail. No document says what a killed command must
leave behind, so no run states it.

Some departures are in the model, and a property names them as the exceptions without which
it does not hold. `export excel` truncates the destination, writes nothing and says OK
(`project.txt:56` promises a file), and a full disk leaves a part of the file and says OK
(499): `GoodStreamMeansExported` excepts both. With `Exports = {"xml"}` in `TornExport.cfg`
`ExportIsDatabase` fails for XML too. The pattern of `list` is no regular expression
(`project.txt:69`), and its memory is given to SQLite after it has been freed (124, 125):
`QueryFindsParts` is about plain patterns and the query. A configuration that leaves out a
path is refused, although the paths have defaults (`project.txt:84-85`): `PathsAreRead` is
about documents that name both.

Departures from the documents that need no model: a label must be Latin
and a title not empty (`main.cpp:76`), and nothing checks it; the unknown results of
`status`, `copy` and `export` are said to be of other methods (`main.cpp:311`, 339, 375);
times ignore that the clock is set back and forth (`SpentIsElapsed` and
`StoredIsElapsed` state by how much they are off).

### Bounds, and why they are enough

* Two labels: the ones a `copy` needs, and two tasks to switch between. Labels and
  titles are only compared for equality, so a symmetry set is sound for the safety
  runs; `duo_ends` has none, since symmetry is not sound for liveness.
* Two processes: each hazard found needs two, and every lock conflict is between two.
* 3 to 6 commands in the passing runs of `PwtSession`: deleting a task and reusing its id takes four (add, start, del,
  add), and starting the heir and copying it two more. In `solo` and `solo_crash`,
  `MaxRowid` is the number of commands, so that the file is full only where copies
  fill it; in the two-process runs it is 3, so that a full file is reached too.
  A run that finds a violation has as many commands as its counterexample needs.
* `MaxTime` is 1 or 2 where time matters (begin, end and "later" differ), 0 where not.
* Four commands in `duo`: a task, a period of it, a copy, and one beside it.
* Three commands in `cli`: one to have a row, one that scans, one that writes meanwhile;
  while both tables are being created, two suffice.
* Three children in `files`: the loop ends at the one that completes the paths, so a
  third can repeat an element before or after that. The three names are two of one
  file and one of another, all that aliasing needs; runs follow each other without bound.
* In `list_pattern`, letters that differ in case only, one that differs, `%`, `_` and `*`
  are all the kinds that LIKE or `ListTask` tells apart, and titles longer than the
  patterns leave room before and after a match.
* The instants of `time` are just before and at the turn of a minute, an hour and a day
  and at both changes of the clock; elapsed times that a change makes negative occur.
* `ShortLogs` in `tracker` stops the exploration at logs of two periods.

Deadlock is checked in every run. `Quiet` stands for the users giving no further
command, and is enabled only when every process is idle; `Listed` stands for the end of
the program in `list_pattern`.

### Fairness

`FairSpec` has weak fairness of each process's own `Step`, that is, the operating
system schedules a process that can run. It says nothing of users giving commands,
of crashes or of the clock. Weak fairness is enough because no statement waits for a
lock: a refused one returns at once, so a process with a command always has a step.
`CommandsEnd` excepts a copy that has got the rowid of its own deleted original
(`CopiesItself`): it feeds itself (section 3) and ends only when the file is full and
its INSERTs are refused, that is, in the model, because of the bound `MaxRowid`. The bound
could hide other endless loops in the same way; that there are none is what
`CopyLoopShrinks` says without it, since the loop of `copy` is the only one
over a table that grows.

## 4. Proofs

TLAPS checks every leaf; the assumptions are the named ones on the constants
(`RowAssumption`, `SessionAssumption`, `NullAssumption`, `TrackerAssumption`,
`TimeAssumption`, `ConfigAssumption`, `FilesAssumption`, `ListAssumption`), which TLC
evaluates too.

**`PwtSession_proofs`** (any processes, labels, commands, crashes).
`Spec => []TypeOK`, `Spec => []PeriodsForward`, `Spec => ClosedStaysClosed` and
`Spec => CopyLoopShrinks`. None of these is inductive by itself. `StopTask` ends the record whose id it read one or more
steps earlier; that the record is still open, and began no later than `now`, follows
only from the lock. The invariant `IInv` therefore relates the process, its lock and
the table (`HoldsRow`): at `startEnd` and `stopEnd` the process holds a lock and its
`recordId` is an open record with `begin <= now`. It is kept by others' steps because
a write commits only when `Alone`, by the process's own because it does not write
before. `HasIds` and `Dispatched` say that a method has the ids and the command its
statements need. The proof has one lemma per action (`...Keeps`), resting on
lemmas for the ways a step moves its process (`Leave`, `GoOn`, `FinalizeStep`) and
for what it may do to the file that others rely on (`TasksChange`, `RecordsChange`).
`CopyLoopShrinks` has two parts: a step of another process changes neither the cursor of
the loop nor, as long as the loop's SELECT is open, the records (`OthersLeaveCursor`); a
turn of the loop itself moves its cursor on or inserts a record of another task
(`OwnLoopShrinks`).

**`OneUser_proofs`** (one process, crashes allowed; the assumption is `OneUser`). No
statement of a single process is ever `SQLITE_BUSY` (`NeverBusy`), and what it has read
stays true until it writes. Two invariants say what that is at each location:

* `OneInv`, for `OneOpenRecord`: a process that has found no open record
  (`SawNothingOpen`) is right until it inserts one.
* `UserInv`, for `UniqueLabels` and `CopyReadsOriginalsOnly`:
  `HasTables` (after `OpenDatabase` both tables exist, so that no prepare fails and "no
  rows" means no rows), `Runs` (the statement is one of the command), and `Sees` (the
  label looked up is still there under that id, or still free; the task a copy has
  made is another than its original; the record about to be copied is the original's).
  `CopyReadsOriginalsOnly` depends on the last two: the loop meets the rows that it
  inserts, and passes them because they are of the new task.

`OkMeansDone` is proved of behaviours in which the tables have rowids left
(`[]HasRoom`): with a full table an INSERT is `SQLITE_FULL` and the command still says
OK. In the run `solo_crash` the tables are large enough for what it needs of this. The
proof goes from the result back to the statement that gives it: `WhoReturns` says which
statements return, `LastOf` which is the last of each command, `WrittenIsDone` that
it has committed.

The runs `two_open` and `ok_but_refused` show that `OneUser` is needed, and section 3 how the
others fail without it.

**The second part of `OneUser_proofs`** (one process that is not killed: `OneUser` and
`~Crashes`, together `Undisturbed`; section 3 says what a kill does). `AllInv` adds
`RecordInv` to the invariants above: `RecordsHaveTasks` itself; `InOrder` (the periods of a task are in the order of their
ids and only the last may be open), which gives `NoDoubleCounting`; `EndedBefore` (what
has ended had ended when `StartTask` read the time); `SawFree`; and `Copying`. The last is
the invariant of `CopyTask`'s loop: a map `g` gives for each copy made so far the record
that it is a copy of, it is increasing, and every record of the original that the cursor
has passed has its copy. At the end `g` is a bijection, so that for every begin and
end there are as many copies as originals (`PairedOff`): `CopiesAllRecords`, again under
`[]HasRoom`. `FreeMeansNothingOpen` follows from `RecordsHaveTasks`, since the second SELECT
of `Status` then finds the task of the record that the first has found.

**`SoloTracker_proofs`** (the same process, of which there is one, and tables with room):
`SoloSpec /\ []HasRoom => ImplementsTracker`, the refinement that the run `solo` checks.
The initial states map to initial states (`InitImplements`). A step that begins a command
is `Give` of that command. A step on the way changes neither `seen` nor `ended` and is a
stutter, or `Tick`, which is that of `TimeTracker`. The step that ends one must
be the whole command, the one given and no other, though most of it was done before, while the clock ran. What was
done is in the invariant `SeenInv`, which relates the tables to what the user saw of them:

* `Untouched`: before its first write (`BeforeWrites`) a command has changed nothing.
* `HalfDeleted`, `HalfStarted`, `HalfCopied`: the task is gone and its records are not; the
  running period is ended at `now` and the new one not yet begun; the new task is
  inserted, and with it as many records as the loop has copied.
* `HasRead`: what the command has looked up is so in the tables the user saw.

There is one lemma `...GoesOn` for each location at which a command can go on, and one
`...Answers` for each that can end it. The second kind shows that the tables are then
those of `TimeTracker`'s command, and the result its reply. They need `AllInv`
(a label names one row, at most one row is open, ids grow with time) and the lemmas on
what the user sees when a row is inserted, changed or deleted. The ones about logs count:
`Nth` numbers a finite set of ids from 1 up; a new largest id is numbered last, so
that a period that ends is appended to its log (`PeriodsAppend`); and an increasing map
between two sets of ids keeps the numbers (`PeriodsImage`), so that the map `g` of
`CopyTask`'s loop gives the copy the log of the original. `[]HasRoom` is needed here for
the same reason as for `OkMeansDone`; `Proc # {}` because the reply is that of a process.

**`PwtList_proofs`** (any letters, titles and patterns of any length).
`Spec => []QueryFindsParts`. `LikeIsPart` says that
LIKE with a pattern between two `%`, and neither `%` nor `_` in it, holds exactly where
the pattern is a part of the text. Its letters take one character each, so that the
cuts after them are in a row (`CutsInARow`), by induction on the letters: the first one
out of row would be next to one in row. That there is a first one (`Smallest`) comes
from the well-founded order of the finite sets `0..n`.

**`PwtCli_proofs`**, of `CliSpec` (any processes, commands, crashes, exports).
`[]ScansAreSnapshots` rests on `ReadInv`: inside a loop (`Scanning`) a process holds SHARED, so
that no other commits (`OthersRead`), and `rows` has exactly the table's rows up to the
cursor (`AsRead`, kept by `RowExtends` at each row). What a step may do beside that is
said once, in `Moved(p)`: the other processes stay where they are, the tables change
only if `p` is `Alone`, and a method that returns gives a result that main has a case for,
or a failure (`Answered`). `MethodsAnswer` draws `UnknownMeansFailure` from it. `Belongs`
ties each location to the commands that it can be a part of.

Of `ReportsSpec` and one user, who may be killed, the same module proves `ListIsComplete` and
`GoodStreamMeansExported`, for any types of export and a disk that may be full. `ReadyInv` says
that the tables exist and that no connection knows an older
schema, so that a loop ends only because there are no more rows (`ScansSucceed`,
`ScanWhole`); `ExportInv` that the tasks are in the file, unless its stream has failed, or
all read, when the records follow. That `export` says OK of a stream that has failed and of
`excel` too is what the property excepts: the look at the stream and the missing type are all
that keeps OK from meaning exported.

**`TimeTracker_proofs`**. `Spec => []TypeOK` and `Spec => []Chronological`. The
strengthening says that the running period began no later than `last`, and that all
ended periods of every log had ended by then.

**`PwtTime_proofs`** (any offsets, any instants). `Spec => []SpentIsElapsed` and
`Spec => []StoredIsElapsed`. The strengthening `OpenIsBegan` says that the stored begin
is the local time of the instant at which the work began. The rest is arithmetic:
the fields of a local time determine its seconds (`FieldsOfSeconds`), reading it back
moves an instant by its offset (`LocaltimeSeconds`), and the four parts that `status`
shows, each truncated and reduced by itself, add up also where the difference is
negative (`PartsAddUp`). The corollary `SpentInOneOffset` says that in a zone without
summer time the time shown is the time that has passed.

**`PwtFiles_proofs`** (any names, files, contents, documents of any length).
`Spec => TasksStay` rests on the invariant that an export that has truncated its
destination was not given the name of the database (`ExportsElsewhere`): the
comparison is made before, and the configuration is not read again in between.
`Spec => []PathsAreRead` needs a loop invariant, `ConfigRead`: `rest` is what remains of
the document, each path has been found exactly if a child before `rest` gives it and is
then the last one given, and both were not yet known a child earlier.

Only model-checked is `CommandsEnd`, since liveness under fairness is outside what the
prover handles. All other properties of the runs that pass have a theorem.

A property that a run finds violated has a theorem only under an assumption that
excludes the violation, if it has one: `ExportIsDatabase` has none. The theorems of
`OneUser_proofs` are of `Spec`; that the reports, which change no table, keep those properties
is what the run `solo_crash` shows for the ones it checks.

## 5. Not modelled, and the plan

Every operation of the program has its action. Not modelled:

* the Windows program (`src/windows/pwt/main.cpp`), whose `main` returns 0;
* the vendored libxml2, libiconv and SQLite, which are all but some 1300 of the
  repository's half a million lines: they are the environment, and of them there is
  what the program notices (locks, commits, rowids and the schema cache of SQLite, the
  parsed document of libxml2);
* errors of SQLite other than those named in section 2 (I/O errors, memory), and its
  recovery from a hot journal, which is taken as "what was not committed is rolled back";
* an `export` over `pwt.config` itself;
* text that is not valid UTF-8, and SQLite's case folding beyond ASCII;
* the wording and the layout of messages, with them `CExceptionDatabaseError::what`
  (`PersonalWorkTime.h:71`), which returns the text of a string that is gone.

Three things that the description promises are not in the code, so there is nothing to
model: a configuration path as a call parameter (`project.txt:82`; `main` never passes
one), the total time of a task in `status` (`project.txt:65`), and the check of labels
(`project.txt:68`).

In `PwtSession` the clock does not go back. In the code it can (local time, 213-224), and
then `PeriodsForward` and `NoDoubleCounting` do not hold; `PwtTime` is the module that
says by how much.

The plan is carried out as far as the prover goes. What could be added is the
refinement with kills: it would have to say in which states a command may stop half way
(section 3), which the abstract tracker has no steps for.
