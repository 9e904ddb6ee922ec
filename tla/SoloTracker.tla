---------------------------- MODULE SoloTracker ----------------------------
(***************************************************************************)
(* PwtSession run by one user at a time implements TimeTracker.            *)
(*                                                                         *)
(* The user sees the database between commands only, so the refinement     *)
(* mapping reads it as the last command left it: `seen` is the two tables, *)
(* and `ended` the clock, when a process last returned to "idle".  Both    *)
(* are history variables; they constrain nothing.                          *)
(***************************************************************************)
EXTENDS PwtSession, FiniteSets

\* Null stands for TimeTracker's Idle, so it is not a running period.
ASSUME NullAssumption == Null \notin [label : Label, begin : 0..MaxTime]

VARIABLES seen, ended

soloVars == <<vars, seen, ended>>

SoloInit ==
    /\ Init
    /\ seen = [tasks |-> tasks, records |-> records]
    /\ ended = clock

CommandReturns == \E p \in Proc : pc[p] # "idle" /\ pc'[p] = "idle"

SoloNext ==
    /\ Next
    /\ \/ CommandReturns /\ seen' = [tasks |-> tasks', records |-> records']
                         /\ ended' = clock
       \/ ~CommandReturns /\ UNCHANGED <<seen, ended>>

SoloSpec == SoloInit /\ [][SoloNext]_soloVars

-----------------------------------------------------------------------------
(* What a user sees in the tables: T is pwt_tasks, R is pwt_work_records.  *)

LabelsOf(T) == {T[k].label : k \in DOMAIN T}

TaskOf(T, l) == CHOOSE k \in WithLabel(T, l) : TRUE

Titles(T) == [l \in LabelsOf(T) |-> T[TaskOf(T, l)].title]

\* How many of the ids in S are no larger than k, and the id that is the i-th.
Rank(S, k) == Cardinality({j \in S : j <= k})
Nth(S, i) == CHOOSE k \in S : Rank(S, k) = i

\* A period that has ended, or has been copied, without its task.
PeriodOf(row) == [begin |-> row.begin, end |-> row.end]

\* The rows of a task with an end, and their periods in the order of their ids.
EndedIds(R, k) == RecordsOf(R, k) \ OpenRecords(R)
PeriodsAt(R, S) == [i \in 1..Cardinality(S) |-> PeriodOf(R[Nth(S, i)])]
Logs(T, R) == [l \in LabelsOf(T) |-> PeriodsAt(R, EndedIds(R, TaskOf(T, l)))]

OpenPeriods(T, R) ==
    {[label |-> T[R[r].task].label, begin |-> R[r].begin] : r \in OpenRecords(R)}

\* No row without an end: no running period.
Running(T, R) ==
    IF OpenPeriods(T, R) = {} THEN Null ELSE CHOOSE o \in OpenPeriods(T, R) : TRUE

Tracker == INSTANCE TimeTracker WITH
    title   <- Titles(seen.tasks),
    log     <- Logs(seen.tasks, seen.records),
    running <- Running(seen.tasks, seen.records),
    command <- cmd[CHOOSE p \in Proc : TRUE],
    last    <- ended,
    reply   <- reply[CHOOSE p \in Proc : TRUE],
    Idle    <- Null

(* Every command run to its end, by itself and undisturbed, has the effect  *)
(* and the answer that TimeTracker gives that command in one atomic step,   *)
(* whatever the statements it takes: nothing is done half, nothing is lost, *)
(* and OK, "already exists", "not found", "already running" and "nothing    *)
(* running" are said of the label given, and only when they are true.       *)
ImplementsTracker == Tracker!Spec
=============================================================================
