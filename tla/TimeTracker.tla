---------------------------- MODULE TimeTracker ----------------------------
(***************************************************************************)
(* What pwt promises its user: a tracker of tasks known by their labels,   *)
(* of which at most one is being worked on, with the log of periods worked *)
(* on each.  A command is given, and then carried out and answered in one  *)
(* atomic step.  There are no task ids, no tables and no processes here;   *)
(* SoloTracker shows that PwtSession, run by one user at a time,           *)
(* implements this.                                                        *)
(***************************************************************************)
EXTENDS Naturals, Sequences

CONSTANTS
    Label, Title,
    Idle,     \* the value of running when no task is worked on
    Blank,    \* the end of a period copied while it was running
    MaxTime   \* bound: the last instant of the wall clock

ASSUME TrackerAssumption ==
    /\ MaxTime \in Nat
    /\ Blank \notin Nat
    /\ Idle \notin [label : Label, begin : 0..MaxTime]

VARIABLES
    title,    \* the title of each existing task, by label
    log,      \* the ended periods of each existing task, by label
    running,  \* Idle, or the label being worked on and since when
    command,  \* the command given and not yet answered
    clock,
    last,     \* when the previous command ended
    reply     \* the result of the previous command

tracker == <<title, log, running, command, reply, last>>
vars == <<tracker, clock>>

NoCommand == [op |-> "none"]

Command ==
    [op : {"add", "upd"}, label : Label, title : Title]
    \cup [op : {"del", "start"}, label : Label]
    \cup [op : {"stop", "status"}]
    \cup [op : {"copy"}, label : Label, newLabel : Label, title : Title]

Init ==
    /\ title = <<>>
    /\ log = <<>>
    /\ running = Idle
    /\ command = NoCommand
    /\ clock = 0
    /\ last = 0
    /\ reply = [code |-> "NONE", shown |-> {}]

-----------------------------------------------------------------------------

\* f with x mapped to v, and f without x.
With(f, x, v) == [y \in DOMAIN f \cup {x} |-> IF y = x THEN v ELSE f[y]]
Without(f, x) == [y \in DOMAIN f \ {x} |-> f[y]]

\* Mutant: every label is taken to be known.
Exists_Any(l) == TRUE

Exists(l) == l \in DOMAIN title

WorkingOn(l) == running # Idle /\ running.label = l

\* Mutant: the ended period goes before the others.
LogEndedAt_First(e) ==
    IF running = Idle THEN log
    ELSE [log EXCEPT ![running.label] =
             <<[begin |-> running.begin, end |-> e]>> \o @]

\* The log after the running period, if there is one, has ended at time e.
LogEndedAt(e) ==
    IF running = Idle THEN log
    ELSE [log EXCEPT ![running.label] =
             Append(@, [begin |-> running.begin, end |-> e])]

\* The command ends now, with a result.
Answer(code, shown) ==
    /\ reply' = [code |-> code, shown |-> shown]
    /\ command' = NoCommand
    /\ last' = clock
    /\ UNCHANGED clock

Refuse(code) == Answer(code, {}) /\ UNCHANGED <<title, log, running>>

-----------------------------------------------------------------------------

\* The user starts the program with a command.
Give(c) ==
    /\ command = NoCommand
    /\ command' = c
    /\ UNCHANGED <<title, log, running, clock, last, reply>>

AddTask(l, t) ==
    /\ command = [op |-> "add", label |-> l, title |-> t]
    /\ \/ Exists(l) /\ Refuse("TASK_ALREADY_EXISTS")
       \/ /\ ~Exists(l)
          /\ title' = With(title, l, t)
          /\ log' = With(log, l, <<>>)
          /\ Answer("OK", {})
          /\ UNCHANGED running

UpdTask(l, t) ==
    /\ command = [op |-> "upd", label |-> l, title |-> t]
    /\ \/ ~Exists(l) /\ Refuse("TASK_NOT_FOUND")
       \/ /\ Exists(l)
          /\ title' = With(title, l, t)
          /\ Answer("OK", {})
          /\ UNCHANGED <<log, running>>

DelTask(l) ==
    /\ command = [op |-> "del", label |-> l]
    /\ \/ ~Exists(l) /\ Refuse("TASK_NOT_FOUND")
       \/ /\ Exists(l)
          /\ title' = Without(title, l)
          /\ log' = Without(log, l)
          /\ running' = IF WorkingOn(l) THEN Idle ELSE running
          /\ Answer("OK", {})

\* The two times are read one after the other while the command runs.
StartTask(l) ==
    /\ command = [op |-> "start", label |-> l]
    /\ \/ ~Exists(l) /\ Refuse("TASK_NOT_FOUND")
       \/ WorkingOn(l) /\ Refuse("ALREADY_RUNNING")
       \/ /\ Exists(l) /\ ~WorkingOn(l)
          /\ \E e \in last..clock : \E b \in e..clock :
                /\ log' = LogEndedAt(e)
                /\ running' = [label |-> l, begin |-> b]
          /\ Answer("OK", {})
          /\ UNCHANGED title

StopTask ==
    /\ command = [op |-> "stop"]
    /\ \/ running = Idle /\ Refuse("NOTHING_RUNNING")
       \/ /\ running # Idle
          /\ \E e \in last..clock : log' = LogEndedAt(e)
          /\ running' = Idle
          /\ Answer("OK", {})
          /\ UNCHANGED title

Status ==
    /\ command = [op |-> "status"]
    /\ \/ running = Idle /\ Answer("NOTHING_RUNNING", {})
       \/ /\ running # Idle
          /\ Answer("ALREADY_RUNNING", {[label |-> running.label,
                                         title |-> title[running.label],
                                         begin |-> running.begin]})
    /\ UNCHANGED <<title, log, running>>

\* The running period is copied as one with a blank end; only the original
\* goes on running.
CopyTask(l, new, t) ==
    /\ command = [op |-> "copy", label |-> l, newLabel |-> new, title |-> t]
    /\ \/ Exists(new) /\ Refuse("TASK_ALREADY_EXISTS")
       \/ ~Exists(new) /\ ~Exists(l) /\ Refuse("TASK_NOT_FOUND")
       \/ /\ ~Exists(new) /\ Exists(l)
          /\ title' = With(title, new, t)
          /\ log' = With(log, new,
                         IF WorkingOn(l)
                         THEN Append(log[l], [begin |-> running.begin, end |-> Blank])
                         ELSE log[l])
          /\ Answer("OK", {})
          /\ UNCHANGED running

Tick ==
    /\ clock < MaxTime
    /\ clock' = clock + 1
    /\ UNCHANGED tracker

Next ==
    \/ \E c \in Command : Give(c)
    \/ \E l \in Label :
          \/ \E t \in Title : AddTask(l, t) \/ UpdTask(l, t)
          \/ DelTask(l)
          \/ StartTask(l)
          \/ \E new \in Label, t \in Title : CopyTask(l, new, t)
    \/ StopTask
    \/ Status
    \/ Tick

Spec == Init /\ [][Next]_vars

-----------------------------------------------------------------------------
(* Properties. *)

Time == 0..MaxTime
Period == [begin : Time, end : Time \cup {Blank}]

(* The tracker's state has its type: in particular the running task, and   *)
(* every logged period, belongs to a task that exists.                     *)
TypeOK ==
    /\ DOMAIN title \subseteq Label
    /\ \A l \in DOMAIN title : title[l] \in Title
    /\ DOMAIN log = DOMAIN title
    /\ \A l \in DOMAIN log : log[l] \in Seq(Period)
    /\ running \in {Idle} \cup [label : DOMAIN title, begin : Time]
    /\ command \in Command \cup {NoCommand}
    /\ clock \in Time
    /\ last \in 0..clock

\* The ended periods of s have ended by time t.
EndedBy(s, t) == \A i \in DOMAIN s : s[i].end # Blank => s[i].end <= t

\* Each ended period of s ends before any later one begins.
Ordered(s) ==
    \A i \in DOMAIN s : s[i].end # Blank =>
        /\ s[i].begin <= s[i].end
        /\ \A j \in DOMAIN s : i < j => s[i].end <= s[j].begin

(* The log of a task is in order and without overlap, and what was ended   *)
(* had ended before the running period began.  So the time spent on a      *)
(* task, the sum of its periods, counts no moment twice, whatever          *)
(* StartTask, StopTask, DelTask and CopyTask were given.                   *)
Chronological ==
    \A l \in DOMAIN log :
        /\ Ordered(log[l])
        /\ WorkingOn(l) => EndedBy(log[l], running.begin)
=============================================================================
