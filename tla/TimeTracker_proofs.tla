------------------------- MODULE TimeTracker_proofs -------------------------
(***************************************************************************)
(* The tracker keeps its type and a chronological log, for any labels,     *)
(* titles and times.                                                       *)
(***************************************************************************)
EXTENDS TimeTracker, TLAPS

USE DEF Time

(* Nothing recorded lies after the end of the last command.  Chronological  *)
(* needs it: the period that ends next must begin before it ends, and the   *)
(* one that begins next must begin after all that have ended.               *)
Settled ==
    /\ \A l \in DOMAIN log : EndedBy(log[l], last)
    /\ running # Idle => running.begin <= last

IInv == TypeOK /\ Chronological /\ Settled

-----------------------------------------------------------------------------

(* A period that begins after all the ended ones may be appended to a log.  *)
LEMMA AppendPeriod ==
    ASSUME NEW s \in Seq(Period), NEW x \in Period,
           Ordered(s),
           EndedBy(s, x.begin),
           x.end # Blank => x.begin <= x.end
    PROVE  /\ Append(s, x) \in Seq(Period)
           /\ Ordered(Append(s, x))
<1> DEFINE t == Append(s, x)
<1>1. /\ t \in Seq(Period)
      /\ Len(t) = Len(s) + 1
      /\ \A i \in 1..Len(s) : t[i] = s[i]
      /\ t[Len(s) + 1] = x
      /\ Len(s) \in Nat
  OBVIOUS
<1>2. DOMAIN s = 1..Len(s) /\ DOMAIN t = 1..(Len(s) + 1)
  BY <1>1
<1> HIDE DEF t
<1>3. SUFFICES ASSUME NEW i \in DOMAIN t, t[i].end # Blank
               PROVE  /\ t[i].begin <= t[i].end
                      /\ \A j \in DOMAIN t : i < j => t[i].end <= t[j].begin
  BY <1>1 DEF Ordered, t
<1>4. CASE i = Len(s) + 1
  BY <1>1, <1>2, <1>3, <1>4
<1>5. CASE i \in 1..Len(s)
  <2>1. t[i].begin <= t[i].end
    BY <1>1, <1>2, <1>3, <1>5 DEF Ordered
  <2>2. ASSUME NEW j \in DOMAIN t, i < j
        PROVE  t[i].end <= t[j].begin
    <3>1. CASE j = Len(s) + 1
      BY <1>1, <1>2, <1>3, <1>5, <3>1 DEF EndedBy
    <3>2. CASE j \in 1..Len(s)
      BY <1>1, <1>2, <1>3, <1>5, <2>2, <3>2 DEF Ordered
    <3> QED
      BY <1>1, <1>2, <3>1, <3>2
  <2> QED
    BY <2>1, <2>2
<1> QED
  BY <1>1, <1>2, <1>4, <1>5

(* Appending a period that has ended by time e leaves all ended by e.       *)
LEMMA AppendEnded ==
    ASSUME NEW s \in Seq(Period), NEW x \in Period, NEW e \in Time,
           EndedBy(s, e),
           x.end # Blank => x.end <= e
    PROVE  EndedBy(Append(s, x), e)
<1> DEFINE t == Append(s, x)
<1>1. /\ DOMAIN s = 1..Len(s)
      /\ DOMAIN t = 1..(Len(s) + 1)
      /\ \A i \in 1..Len(s) : t[i] = s[i]
      /\ t[Len(s) + 1] = x
      /\ Len(s) \in Nat
  OBVIOUS
<1> HIDE DEF t
<1>2. EndedBy(t, e)
  BY <1>1 DEF EndedBy
<1> QED
  BY <1>2 DEF t

(* What has ended by some time has ended by any later one.                  *)
LEMMA EndedByLater ==
    ASSUME NEW s \in Seq(Period), NEW d \in Time, NEW e \in Time,
           EndedBy(s, d), d <= e
    PROVE  EndedBy(s, e)
<1>1. \A i \in DOMAIN s : s[i] \in Period
  OBVIOUS
<1> QED
  BY <1>1, TrackerAssumption DEF EndedBy, Period

(* Ending the running period keeps every log in order.                      *)
LEMMA LogEnded ==
    ASSUME IInv, NEW e \in last..clock
    PROVE  /\ DOMAIN LogEndedAt(e) = DOMAIN log
           /\ \A l \in DOMAIN log :
                 /\ LogEndedAt(e)[l] \in Seq(Period)
                 /\ Ordered(LogEndedAt(e)[l])
                 /\ EndedBy(LogEndedAt(e)[l], e)
<1>1. e \in Time /\ last \in Time /\ last <= e
  BY TrackerAssumption DEF IInv, TypeOK
<1>2. \A l \in DOMAIN log :
        log[l] \in Seq(Period) /\ Ordered(log[l]) /\ EndedBy(log[l], e)
  BY <1>1, EndedByLater DEF IInv, TypeOK, Chronological, Settled
<1>3. CASE running = Idle
  BY <1>2, <1>3 DEF LogEndedAt
<1>4. CASE running # Idle
  <2> DEFINE x == [begin |-> running.begin, end |-> e]
             s == log[running.label]
  <2>1. running.label \in DOMAIN log /\ running.begin \in Time /\ running.begin <= last
    BY <1>4, TrackerAssumption DEF IInv, TypeOK, Settled
  <2>2. /\ x \in Period /\ x.begin = running.begin /\ x.end = e
        /\ x.begin <= x.end
    BY <1>1, <2>1, TrackerAssumption DEF Period
  <2>3. /\ running.label \in DOMAIN log
        /\ x \in Period /\ x.begin = running.begin /\ x.end = e
        /\ s \in Seq(Period) /\ Ordered(s) /\ EndedBy(s, e)
        /\ EndedBy(s, x.begin)
        /\ x.begin <= x.end
    BY <1>2, <1>4, <2>1, <2>2 DEF IInv, Chronological, WorkingOn
  <2>4. LogEndedAt(e) = [log EXCEPT ![running.label] = Append(s, x)]
    BY <1>4 DEF LogEndedAt
  <2> HIDE DEF x, s
  <2>5. Append(s, x) \in Seq(Period) /\ Ordered(Append(s, x))
    BY <2>3, AppendPeriod
  <2>6. EndedBy(Append(s, x), e)
    BY <1>1, <2>3, AppendEnded
  <2> QED
    BY <1>2, <2>3, <2>4, <2>5, <2>6
<1> QED
  BY <1>3, <1>4

-----------------------------------------------------------------------------

(* IInv holds at first.                                                     *)
LEMMA InitIInv == Init => IInv
  BY TrackerAssumption
  DEF Init, IInv, TypeOK, Chronological, Settled

(* A command that is given, refused, or only shows, touches no log.         *)
LEMMA AnswerKeeps ==
    ASSUME IInv, UNCHANGED <<title, log, running>>,
           command' \in Command \cup {command, NoCommand},
           last' \in last..clock', clock' \in clock..MaxTime
    PROVE  IInv'
<1>1. TypeOK'
  BY TrackerAssumption DEF IInv, TypeOK
<1>2. Chronological'
  BY DEF IInv, Chronological, WorkingOn
<1>3. \A l \in DOMAIN log : EndedBy(log[l], last')
  BY EndedByLater, TrackerAssumption DEF IInv, TypeOK, Settled
<1>4. running # Idle => running.begin <= last'
  BY TrackerAssumption DEF IInv, TypeOK, Settled
<1> QED
  BY <1>1, <1>2, <1>3, <1>4 DEF IInv, Settled

(* Every command and every tick of the clock preserves IInv.                *)
LEMMA NextIInv == IInv /\ [Next]_vars => IInv'
<1> SUFFICES ASSUME IInv, [Next]_vars PROVE IInv'
  OBVIOUS
<1> USE TrackerAssumption
<1>0. /\ last \in 0..clock /\ clock \in Time
      /\ \A l \in DOMAIN log :
            /\ log[l] \in Seq(Period) /\ Ordered(log[l])
            /\ EndedBy(log[l], last) /\ EndedBy(log[l], clock)
      /\ DOMAIN log = DOMAIN title
      /\ running # Idle => /\ running.label \in DOMAIN log
                           /\ running.begin \in 0..last
  BY EndedByLater DEF IInv, TypeOK, Chronological, Settled
<1>1. ASSUME NEW code, Refuse(code) PROVE IInv'
  BY <1>0, <1>1, AnswerKeeps DEF Refuse, Answer
<1>2. ASSUME NEW l \in Label, NEW t \in Title, AddTask(l, t)
      PROVE  IInv'
  <2>1. CASE Exists(l)
    BY <1>1, <1>2, <2>1 DEF AddTask
  <2>2. CASE ~Exists(l)
    <3>1. /\ title' = With(title, l, t) /\ log' = With(log, l, <<>>)
          /\ running' = running /\ clock' = clock /\ last' = clock
          /\ command' = NoCommand
      BY <1>2, <2>2 DEF AddTask, Answer
    <3>2. <<>> \in Seq(Period) /\ Ordered(<<>>) /\ \A e : EndedBy(<<>>, e)
      BY DEF Ordered, EndedBy
    <3>3. TypeOK'
      BY <1>0, <3>1, <3>2 DEF IInv, TypeOK, With
    <3>4. Chronological'
      BY <1>0, <2>2, <3>1, <3>2 DEF IInv, Chronological, WorkingOn, With, Exists
    <3>5. Settled'
      BY <1>0, <3>1, <3>2 DEF Settled, With
    <3> QED
      BY <3>3, <3>4, <3>5 DEF IInv
  <2> QED
    BY <2>1, <2>2
<1>3. ASSUME NEW l \in Label, NEW t \in Title, UpdTask(l, t)
      PROVE  IInv'
  <2>1. CASE Exists(l)
    <3>1. /\ title' = With(title, l, t) /\ log' = log
          /\ running' = running /\ clock' = clock /\ last' = clock
          /\ command' = NoCommand
      BY <1>3, <2>1 DEF UpdTask, Answer
    <3>2. DOMAIN title' = DOMAIN title /\ \A k \in DOMAIN title : title'[k] \in Title
      BY <2>1, <3>1 DEF IInv, TypeOK, With, Exists
    <3>3. TypeOK'
      BY <1>0, <3>1, <3>2 DEF IInv, TypeOK
    <3>4. Chronological'
      BY <3>1 DEF IInv, Chronological, WorkingOn
    <3>5. Settled'
      BY <1>0, <3>1 DEF Settled
    <3> QED
      BY <3>3, <3>4, <3>5 DEF IInv
  <2> QED
    BY <1>1, <1>3, <2>1 DEF UpdTask
<1>4. ASSUME NEW l \in Label, DelTask(l)
      PROVE  IInv'
  <2>1. CASE Exists(l)
    <3>1. /\ title' = Without(title, l) /\ log' = Without(log, l)
          /\ running' = IF WorkingOn(l) THEN Idle ELSE running
          /\ clock' = clock /\ last' = clock /\ command' = NoCommand
      BY <1>4, <2>1 DEF DelTask, Answer
    <3>2. TypeOK'
      BY <1>0, <3>1 DEF IInv, TypeOK, Without, WorkingOn
    <3>3. Chronological'
      BY <1>0, <3>1 DEF IInv, Chronological, WorkingOn, Without
    <3>4. Settled'
      BY <1>0, <3>1 DEF Settled, Without
    <3> QED
      BY <3>2, <3>3, <3>4 DEF IInv
  <2> QED
    BY <1>1, <1>4, <2>1 DEF DelTask
<1>5. ASSUME NEW l \in Label, StartTask(l)
      PROVE  IInv'
  <2>1. CASE Exists(l) /\ ~WorkingOn(l)
    <3>1. PICK e \in last..clock : \E b \in e..clock :
             log' = LogEndedAt(e) /\ running' = [label |-> l, begin |-> b]
      BY <1>5, <2>1 DEF StartTask
    <3>2. PICK b \in e..clock :
             log' = LogEndedAt(e) /\ running' = [label |-> l, begin |-> b]
      BY <3>1
    <3>3. title' = title /\ clock' = clock /\ last' = clock /\ command' = NoCommand
      BY <1>5, <2>1 DEF StartTask, Answer
    <3>4. /\ e \in Time /\ b \in Time /\ e <= b /\ b <= clock
      BY <1>0
    <3>5. /\ DOMAIN log' = DOMAIN log
          /\ \A k \in DOMAIN log :
                /\ log'[k] \in Seq(Period) /\ Ordered(log'[k])
                /\ EndedBy(log'[k], b) /\ EndedBy(log'[k], clock)
      BY <1>0, <3>2, <3>4, LogEnded, EndedByLater
    <3>6. TypeOK'
      BY <1>0, <2>1, <3>2, <3>3, <3>4, <3>5 DEF IInv, TypeOK, Exists
    <3>7. Chronological'
      BY <3>2, <3>5 DEF Chronological, WorkingOn
    <3>8. Settled'
      BY <3>2, <3>3, <3>4, <3>5 DEF Settled
    <3> QED
      BY <3>6, <3>7, <3>8 DEF IInv
  <2> QED
    BY <1>1, <1>5, <2>1 DEF StartTask
<1>6. ASSUME StopTask PROVE IInv'
  <2>1. CASE running # Idle
    <3>1. PICK e \in last..clock : log' = LogEndedAt(e)
      BY <1>6, <2>1 DEF StopTask
    <3>2. /\ title' = title /\ clock' = clock /\ last' = clock
          /\ running' = Idle /\ command' = NoCommand
      BY <1>6, <2>1 DEF StopTask, Answer
    <3>3. /\ DOMAIN log' = DOMAIN log
          /\ \A k \in DOMAIN log :
                /\ log'[k] \in Seq(Period) /\ Ordered(log'[k])
                /\ EndedBy(log'[k], clock)
      BY <1>0, <3>1, LogEnded, EndedByLater
    <3>4. TypeOK'
      BY <1>0, <3>2, <3>3 DEF IInv, TypeOK
    <3>5. Chronological' /\ Settled'
      BY <3>2, <3>3 DEF Chronological, Settled, WorkingOn
    <3> QED
      BY <3>4, <3>5 DEF IInv
  <2> QED
    BY <1>1, <1>6, <2>1 DEF StopTask
<1>7. ASSUME Status PROVE IInv'
  BY <1>0, <1>7, AnswerKeeps DEF Status, Answer
<1>8. ASSUME NEW l \in Label, NEW new \in Label, NEW t \in Title,
             CopyTask(l, new, t)
      PROVE  IInv'
  <2>1. CASE ~Exists(new) /\ Exists(l)
    <3> DEFINE x == [begin |-> running.begin, end |-> Blank]
               copy == IF WorkingOn(l) THEN Append(log[l], x) ELSE log[l]
    <3>1. /\ title' = With(title, new, t) /\ log' = With(log, new, copy)
          /\ running' = running /\ clock' = clock /\ last' = clock
          /\ command' = NoCommand
      BY <1>8, <2>1 DEF CopyTask, Answer
    <3>2. /\ copy \in Seq(Period) /\ Ordered(copy)
          /\ EndedBy(copy, clock)
      <4>1. CASE WorkingOn(l)
        <5>1. /\ l \in DOMAIN log /\ x \in Period /\ x.begin = running.begin
              /\ x.end = Blank /\ EndedBy(log[l], x.begin)
          BY <1>0, <2>1, <4>1
          DEF IInv, Chronological, WorkingOn, Exists, Period
        <5> HIDE DEF x
        <5> QED
          BY <1>0, <4>1, <5>1, AppendPeriod, AppendEnded
      <4>2. CASE ~WorkingOn(l)
        BY <1>0, <2>1, <4>2 DEF Exists
      <4> QED
        BY <4>1, <4>2
    <3> HIDE DEF copy
    <3>3. TypeOK'
      BY <1>0, <3>1, <3>2 DEF IInv, TypeOK, With
    <3>4. Chronological'
      BY <1>0, <2>1, <3>1, <3>2 DEF IInv, Chronological, WorkingOn, With, Exists
    <3>5. Settled'
      BY <1>0, <3>1, <3>2 DEF Settled, With
    <3> QED
      BY <3>3, <3>4, <3>5 DEF IInv
  <2> QED
    BY <1>1, <1>8, <2>1 DEF CopyTask
<1>9. CASE Tick
  BY <1>0, <1>9, AnswerKeeps DEF Tick, tracker
<1>10. ASSUME NEW c \in Command, Give(c) PROVE IInv'
  BY <1>0, <1>10, AnswerKeeps DEF Give
<1>11. CASE UNCHANGED vars
  BY <1>0, <1>11, AnswerKeeps DEF vars, tracker
<1> QED
  BY <1>2, <1>3, <1>4, <1>5, <1>6, <1>7, <1>8, <1>9, <1>10, <1>11 DEF Next

(* IInv is an invariant: it is inductive and holds at first.                *)
THEOREM InductiveInvariant == Spec => []IInv
  BY InitIInv, NextIInv, PTL DEF Spec

(* The tracker's state keeps its type: commands never leave a running task, *)
(* or a logged period, without its task.                                    *)
THEOREM TypeCorrect == Spec => []TypeOK
  BY InductiveInvariant, PTL DEF IInv

(* AddTask, DelTask, StartTask, StopTask and CopyTask, in any order and at  *)
(* any times, leave every task's log in order and without overlap.          *)
THEOREM LogChronological == Spec => []Chronological
  BY InductiveInvariant, PTL DEF IInv
=============================================================================
