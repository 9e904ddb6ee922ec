--------------------------- MODULE PwtTime_proofs ---------------------------
(***************************************************************************)
(* The stored and the shown times are right at every instant, but for the  *)
(* changes of the offset of local time from UTC; in a zone without summer  *)
(* time they are right.                                                    *)
(***************************************************************************)
EXTENDS PwtTime, TLAPS

TypeOK ==
    /\ utc \in Nat
    /\ began \in Nat

\* What is stored as the begin of the running period is when it began.
OpenIsBegan == open # None => open = Localtime(began)

IInv == TypeOK /\ OpenIsBegan /\ SpentIsElapsed /\ StoredIsElapsed

(* The fields of local time determine it.                                   *)
LEMMA FieldsOfSeconds ==
    ASSUME NEW s \in Int
    PROVE  (((s \div 86400) * 24 + ((s \div 3600) % 24)) * 60
              + ((s \div 60) % 60)) * 60 + (s % 60) = s
<1>1. s = 60 * (s \div 60) + (s % 60)
  OBVIOUS
<1>2. s \div 60 = 60 * (s \div 3600) + ((s \div 60) % 60)
  OBVIOUS
<1>3. s \div 3600 = 24 * (s \div 86400) + ((s \div 3600) % 24)
  OBVIOUS
<1> QED
  BY <1>1, <1>2, <1>3

(* Local time, read back, is the instant moved by its offset.               *)
LEMMA LocaltimeSeconds ==
    ASSUME NEW u \in Nat
    PROVE  /\ SecondsOf(Localtime(u)) = u + Offset(IsDst(u))
           /\ Offset(IsDst(u)) \in Int
<1>1. Offset(IsDst(u)) \in Int
  BY TimeAssumption DEF Offset
<1> DEFINE s == u + Offset(IsDst(u))
<1>2. s \in Int
  BY <1>1
<1>3. SecondsOf(Localtime(u)) = (((s \div 86400) * 24 + ((s \div 3600) % 24)) * 60
              + ((s \div 60) % 60)) * 60 + (s % 60)
  BY DEF SecondsOf, Localtime
<1> HIDE DEF s
<1>4. SecondsOf(Localtime(u)) = s
  BY <1>2, <1>3, FieldsOfSeconds
<1> QED
  BY <1>1, <1>4 DEF s

(* The parts that status shows add up to the difference they are made of,   *)
(* also where it is negative.                                               *)
LEMMA PartsAddUp ==
    ASSUME NEW d \in Int
    PROVE  Total(TimeSpent(d)) = d
<1>1. ASSUME NEW a \in Nat
      PROVE  (a \div 86400) * 86400 + ((a \div 3600) - 24 * ((a \div 3600) \div 24)) * 3600
               + ((a \div 60) - 60 * ((a \div 60) \div 60)) * 60 + (a - 60 * (a \div 60)) = a
  <2>1. (a \div 3600) \div 24 = a \div 86400 /\ (a \div 60) \div 60 = a \div 3600
    OBVIOUS
  <2> QED
    BY <2>1
<1>2. CASE d >= 0
  <2>1. d \in Nat /\ d \div 3600 >= 0 /\ d \div 60 >= 0
    BY <1>2
  <2> QED
    BY <1>1, <2>1 DEF Total, TimeSpent, Quotient, Remainder
<1>3. CASE d < 0
  <2> DEFINE a == -d
  <2>1. a \in Nat /\ a > 0 /\ d = -a
    BY <1>3
  <2> HIDE DEF a
  <2>2. ASSUME NEW b \in Nat, b > 0
        PROVE  Quotient(d, b) = -(a \div b)
    BY <1>3, <2>1 DEF Quotient
  <2>3. ASSUME NEW q \in Nat, NEW b \in Nat, b > 0
        PROVE  Remainder(-q, b) = -(q - b * (q \div b))
    <3>1. Quotient(-q, b) = -(q \div b) /\ q \div b \in Int
      BY <2>3 DEF Quotient
    <3> QED
      BY <3>1 DEF Remainder
  <2> DEFINE h == a \div 3600
             m == a \div 60
  <2>4. h \in Nat /\ m \in Nat /\ h \div 24 \in Int /\ m \div 60 \in Int
    BY <2>1
  <2>5. /\ TimeSpent(d).days = -(a \div 86400)
        /\ TimeSpent(d).hours = -(h - 24 * (h \div 24))
        /\ TimeSpent(d).minutes = -(m - 60 * (m \div 60))
        /\ TimeSpent(d).seconds = -(a - 60 * m)
    <3>1. /\ Quotient(d, 86400) = -(a \div 86400)
          /\ Quotient(d, 3600) = -h
          /\ Quotient(d, 60) = -m
      BY <2>2
    <3>2. Remainder(-h, 24) = -(h - 24 * (h \div 24))
      BY <2>3, <2>4
    <3>3. Remainder(-m, 60) = -(m - 60 * (m \div 60))
      BY <2>3, <2>4
    <3>4. Remainder(d, 60) = -(a - 60 * m)
      BY <2>1, <2>3
    <3> QED
      BY <3>1, <3>2, <3>3, <3>4 DEF TimeSpent
  <2>6. (a \div 86400) * 86400 + (h - 24 * (h \div 24)) * 3600
          + (m - 60 * (m \div 60)) * 60 + (a - 60 * m) = a
    BY <1>1, <2>1
  <2>7. a \div 86400 \in Int
    BY <2>1
  <2> QED
    BY <2>1, <2>4, <2>5, <2>6, <2>7 DEF Total
<1> QED
  BY <1>2, <1>3

-----------------------------------------------------------------------------
(* The begin of the running period, read back at any later instant, is the  *)
(* instant at which the task was started, moved by the change of the offset *)
(* since.                                                                   *)
LEMMA BeginReadBack ==
    ASSUME TypeOK, OpenIsBegan, open # None
    PROVE  Total(GetTimeSpent(open)) = (utc - began) + Shift(began, utc)
<1> DEFINE d == (utc - began) + Shift(began, utc)
<1>1. SecondsOf(open) = began + Offset(IsDst(began))
  BY LocaltimeSeconds DEF TypeOK, OpenIsBegan
<1>2. Offset(IsDst(began)) \in Int /\ Offset(IsDst(utc)) \in Int
  BY LocaltimeSeconds DEF TypeOK
<1>3. d \in Int /\ utc - Mktime(open, IsDst(utc)) = d
  BY <1>1, <1>2 DEF Mktime, TypeOK, Shift
<1> QED
  BY <1>3, PartsAddUp DEF GetTimeSpent

LEMMA InitIsRight == Init => IInv
BY TimeAssumption DEF Init, IInv, TypeOK, OpenIsBegan, SpentIsElapsed, StoredIsElapsed

LEMMA StepKeepsRight ==
    ASSUME IInv, [Next]_vars
    PROVE  IInv'
<1> USE DEF IInv
<1>1. CASE StartTask
  BY <1>1 DEF StartTask, GetCurrentDatetime, TypeOK, OpenIsBegan,
              SpentIsElapsed, StoredIsElapsed
<1>2. CASE StopTask
  <2>1. TypeOK' /\ OpenIsBegan' /\ SpentIsElapsed'
    BY <1>2 DEF StopTask, TypeOK, OpenIsBegan, SpentIsElapsed
  <2>2. SecondsOf(Localtime(utc)) - SecondsOf(open) = (utc - began) + Shift(began, utc)
    <3>1. open = Localtime(began)
      BY <1>2 DEF StopTask, OpenIsBegan
    <3>2. /\ SecondsOf(Localtime(began)) = began + Offset(IsDst(began))
          /\ SecondsOf(Localtime(utc)) = utc + Offset(IsDst(utc))
          /\ Offset(IsDst(utc)) \in Int /\ Offset(IsDst(began)) \in Int
      BY LocaltimeSeconds DEF TypeOK
    <3> QED
      BY <3>1, <3>2 DEF TypeOK, Shift
  <2>3. StoredIsElapsed'
    BY <1>2, <2>2 DEF StopTask, GetCurrentDatetime, StoredIsElapsed
  <2> QED
    BY <2>1, <2>3
<1>3. CASE CmdStatus
  <2>1. SpentIsElapsed'
    BY <1>3, BeginReadBack DEF CmdStatus, SpentIsElapsed
  <2> QED
    BY <1>3, <2>1 DEF CmdStatus, TypeOK, OpenIsBegan, StoredIsElapsed
<1>4. CASE Advance
  BY <1>4, TimeAssumption DEF Advance, TypeOK, OpenIsBegan, SpentIsElapsed,
                              StoredIsElapsed
<1>5. CASE UNCHANGED vars
  BY <1>5 DEF vars, TypeOK, OpenIsBegan, SpentIsElapsed, StoredIsElapsed
<1> QED
  BY <1>1, <1>2, <1>3, <1>4, <1>5 DEF Next

LEMMA IInvHolds == Spec => []IInv
<1>1. Init => IInv
  BY InitIsRight
<1>2. IInv /\ [Next]_vars => IInv'
  BY StepKeepsRight
<1> QED
  BY <1>1, <1>2, PTL DEF Spec

(* Whatever the zone, what status shows is the time that has passed since   *)
(* the task was started, plus what the clock has been moved by meanwhile.   *)
THEOREM SpentIsRight == Spec => []SpentIsElapsed
<1>1. IInv => SpentIsElapsed
  BY DEF IInv
<1> QED
  BY <1>1, IInvHolds, PTL

(* Whatever the zone, the times that StartTask and StopTask store are as far *)
(* apart as the begin and the end of the work were, plus what the clock was  *)
(* moved by meanwhile.                                                      *)
THEOREM StoredIsRight == Spec => []StoredIsElapsed
<1>1. IInv => StoredIsElapsed
  BY DEF IInv
<1> QED
  BY <1>1, IInvHolds, PTL

(* In a zone without summer time, status shows the time that has passed     *)
(* since the task was started.                                              *)
THEOREM SpentInOneOffset ==
    ASSUME Winter = Summer
    PROVE  Spec => [](shown # None => Total(shown) = utc - began)
<1>1. ASSUME IInv
      PROVE  shown # None => Total(shown) = utc - began
  <2>1. Shift(began, utc) = 0
    BY TimeAssumption DEF Shift, Offset
  <2>2. utc - began \in Int
    BY <1>1 DEF IInv, TypeOK
  <2> QED
    BY <1>1, <2>1, <2>2 DEF IInv, SpentIsElapsed
<1> QED
  BY <1>1, IInvHolds, PTL
=============================================================================
