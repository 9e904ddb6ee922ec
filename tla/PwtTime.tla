------------------------------ MODULE PwtTime ------------------------------
(***************************************************************************)
(* How the program writes and reads time.  A period's begin and end are    *)
(* stored as local wall time without its offset from UTC; status reads the *)
(* begin back and shows the time spent since.  Instants are in seconds.    *)
(***************************************************************************)
EXTENDS Integers

CONSTANTS
    Instants,      \* the instants, in UTC, at which the program runs
    Winter,        \* offset of local time from UTC in winter
    Summer,        \* and in summer
    Spring, Autumn \* when summer time begins and ends

ASSUME TimeAssumption ==
    /\ Instants \subseteq Nat
    /\ Winter \in Int /\ Summer \in Int
    /\ Spring \in Int /\ Autumn \in Int

VARIABLES
    utc,      \* the present
    open,     \* the record_begin of the running period, None without one
    began,    \* when it really began
    periods,  \* the ended periods: as stored, and when they really were
    shown     \* what status shows, None before it is asked

vars == <<utc, open, began, periods, shown>>

None == [none |-> TRUE]

-----------------------------------------------------------------------------
(* The C library. *)

IsDst(u) == Spring <= u /\ u < Autumn

Offset(isdst) == IF isdst THEN Summer ELSE Winter

\* localtime: the fields of local time.
Localtime(u) ==
    LET s == u + Offset(IsDst(u))
    IN  [day |-> s \div 86400, hour |-> (s \div 3600) % 24,
         min |-> (s \div 60) % 60, sec |-> s % 60]

SecondsOf(t) == ((t.day * 24 + t.hour) * 60 + t.min) * 60 + t.sec

\* mktime: the instant of a local time that is said to be summer time or not.
Mktime(t, isdst) == SecondsOf(t) - Offset(isdst)

\* Conversion of a double to int, and the remainder of ints: toward zero.
Quotient(a, b) == IF a >= 0 THEN a \div b ELSE -((-a) \div b)
Remainder(a, b) == a - b * Quotient(a, b)

-----------------------------------------------------------------------------
(* The program. *)

\* Mutant: the hours are written from 0 to 11.
GetCurrentDatetime_HalfDay == [Localtime(utc) EXCEPT !.hour = @ % 12]

GetCurrentDatetime == Localtime(utc)

\* Mutant: the hours are not reduced to those of a day.
TimeSpent_AllHours(diff) ==
    [days    |-> Quotient(diff, 86400),
     hours   |-> Quotient(diff, 3600),
     minutes |-> Remainder(Quotient(diff, 60), 60),
     seconds |-> Remainder(diff, 60)]

TimeSpent(diff) ==
    [days    |-> Quotient(diff, 86400),
     hours   |-> Remainder(Quotient(diff, 3600), 24),
     minutes |-> Remainder(Quotient(diff, 60), 60),
     seconds |-> Remainder(diff, 60)]

\* The fields of the begin replace those of the present, whose tm_isdst stays.
GetTimeSpent(from) == TimeSpent(utc - Mktime(from, IsDst(utc)))

Init ==
    /\ utc \in Instants
    /\ open = None
    /\ began = utc
    /\ periods = {}
    /\ shown = None

StartTask ==
    /\ open = None
    /\ open' = GetCurrentDatetime
    /\ began' = utc
    /\ shown' = None
    /\ UNCHANGED <<utc, periods>>

StopTask ==
    /\ open # None
    /\ periods' = periods \cup {[begin |-> open, end |-> GetCurrentDatetime,
                                 from |-> began, to |-> utc]}
    /\ open' = None
    /\ shown' = None
    /\ UNCHANGED <<utc, began>>

CmdStatus ==
    /\ open # None
    /\ shown' = GetTimeSpent(open)
    /\ UNCHANGED <<utc, open, began, periods>>

\* Time passes.
Advance ==
    /\ utc' \in {u \in Instants : u > utc}
    /\ shown' = None
    /\ UNCHANGED <<open, began, periods>>

Next == StartTask \/ StopTask \/ CmdStatus \/ Advance

Spec == Init /\ [][Next]_vars

-----------------------------------------------------------------------------
(* Properties. *)

Total(t) == t.days * 86400 + t.hours * 3600 + t.minutes * 60 + t.seconds

\* How far local time has been moved between two instants.
Shift(from, to) == Offset(IsDst(to)) - Offset(IsDst(from))

(* The days, hours, minutes and seconds that status shows are the time that *)
(* has really passed since the task was started, except that they are off   *)
(* by exactly as much as the clock has been moved since: nothing is lost at *)
(* the turn of a day, and nothing in the conversion there and back.         *)
SpentIsElapsed == shown # None => Total(shown) = (utc - began) + Shift(began, utc)

(* The time between the begin and the end that StartTask and StopTask have  *)
(* stored is the time that was really worked, off by exactly as much as the *)
(* clock was moved meanwhile: it is what status has shown.                  *)
StoredIsElapsed ==
    \A p \in periods :
        SecondsOf(p.end) - SecondsOf(p.begin) = (p.to - p.from) + Shift(p.from, p.to)
=============================================================================
