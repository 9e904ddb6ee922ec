--------------------------- MODULE MCTimeTracker ---------------------------
(***************************************************************************)
(* Instances of TimeTracker for TLC.  MaxLog bounds the periods of a task, *)
(* which the specification does not.                                       *)
(***************************************************************************)
EXTENDS TimeTracker, TLC

CONSTANT MaxLog

ShortLogs == \A l \in DOMAIN log : Len(log[l]) <= MaxLog

\* Labels are only compared for equality.
Symmetry == Permutations(Label)
=============================================================================
