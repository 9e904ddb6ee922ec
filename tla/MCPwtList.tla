----------------------------- MODULE MCPwtList ------------------------------
(***************************************************************************)
(* Instances of PwtList for TLC: a letter in both cases, another letter,   *)
(* and the characters that LIKE or ListTask read as something else.        *)
(***************************************************************************)
EXTENDS PwtList

Letters == {"a", "A", "b", "%", "_", "*"}

UpperCase == [l \in Letters |-> IF l = "a" THEN "A" ELSE l]
=============================================================================
