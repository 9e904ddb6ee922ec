----------------------------- MODULE MCPwtFiles -----------------------------
(***************************************************************************)
(* Instances of PwtFiles for TLC: two names of one file, and one name of   *)
(* another.                                                                *)
(***************************************************************************)
EXTENDS PwtFiles

PathNames == {"pwt.log", "pwt.sqlite", "./pwt.sqlite"}
Files == {"pwt.log", "pwt.sqlite"}

NamedFile == [n \in PathNames |-> IF n = "./pwt.sqlite" THEN "pwt.sqlite" ELSE n]
=============================================================================
