---------------------------- MODULE MCPwtReports ----------------------------
(***************************************************************************)
(* Instances of PwtReports for TLC.                                        *)
(***************************************************************************)
EXTENDS PwtReports, PwtProperties, TLC

\* Labels, titles and processes are only compared for equality.
Symmetry == Permutations(Proc) \cup Permutations(Label) \cup Permutations(Title)
=============================================================================
