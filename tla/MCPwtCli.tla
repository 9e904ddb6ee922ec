------------------------------ MODULE MCPwtCli ------------------------------
(***************************************************************************)
(* Instances of PwtCli for TLC.                                            *)
(***************************************************************************)
EXTENDS PwtCli, TLC

\* Processes and labels are only compared for equality.
Symmetry == Permutations(Proc) \cup Permutations(Label)
=============================================================================
