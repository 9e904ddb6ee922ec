--------------------------- MODULE MCPwtSession ----------------------------
(***************************************************************************)
(* Instances of PwtSession for TLC.                                        *)
(***************************************************************************)
EXTENDS PwtProperties, TLC

\* Labels, titles and processes are only compared for equality.
Symmetry == Permutations(Proc) \cup Permutations(Label) \cup Permutations(Title)
=============================================================================
