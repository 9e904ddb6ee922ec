--------------------------- MODULE MCSoloTracker ---------------------------
(***************************************************************************)
(* Instances of SoloTracker for TLC, with the properties of the database.  *)
(***************************************************************************)
EXTENDS SoloTracker, PwtProperties, TLC

\* Labels are only compared for equality.
Symmetry == Permutations(Label)
=============================================================================
