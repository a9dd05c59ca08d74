----------------------------- MODULE MCScaleSet -----------------------------
(***************************************************************************)
(* Instances of ScaleSet for TLC.                                          *)
(***************************************************************************)
EXTENDS ScaleSet, TLC

\* Launches are interchangeable, and so are workers.
Symmetry == Permutations(Launches) \cup Permutations(Workers)
=============================================================================
