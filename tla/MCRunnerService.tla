--------------------------- MODULE MCRunnerService ---------------------------
(***************************************************************************)
(* Requests on one runner that is created up to twice.                     *)
(***************************************************************************)
EXTENDS RunnerService, TLC

\* Requests are interchangeable, and so are launches and configurations.
Symmetry == Permutations(Requests) \cup Permutations(Launches) \cup Permutations(Configs)
=============================================================================
