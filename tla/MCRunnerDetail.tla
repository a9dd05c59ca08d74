--------------------------- MODULE MCRunnerDetail ---------------------------
(***************************************************************************)
(* A standalone runner and a scale set, one host to sign in to.            *)
(***************************************************************************)
EXTENDS RunnerDetail
=============================================================================
