------------------------ MODULE MCStandaloneManager -------------------------
(***************************************************************************)
(* Instances of StandaloneManager for TLC.                                 *)
(***************************************************************************)
EXTENDS StandaloneManager
=============================================================================
