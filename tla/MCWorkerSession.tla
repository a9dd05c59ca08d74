--------------------------- MODULE MCWorkerSession ---------------------------
(***************************************************************************)
(* One session with every mishap.                                          *)
(***************************************************************************)
EXTENDS WorkerSession
=============================================================================
