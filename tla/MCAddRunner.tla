----------------------------- MODULE MCAddRunner -----------------------------
(***************************************************************************)
(* An organization and one of its repositories on one host: their classic  *)
(* tokens differ, their fine-grained token is the same.                    *)
(***************************************************************************)
EXTENDS AddRunner, TLC

CONSTANTS org, repo

MCHost  == org :> "host" @@ repo :> "host"
MCOwner == org :> "owner" @@ repo :> "owner"
=============================================================================
