--------------------------- MODULE ScopeSelection ---------------------------
(***************************************************************************)
(* What the form that adds runners relies on when its dialog selects the   *)
(* scopes (web/src/pages/AddRunner.tsx, lines 648-653): the selection      *)
(* changes as a whole, to scopes that GitHub offered, and once there is    *)
(* one it is never empty again.  AddRunner!SelectScopes is this step.      *)
(***************************************************************************)
CONSTANT Keys
VARIABLES
    chosen,    \* the scopes selected
    offered    \* the scopes GitHub has listed so far

Init == chosen = {} /\ offered = {}

Offer ==
    /\ \E S \in SUBSET Keys : offered' = offered \cup S
    /\ UNCHANGED chosen

Choose ==
    /\ chosen' \in (SUBSET offered) \ {{}}
    /\ UNCHANGED offered

Spec == Init /\ [][Offer \/ Choose]_<<chosen, offered>>
=============================================================================
