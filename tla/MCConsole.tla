----------------------------- MODULE MCConsole -----------------------------
(***************************************************************************)
(* Three parts of the console that share nothing: the dialog with the name *)
(* of a runner, the settings and the theme.  A behaviour moves one of them *)
(* and leaves the others as they begin, so that TLC adds their states      *)
(* instead of multiplying them; every property is about one part.          *)
(* The names have the characters that sanitizeName replaces in every       *)
(* position.                                                               *)
(***************************************************************************)
EXTENDS RunnerName, Settings, Theme

CONSTANTS org, repo

VARIABLE part

MCQueries   == {{org, repo}, {org}, {}}
MCOwnerText == org :> <<"A", ".">> @@ repo :> <<"A", ".">>
MCRepoText  == org :> <<>> @@ repo :> <<".", "-", "A", ".", ".">>
MCTyped     == {<<>>, <<"-", "a">>, <<".", "-", "A", ".", ".", "a", ".">>, <<".", ".">>}
MCNumbers   == {-1, 0, 2}

Symmetry == Permutations(Requests)

PartsInit ==
    /\ part \in {"selection", "settings", "theme"}
    /\ Init /\ SettingsInit /\ ThemeInit
    /\ part # "theme" => system = "light"

PartsNext ==
    \/ part = "selection" /\ Next /\ UNCHANGED <<part, settingsVars, themeVars>>
    \/ part = "settings" /\ SettingsNext /\ UNCHANGED <<part, vars, themeVars>>
    \/ part = "theme" /\ ThemeNext /\ UNCHANGED <<part, vars, settingsVars>>

PartsSpec == PartsInit /\ [][PartsNext]_<<part, vars, settingsVars, themeVars>>
=============================================================================
