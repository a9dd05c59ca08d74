----------------------------- MODULE RunnerName -----------------------------
(***************************************************************************)
(* The name of a new runner (web/src/pages/AddRunner.tsx): the operators   *)
(* that clean, check and generate one, and the field that edits it, on top *)
(* of the dialog that selects the scopes.  A name typed for one scope      *)
(* survives every later selection, also one of several scopes, which       *)
(* ignores it.                                                             *)
(*                                                                         *)
(* A name is a sequence of characters; of each kind that sanitizeName      *)
(* tells apart there is one: "a" a lower case letter, a digit or "_", "A"  *)
(* an upper case letter, "-", and "." anything else.                       *)
(***************************************************************************)
EXTENDS RepoSelector

CONSTANTS
    Typed,       \* bound: the names that are typed
    OwnerText,   \* [Keys -> names], the owner of a scope
    RepoText     \* [Keys -> names], empty for an organization

VARIABLES name, nameManuallyEdited

nameVars == <<name, nameManuallyEdited>>
vars == <<selectorVars, nameVars>>

Chars == {"a", "A", "-", "."}

ASSUME RunnerNameAssumption ==
    /\ Typed \subseteq Seq(Chars)
    /\ OwnerText \in [Keys -> Seq(Chars)] /\ RepoText \in [Keys -> Seq(Chars)]

\* toLowerCase, then every other character becomes a dash.
Lowered(s) == [i \in DOMAIN s |-> CASE s[i] \in {"a", "A"} -> "a"
                                    [] s[i] \in {"-", "."} -> "-"]

\* A run of dashes becomes one.
Collapsed(s) ==
    Kept(s, {i \in DOMAIN s : s[i] = "-" /\ i > 1 => s[i - 1] # "-"})

\* One dash goes at either end.
Trimmed(s) ==
    LET front == IF s # <<>> /\ Head(s) = "-" THEN Tail(s) ELSE s
    IN  IF front # <<>> /\ Last(front) = "-" THEN Front(front) ELSE front

\* Slip: letters keep their case, and only what is no letter is replaced.
SanitizeNameCased(s) ==
    Trimmed(Collapsed([i \in DOMAIN s |-> IF s[i] = "." THEN "-" ELSE s[i]]))

SanitizeName(s) == Trimmed(Collapsed(Lowered(s)))

IsValidName(s) == s # <<>> /\ ToSet(s) \subseteq {"a", "-"}

\* Six random characters.
RandomId == <<"a">>

GenerateName(k) ==
    SanitizeName(OwnerText[k]) \o <<"-">>
        \o (IF RepoText[k] = <<>> THEN <<>> ELSE SanitizeName(RepoText[k]) \o <<"-">>)
        \o RandomId

-----------------------------------------------------------------------------
IsBatch == Len(selected) > 1

IsNameInvalid == ~IsBatch /\ nameManuallyEdited /\ name # <<>> /\ ~IsValidName(name)

\* What the field shows; the name that is sent instead of an untouched one is
\* generated again, with other random characters.
DisplayName ==
    IF IsBatch THEN <<>>
    ELSE IF nameManuallyEdited THEN name
    ELSE IF selected # <<>> THEN GenerateName(selected[1].key) ELSE name

PostedName(k) == IF IsBatch \/ name = <<>> THEN GenerateName(k) ELSE name

CanPost == ~open /\ selected # <<>> /\ ~IsNameInvalid

Edit(n, manual) ==
    /\ ~open /\ Len(selected) = 1
    /\ name' = n /\ nameManuallyEdited' = manual
    /\ UNCHANGED selectorVars

TypeName == \E n \in Typed : Edit(n, TRUE)

ResetToAuto == nameManuallyEdited /\ Edit(<<>>, FALSE)

FixFormat == IsNameInvalid /\ Edit(SanitizeName(name), nameManuallyEdited)

Init == SelectorInit /\ name = <<>> /\ nameManuallyEdited = FALSE

Next ==
    \/ SelectorNext /\ UNCHANGED nameVars
    \/ TypeName \/ ResetToAuto \/ FixFormat

Spec == Init /\ [][Next]_vars

-----------------------------------------------------------------------------
TypeOK ==
    /\ SelectorTypeOK
    /\ name \in Seq(Chars) /\ nameManuallyEdited \in BOOLEAN

\* Whenever the form can be submitted, every name it would post is one the form
\* accepts, whatever was typed for whichever selection before, and an automatic
\* name is never shown next to a typed one that is sent.
NamesServable ==
    CanPost =>
        /\ \A k \in KeysOf(selected) : IsValidName(PostedName(k))
        /\ ~IsBatch /\ DisplayName # name => name = <<>>
=============================================================================
