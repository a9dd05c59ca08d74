------------------------------ MODULE AddRunner ------------------------------
(***************************************************************************)
(* The form that adds runners (web/src/pages/AddRunner.tsx), the handler   *)
(* it posts to (pkg/dashboard/handlers_runner.go, service.go) and the      *)
(* table of runners, which a second administrator changes as well.         *)
(*                                                                         *)
(* One browser.  Its list of runners is a copy fetched earlier (the SWR    *)
(* entry "runners"), so what the form knows of a scope may be out of date; *)
(* a submission is one POST per selected scope, and the operator may leave *)
(* the page, or open a second form, while the answers are outstanding.     *)
(* Labels, the group and the maximum are copied into the request and are   *)
(* left out; the dialog that selects the scopes and the name are the modules *)
(* RepoSelector and RunnerName.                                            *)
(***************************************************************************)
EXTENDS Naturals, FiniteSets

CONSTANTS
    Scopes,           \* the URLs a runner can point to
    Orgs,             \* those of one path segment: organizations and users
    Host,             \* [Scopes -> hosts]
    Owner,            \* [Scopes -> owners], the first segment of the path
    NoToken,          \* an empty field, a request without a PAT
    MaxRows,          \* bound: rows of the table and requests for one
    MaxSubmissions    \* bound: submissions whose answers are outstanding

PatTypes == {"classic", "fine-grained"}

\* An owner called like a kind of scope would share its field of fine-grained
\* tokens with the classic tokens of its host.
ASSUME AddRunnerAssumption ==
    /\ IsFiniteSet(Scopes) /\ Orgs \subseteq Scopes
    /\ \A s \in Scopes : Owner[s] \notin {"organization", "repository"}
    /\ NoToken \notin PatTypes
    /\ MaxRows \in Nat /\ MaxSubmissions \in Nat

VARIABLES
    rows,    \* the table runners
    list,    \* the browser's copy, existingRunners: a set of <<scope, mode>>
    page,    \* the page the browser shows
    form,    \* the state hooks of the form on display
    here,    \* the submission the form on display waits for, 0 if none
    calls    \* the POSTs that are not answered or whose answer is not used

vars == <<rows, list, page, form, here, calls>>

Modes       == {"standalone", "scaleset"}
OtherMode(m) == CHOOSE o \in Modes : o # m
Submissions == 1..MaxSubmissions

ScopeType(s) == IF s \in Orgs THEN "organization" ELSE "repository"

\* A classic token serves a host and a kind of scope, a fine-grained one an owner.
PatKey(patType, s) ==
    IF patType = "classic" THEN <<Host[s], ScopeType(s)>> ELSE <<Host[s], Owner[s]>>

Keys == {PatKey(t, s) : t \in PatTypes, s \in Scopes}

\* What was typed into the field of a key: a token of some kind.
Tokens == PatTypes \X Keys

\* A row, named by its number among those of its scope and mode.
Row  == [url : Scopes, mode : Modes, nth : 1..MaxRows]
Form == [sel : SUBSET Scopes, mode : Modes, patType : PatTypes,
         pats : [Keys -> PatTypes \cup {NoToken}], loading : BOOLEAN]
Call == [sub : Submissions, repo : Scopes, mode : Modes, token : Tokens \cup {NoToken},
         st : {"sent", "ok", "failed", "named"}]

EmptyForm == [sel |-> {}, mode |-> "standalone", patType |-> "classic",
              pats |-> [k \in Keys |-> NoToken], loading |-> FALSE]

Init ==
    /\ rows = {} /\ list = {}
    /\ page = "overview" /\ form = EmptyForm /\ here = 0
    /\ calls = {}

TypeOK ==
    /\ rows \subseteq Row
    /\ list \subseteq Scopes \X Modes
    /\ page \in {"overview", "add", "runner"}
    /\ form \in Form
    /\ here \in Submissions \cup {0}
    /\ calls \subseteq Call

-----------------------------------------------------------------------------
(* What the form derives from its state and from the list.                 *)

ScopeModes(s) == {m \in Modes : <<s, m>> \in list}

IsBatch == Cardinality(form.sel) > 1

\* The modes that exist for the one selected scope; none in a batch.
SingleModes == IF Cardinality(form.sel) = 1 THEN UNION {ScopeModes(s) : s \in form.sel} ELSE {}

IsSingleMaximized == SingleModes = Modes

\* Slip: the mode is not switched to the one that is missing.
EffectiveModeAsSet == form.mode

EffectiveMode ==
    IF form.mode \in SingleModes /\ ~IsSingleMaximized THEN OtherMode(form.mode) ELSE form.mode

DisplayMode == IF IsBatch THEN form.mode ELSE EffectiveMode

IgnoredScopes == IF IsBatch THEN {s \in form.sel : form.mode \in ScopeModes(s)} ELSE {}

SubmitScopes == form.sel \ IgnoredScopes

\* One field per key of a selected scope, also of one that will be ignored.
PatInputs == {PatKey(form.patType, s) : s \in form.sel}

-----------------------------------------------------------------------------
(* The operator and the browser.                                           *)

Edit(f) == form' = f /\ UNCHANGED <<rows, list, page, here, calls>>

\* SWR fetches the list when a page mounts, on focus, every five seconds on
\* the overview and when Refresh is pressed.
Revalidate ==
    /\ list' = {<<r.url, r.mode>> : r \in rows}
    /\ UNCHANGED <<rows, page, form, here, calls>>

OpenForm ==
    /\ page # "add"
    /\ page' = "add"
    /\ UNCHANGED <<rows, list, form, here, calls>>

\* The form unmounts: its state is lost, its requests are not.
LeaveForm ==
    /\ page = "add"
    /\ page' = "overview" /\ form' = EmptyForm /\ here' = 0
    /\ UNCHANGED <<rows, list, calls>>

SelectScopes ==
    /\ page = "add"
    /\ \E S \in (SUBSET Scopes) \ {{}} : Edit([form EXCEPT !.sel = S])

\* The item on display does not select itself again; for one scope the items
\* of the modes that exist are disabled.
SetMode ==
    /\ page = "add"
    /\ \E m \in Modes \ (SingleModes \cup {DisplayMode}) : Edit([form EXCEPT !.mode = m])

SetPatType ==
    /\ page = "add" /\ DisplayMode = "scaleset"
    /\ \E t \in PatTypes \ {form.patType} : Edit([form EXCEPT !.patType = t])

\* A token of the kind on display is typed into a field, or the field is
\* cleared.  What the fields of the other kind hold stays.
EditPat ==
    /\ page = "add" /\ DisplayMode = "scaleset"
    /\ \E k \in PatInputs : \E typed \in {form.patType, NoToken} \ {form.pats[k]} :
          Edit([form EXCEPT !.pats[k] = typed])

CanSubmit ==
    /\ ~form.loading /\ form.sel # {} /\ ~IsSingleMaximized
    /\ IsBatch => SubmitScopes # {}

\* Slip: one token is enough.
PatsGivenOnce == DisplayMode = "scaleset" => \E k \in PatInputs : form.pats[k] # NoToken

\* Every field on display must be filled before anything is sent.
PatsGiven == DisplayMode = "scaleset" => \A k \in PatInputs : form.pats[k] # NoToken

Request(k, s) ==
    LET key == PatKey(form.patType, s)
    IN  [sub   |-> k, repo |-> s, mode |-> DisplayMode, st |-> "sent",
         token |-> IF DisplayMode = "scaleset" /\ form.pats[key] # NoToken
                   THEN <<form.pats[key], key>> ELSE NoToken]

Pending(k) == {c \in calls : c.sub = k}

\* handleSubmit up to Promise.allSettled.
Submit(k) ==
    /\ page = "add" /\ CanSubmit /\ PatsGiven
    /\ Pending(k) = {} /\ \A j \in 1..(k - 1) : Pending(j) # {}
    /\ Cardinality(rows) + Cardinality(calls) + Cardinality(SubmitScopes) <= MaxRows
    /\ calls' = calls \cup {Request(k, s) : s \in SubmitScopes}
    /\ form' = [form EXCEPT !.loading = TRUE]
    /\ here' = k
    /\ UNCHANGED <<rows, list, page>>

\* Slip: an answer for a form that was left releases the one on display.
SettleAny(k, results) ==
    /\ \E first \in results :
          LET target == IF \E c \in results : c.st = "ok" THEN "overview"
                        ELSE IF first.st = "named" THEN "runner" ELSE page
          IN  /\ page' = target
              /\ form' = IF target # "add" THEN EmptyForm ELSE [form EXCEPT !.loading = FALSE]
              /\ here' = IF target # "add" \/ here = k THEN 0 ELSE here
    /\ calls' = calls \ Pending(k)

\* Slip: only a success releases the form.
SettleOnSuccess(k, results) ==
    /\ page' = IF \E c \in results : c.st = "ok" THEN "overview" ELSE page
    /\ form' = IF page' = "add" THEN form ELSE EmptyForm
    /\ here' = IF page' = "add" THEN here ELSE 0
    /\ calls' = calls \ Pending(k)

\* handleSubmit after Promise.allSettled.  navigate works on whatever page the
\* browser shows by then; the hooks of an unmounted form take no effect.  The
\* first answer decides when all have failed.
Settle(k, results) ==
    /\ \E first \in results :
          LET target == IF \E c \in results : c.st = "ok" THEN "overview"
                        ELSE IF first.st = "named" THEN "runner" ELSE page
          IN  /\ page' = target
              /\ form' = IF target # "add" THEN EmptyForm
                         ELSE [form EXCEPT !.loading = @ /\ here # k]
              /\ here' = IF target # "add" \/ here = k THEN 0 ELSE here
    /\ calls' = calls \ Pending(k)

\* An answer reaches the browser.  The last one of its submission settles it.
Answer(c, st) ==
    LET others == Pending(c.sub) \ {c}
        answered == [c EXCEPT !.st = st]
    IN  IF \A d \in others : d.st # "sent"
        THEN Settle(c.sub, others \cup {answered})
        ELSE /\ calls' = (calls \ {c}) \cup {answered}
             /\ UNCHANGED <<page, form, here>>

-----------------------------------------------------------------------------
(* The server.  Nothing in the table keeps a scope and a mode unique.  The *)
(* time an answer travels counts as time its request took.                 *)

Insert(s, m) ==
    \E i \in 1..MaxRows :
        LET row == [url |-> s, mode |-> m, nth |-> i]
        IN  /\ row \notin rows /\ \A j \in 1..(i - 1) : [row EXCEPT !.nth = j] \in rows
            /\ rows' = rows \cup {row}

\* No row: the registration token is refused (the answer carries the name all
\* the same), the name is taken, or the request or the database fails.
Refuse(c) ==
    /\ c.st = "sent"
    /\ \/ Answer(c, "failed")
       \/ c.mode = "standalone" /\ Answer(c, "named")
    /\ UNCHANGED <<rows, list>>

\* The row is saved; then the runner starts, or does not, or the answer is lost.
Create(c) ==
    /\ c.st = "sent"
    /\ Insert(c.repo, c.mode)
    /\ \E st \in {"ok", "named", "failed"} : Answer(c, st)
    /\ UNCHANGED list

\* The second administrator.
OtherCreates ==
    /\ Cardinality(rows) + Cardinality(calls) < MaxRows
    /\ \E s \in Scopes, m \in Modes : Insert(s, m)
    /\ UNCHANGED <<list, page, form, here, calls>>

OtherDeletes ==
    /\ \E r \in rows : rows' = rows \ {r}
    /\ UNCHANGED <<list, page, form, here, calls>>

-----------------------------------------------------------------------------
Next ==
    \/ Revalidate \/ OpenForm \/ LeaveForm
    \/ SelectScopes \/ SetMode \/ SetPatType \/ EditPat
    \/ \E k \in Submissions : Submit(k)
    \/ \E c \in calls : Refuse(c) \/ Create(c)
    \/ OtherCreates \/ OtherDeletes

Spec == Init /\ [][Next]_vars

\* A request is answered in the end, or the browser gives up on it.
FairSpec ==
    /\ Spec
    /\ WF_vars(\E c \in calls : Refuse(c) \/ Create(c))
-----------------------------------------------------------------------------
(* Properties.                                                             *)

\* A scale set runner is requested with the token that was typed for its own
\* scope and is of the kind chosen at that moment, a standalone runner with
\* none, whatever was selected, typed and toggled before (the fields are shared
\* by scopes, both kinds are kept in one map, and what was typed survives every
\* change of the selection and of the kind).
CredentialsMatch ==
    [][\A c \in calls' \ calls : c.st = "sent" =>
          c.token = IF c.mode = "scaleset"
                    THEN <<form.patType, PatKey(form.patType, c.repo)>> ELSE NoToken]_vars

\* The form never asks for a runner that its own list already shows: a single
\* scope is sent with the mode it lacks, a scope of a batch is left out.
NoKnownTwin ==
    [][\A c \in calls' \ calls :
          c.st = "sent" => <<c.repo, c.mode>> \notin list]_vars

\* The submit button is blocked exactly while answers of the form on display are
\* outstanding: neither an answer for a form that was left nor the first answer
\* of a batch releases it.
LoadingIsOwn == form.loading <=> here # 0 /\ Pending(here) # {}

\* A blocked form is released: every submission ends.
LoadingEnds == form.loading ~> ~form.loading
=============================================================================
