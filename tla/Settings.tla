------------------------------ MODULE Settings ------------------------------
(***************************************************************************)
(* The limits of the worker pool: the page that edits them                 *)
(* (web/src/pages/Settings.tsx), the handler that saves them               *)
(* (pkg/dashboard/handlers_settings.go), the rows they are kept in and the *)
(* limits the orchestrator works with, which are read from the rows only   *)
(* when the process starts (app.go).  A fetch is two queries and a save    *)
(* three steps, and several saves are served at the same time.             *)
(***************************************************************************)
EXTENDS Integers

CONSTANTS
    Requests,            \* saves that may be under way together
    DefaultMaxWorkers,   \* main.go; the migration inserts the same number
    Numbers,             \* bound: the numbers that are typed
    NoRequest,
    Faults               \* "write": an upsert fails, also because the browser has gone;
                         \* "read": a query of a fetch fails

Pairs == [max : Int, warm : Int]
Steps == {"max", "warm", "apply"}
Puts  == [sent : Pairs, at : Steps, own : BOOLEAN, sound : BOOLEAN]

ASSUME SettingsAssumption ==
    /\ DefaultMaxWorkers \in Nat \ {0} /\ Numbers \subseteq Int
    /\ NoRequest \notin Puts /\ NoRequest \notin Int

VARIABLES
    rows,      \* the table settings
    limits,    \* maxWorkers and warmWorkersConfig of the orchestrator
    filled,    \* the page has fetched the numbers
    form,      \* what its fields show
    seen,      \* the max_workers that the fetch under way has read, or NoRequest
    put,       \* the saves under way: what was sent, the step that comes, whether
               \* the page waits for it; sound: alone, in range and stored so far
    settled    \* history: the last save that was applied was sound

pageVars     == <<filled, form, seen>>
settingsVars == <<rows, limits, pageVars, put, settled>>

Pair(max, warm) == [max |-> max, warm |-> warm]

\* Only numbers in range are stored.
InRange(p) == p.max > 0 /\ p.warm >= 0

Clamp(p) == Pair(p.max, IF p.warm > p.max THEN p.max ELSE p.warm)

\* NewApp: what a start makes of the rows.
Recovered ==
    Clamp(Pair(IF rows.max > 0 THEN rows.max ELSE DefaultMaxWorkers,
               IF rows.warm >= 0 THEN rows.warm ELSE 0))

\* What the field makes of what is typed: 0 and no number at all are 1.
MaxTyped(n) == IF n = 0 THEN 1 ELSE n

SettingsInit ==
    /\ rows = Pair(DefaultMaxWorkers, 0)
    /\ limits = Recovered
    /\ filled = FALSE /\ form = Pair(0, 0) /\ seen = NoRequest
    /\ put = [q \in Requests |-> NoRequest]
    /\ settled = TRUE

-----------------------------------------------------------------------------
\* What a query of a column answers: a failure, which is ignored, is a 0.
Queried(n) == {n} \cup {zero \in {0} : "read" \in Faults}

\* GET /settings is two queries, and a save may come in between.
FetchSettings ==
    /\ seen = NoRequest
    /\ seen' \in Queried(rows.max)
    /\ UNCHANGED <<rows, limits, filled, form, put, settled>>

\* The second query, and the answer.  The fields are filled again unless the
\* numbers are those that the page has already.
FillFields ==
    /\ seen # NoRequest /\ seen' = NoRequest
    /\ \/ \E warm \in Queried(rows.warm) : form' = Pair(seen, warm)
       \/ filled /\ form' = form
    /\ filled' = TRUE
    /\ UNCHANGED <<rows, limits, put, settled>>

\* The page is loaded anew: what is under way is forgotten.  A page that is left
\* for another and opened again does the same and keeps its answer, as if this
\* were followed by a fetch.
Reopen ==
    /\ filled' = FALSE /\ form' = Pair(0, 0) /\ seen' = NoRequest
    /\ put' = [q \in Requests |-> IF put[q] = NoRequest THEN NoRequest
                                  ELSE [put[q] EXCEPT !.own = FALSE]]
    /\ UNCHANGED <<rows, limits, settled>>

EditLimit ==
    /\ filled
    /\ \E n \in Numbers : form' \in {[form EXCEPT !.max = MaxTyped(n)], [form EXCEPT !.warm = n]}
    /\ UNCHANGED <<rows, limits, filled, seen, put, settled>>

\* A request arrives: it is alone if no other is under way, and no other stays alone.
Arrive(q, numbers, own) ==
    /\ put[q] = NoRequest
    /\ put' = [p \in Requests |->
                 IF p = q THEN [sent |-> numbers, at |-> "max", own |-> own,
                                sound |-> InRange(numbers) /\ \A o \in Requests : put[o] = NoRequest]
                 ELSE IF put[p] = NoRequest THEN NoRequest
                 ELSE [put[p] EXCEPT !.sound = FALSE]]
    /\ UNCHANGED <<rows, limits, pageVars, settled>>

Saving == \E q \in Requests : put[q] # NoRequest /\ put[q].own

\* Slip: the button waits for a save, not for the first answer.
CanSaveUnfilled == ~Saving

CanSave == ~Saving /\ filled

Save(q) == CanSave /\ Arrive(q, form, TRUE)

\* The page in another tab, which fills and edits its fields in the same way.
OtherSaves(q) == \E m, w \in Numbers : Arrive(q, Pair(MaxTyped(m), w), FALSE)

Under(q, step) == put[q] # NoRequest /\ put[q].at = step

\* An upsert that fails is ignored.
StoreFails(q, next) ==
    /\ "write" \in Faults
    /\ put' = [put EXCEPT ![q].at = next, ![q].sound = FALSE]
    /\ UNCHANGED rows

UpsertMax(q) ==
    /\ Under(q, "max")
    /\ \/ /\ rows' = IF put[q].sent.max > 0 THEN [rows EXCEPT !.max = put[q].sent.max] ELSE rows
          /\ put' = [put EXCEPT ![q].at = "warm"]
       \/ StoreFails(q, "warm")
    /\ UNCHANGED <<limits, pageVars, settled>>

\* Slip: zero is taken for "not given".
UpsertWarmPositive(q) ==
    /\ Under(q, "warm")
    /\ rows' = IF put[q].sent.warm > 0 THEN [rows EXCEPT !.warm = put[q].sent.warm] ELSE rows
    /\ put' = [put EXCEPT ![q].at = "apply"]
    /\ UNCHANGED <<limits, pageVars, settled>>

UpsertWarm(q) ==
    /\ Under(q, "warm")
    /\ \/ /\ rows' = IF put[q].sent.warm >= 0 THEN [rows EXCEPT !.warm = put[q].sent.warm] ELSE rows
          /\ put' = [put EXCEPT ![q].at = "apply"]
       \/ StoreFails(q, "apply")
    /\ UNCHANGED <<limits, pageVars, settled>>

\* The orchestrator takes the numbers as they are, and the answer goes out.
Apply(q) ==
    /\ Under(q, "apply")
    /\ limits' = put[q].sent
    /\ settled' = put[q].sound
    /\ put' = [put EXCEPT ![q] = NoRequest]
    /\ UNCHANGED <<rows, pageVars>>

\* The process stops and starts: the requests under way fail where they are.
RestartApp ==
    /\ limits' = Recovered
    /\ settled' = TRUE
    /\ put' = [q \in Requests |-> NoRequest] /\ seen' = NoRequest
    /\ UNCHANGED <<rows, filled, form>>

SettingsNext ==
    \/ FetchSettings \/ FillFields \/ Reopen \/ EditLimit \/ RestartApp
    \/ \E q \in Requests :
          Save(q) \/ OtherSaves(q) \/ UpsertMax(q) \/ UpsertWarm(q) \/ Apply(q)

SettingsSpec == SettingsInit /\ [][SettingsNext]_settingsVars

-----------------------------------------------------------------------------
SettingsTypeOK ==
    /\ rows \in Pairs /\ limits \in Pairs /\ form \in Pairs
    /\ put \in [Requests -> Puts \cup {NoRequest}]
    /\ seen \in Int \cup {NoRequest}
    /\ filled \in BOOLEAN /\ settled \in BOOLEAN

\* No save is between its first upsert and the orchestrator.
AtRest == \A q \in Requests : put[q] # NoRequest => put[q].at = "max"

\* The limits in force are those a restart would find, whenever the last save
\* was served alone, posted numbers in range and was stored.
LimitsSurviveRestart == settled /\ AtRest => Clamp(limits) = Recovered

\* The page never sets max_workers to 0, which its fields hold before they are
\* filled: the orchestrator would not boot a worker again.
MaxIsNeverZero == limits.max # 0
=============================================================================
