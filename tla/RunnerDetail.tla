---------------------------- MODULE RunnerDetail ----------------------------
(***************************************************************************)
(* The page of a runner (web/src/pages/RunnerDetail.tsx) in one tab, with  *)
(* the guard in front of it (Session), the copies of the runners the tab   *)
(* keeps (SWR entries "runner:<name>") and the rows, which a second        *)
(* administrator changes as well.  How the requests interleave on the      *)
(* server is RunnerService; here a request is served in one step, and what *)
(* the managers make of a runner meanwhile shows only in the answers.      *)
(*                                                                         *)
(* The value of a field is the name of the runner it was entered for: that *)
(* is all the properties ask of it.                                        *)
(***************************************************************************)
EXTENDS Naturals, Session

CONSTANTS
    Names,       \* the runners
    ScaleSets,   \* those that are scale sets; the others are standalone
    OrgLevel,    \* those of an organization
    Fields,      \* a subset of {"pat", "max", "group", "labels"}
    NoRow, NoData, NoForm,
    Empty,       \* the value of a field that is empty
    MaxRequests  \* bound: requests under way

ASSUME RunnerDetailAssumption ==
    /\ ScaleSets \subseteq Names /\ OrgLevel \subseteq Names
    /\ "pat" \in Fields /\ Fields \subseteq {"pat", "max", "group", "labels"}
    /\ Names \cap {NoRow, NoData, NoForm, Empty, "overview", "callback"} = {}
    /\ MaxRequests \in Nat

VARIABLES
    rows,   \* the row of each runner
    page,   \* what the tab shows: the overview, the callback, or a runner
    data,   \* the copies the tab keeps
    form,   \* the hooks of the ConfigForm on display
    reqs    \* requests under way

vars == <<sessionVars, rows, page, data, form, reqs>>

Row  == [Fields -> Names \cup {Empty}]
\* use: can_manage is false, the runner is live, a standalone runner is
\* registered already, or none of these.
Copy == [use : {"foreign", "live", "retry", "edit"}, hasPat : BOOLEAN, vals : Row]
\* of is the key of the form, awaits the request its submit handler waits for.
Form == [of : Names, vals : Row, awaits : 0..MaxRequests]
\* by: whether the tab, as it is now loaded, waits for the answer.
Request == [id : 1..MaxRequests, name : Names, kind : {"update", "remove"},
            vals : Row, by : {"tab", "other"}]

TypeOK ==
    /\ SessionTypeOK
    /\ rows \in [Names -> Row \cup {NoRow}]
    /\ page \in Names \cup {"overview", "callback"}
    /\ data \in [Names -> Copy \cup {NoData}]
    /\ form \in Form \cup {NoForm}
    /\ form # NoForm => page \in Names /\ Open(guard) /\ data[page] # NoData
    /\ reqs \subseteq Request
    /\ \A r, q \in reqs : r.id = q.id => r = q

Init ==
    /\ SessionInit
    /\ rows = [n \in Names |-> NoRow]
    /\ page = "overview"
    /\ data = [n \in Names |-> NoData]
    /\ form = NoForm
    /\ reqs = {}

-----------------------------------------------------------------------------
(* What is displayed, and what is sent.                                    *)

Sendable(n) ==
    {f \in Fields : /\ f \in {"pat", "max"} => n \in ScaleSets
                    /\ f = "group" => n \in OrgLevel}

\* The initial hooks; the token is never sent to the browser.
Fresh(n, c) == [of |-> n, vals |-> [c.vals EXCEPT !["pat"] = Empty], awaits |-> 0]

\* Slip: the form has no key.
KeptAlways(f, n) == f # NoForm

\* React keeps the form as long as its key, the name of the runner, is the same.
Kept(f, n) == f # NoForm /\ f.of = n

\* Every step ends in a rendering: the form appears with the page's data, goes
\* with it, and starts anew when its key changes.
Render(f) ==
    form' = IF page' \in Names /\ Open(guard') /\ data'[page'] # NoData /\ data'[page'].use # "foreign"
            THEN IF Kept(f, page') THEN f ELSE Fresh(page', data'[page'])
            ELSE NoForm

\* A guarded page that is shut leads home, in the rendering that finds it so.
GoTo(p) == page' = IF p \in Names /\ Shut(guard') THEN "overview" ELSE p

-----------------------------------------------------------------------------
(* The tab.                                                                *)

\* A link, the back button, or an address.  RequireAuth mounts anew and asks.
Visit(p) ==
    /\ p # page
    /\ guard' = IF guard = Unknown /\ p \in Names THEN Loading ELSE guard
    /\ GoTo(p)
    /\ UNCHANGED <<cookies, stale, leaving, rows, data, reqs>>
    /\ Render(form)

\* GET /runners/{name}: when the page mounts, on focus, every five seconds and
\* after an update.  Only the interval and the mutation are sure to come.
Poll ==
    /\ page \in Names /\ Open(guard)
    /\ \E use \in {"foreign", "live", "retry", "edit"} :
          LET row  == rows[page]
              copy == [use |-> use, hasPat |-> row["pat"] # Empty, vals |-> [row EXCEPT !["pat"] = Empty]]
          IN  /\ use = "retry" => page \notin ScaleSets
              /\ data' = IF row = NoRow \/ ~SignedIn THEN data ELSE [data EXCEPT ![page] = copy]
    /\ page' = page
    /\ UNCHANGED <<sessionVars, rows, reqs>>
    /\ Render(form)

EditField(f) ==
    /\ form # NoForm /\ f \in Sendable(page) /\ data[page].use = "edit"
    /\ \E v \in {page, Empty} :
          /\ v # form.vals[f]
          /\ form' = [form EXCEPT !.vals[f] = v]
    /\ UNCHANGED <<sessionVars, rows, page, data, reqs>>

FreeId(i) == (\A r \in reqs : r.id # i) /\ \A j \in 1..(i - 1) : \E r \in reqs : r.id = j

\* The button is there and enabled.  The field of the token is required unless
\* there is a token.
CanSubmit ==
    /\ form # NoForm /\ form.awaits = 0 /\ data[page].use # "live"
    /\ page \in ScaleSets /\ ~data[page].hasPat => form.vals["pat"] # Empty

\* handleSubmit of the ConfigForm.
Submit(i) ==
    /\ CanSubmit
    /\ FreeId(i)
    /\ reqs' = reqs \cup {[id |-> i, name |-> page, kind |-> "update", by |-> "tab",
                           vals |-> [f \in Fields |-> IF f \in Sendable(page) THEN form.vals[f] ELSE Empty]]}
    /\ form' = [form EXCEPT !.awaits = i]
    /\ UNCHANGED <<sessionVars, rows, page, data>>

\* removeRunner, graceful or forced; the page may ask again before the answer.
Remove(i) ==
    /\ form # NoForm /\ FreeId(i)
    /\ reqs' = reqs \cup {[id |-> i, name |-> page, kind |-> "remove", by |-> "tab",
                           vals |-> [f \in Fields |-> Empty]]}
    /\ UNCHANGED <<sessionVars, rows, page, data, form>>

\* Slip: only a success reaches the end of the handler.
SettleOnSuccess(r, ok) == IF form # NoForm /\ form.awaits = r.id /\ ok
                          THEN [form EXCEPT !.awaits = 0] ELSE form

\* The finally of handleSubmit, if the form that submitted is still there.
Settle(r, ok) == IF form # NoForm /\ form.awaits = r.id THEN [form EXCEPT !.awaits = 0] ELSE form

\* The answer.  A removal that succeeded leads home, whatever is on display.
Answer(r, ok) ==
    /\ reqs' = reqs \ {r}
    /\ page' = IF r.by = "tab" /\ r.kind = "remove" /\ ok THEN "overview" ELSE page
    /\ UNCHANGED <<sessionVars, data>>
    /\ Render(IF r.by = "tab" THEN Settle(r, ok) ELSE form)

-----------------------------------------------------------------------------
(* The server.  What is refused: no cookie, no permission, no row, a       *)
(* runner that is live.                                                    *)

Refuse(r) == Answer(r, FALSE) /\ UNCHANGED rows

\* Columns keep their value unless a new one is given.
Updated(row, vals) == [f \in Fields |-> IF vals[f] = Empty THEN row[f] ELSE vals[f]]

\* The row is written; then the runner starts, or does not.
Update(r) ==
    /\ r.kind = "update" /\ rows[r.name] # NoRow
    /\ r.by = "tab" => SignedIn
    /\ rows' = [rows EXCEPT ![r.name] = Updated(@, r.vals)]
    /\ \E ok \in BOOLEAN : Answer(r, ok)

Delete(r) ==
    /\ r.kind = "remove" /\ rows[r.name] # NoRow
    /\ r.by = "tab" => SignedIn
    /\ rows' = [rows EXCEPT ![r.name] = NoRow]
    /\ \E ok \in BOOLEAN : Answer(r, ok)

\* The second administrator, from a page of his own.
OtherUpdates(n) ==
    /\ rows[n] # NoRow
    /\ \E vals \in [Fields -> {n, Empty}] :
          /\ \A f \in Fields \ Sendable(n) : vals[f] = Empty
          /\ rows' = [rows EXCEPT ![n] = Updated(@, vals)]
    /\ UNCHANGED <<sessionVars, page, data, form, reqs>>

OtherRemoves(n) ==
    /\ rows[n] # NoRow /\ rows' = [rows EXCEPT ![n] = NoRow]
    /\ UNCHANGED <<sessionVars, page, data, form, reqs>>

\* The form that adds runners asks for the token of a scale set (AddRunner).
OtherCreates(n) ==
    /\ rows[n] = NoRow
    /\ \E F \in SUBSET Sendable(n) :
          /\ n \in ScaleSets => "pat" \in F
          /\ rows' = [rows EXCEPT ![n] = [f \in Fields |-> IF f \in F THEN n ELSE Empty]]
    /\ UNCHANGED <<sessionVars, page, data, form, reqs>>

-----------------------------------------------------------------------------
(* The session, seen from the page.                                        *)

\* What the guard learns shows at once.
Guard ==
    /\ page \in Names
    /\ FetchGuard \/ MissGuard
    /\ GoTo(page)
    /\ UNCHANGED <<rows, data, reqs>>
    /\ Render(form)

SignOut(h) == page # "callback" /\ Logout(h) /\ UNCHANGED <<rows, page, data, form, reqs>>

\* handleLogin: the tab is loaded anew and waits for no answer any more.
SignIn ==
    /\ page # "callback" /\ Hosts # {}
    /\ page' = "callback" /\ Reload /\ UNCHANGED cookies
    /\ data' = [n \in Names |-> NoData] /\ form' = NoForm
    /\ reqs' = {[r EXCEPT !.by = "other"] : r \in reqs}
    /\ UNCHANGED rows

\* Success leads home; after a failure there is a button that does.
SignedInOrNot(h) ==
    /\ page = "callback"
    /\ Exchange(h)
    /\ page' = "overview"
    /\ UNCHANGED <<rows, data, form, reqs>>

Elsewhere == CookiesChange /\ UNCHANGED <<rows, page, data, form, reqs>>

Next ==
    \/ \E p \in Names \cup {"overview"} : page # "callback" /\ Visit(p)
    \/ Poll
    \/ \E f \in Fields : EditField(f)
    \/ \E i \in 1..MaxRequests : Submit(i) \/ Remove(i)
    \/ \E r \in reqs : Refuse(r) \/ Update(r) \/ Delete(r)
    \/ \E n \in Names : OtherUpdates(n) \/ OtherRemoves(n) \/ OtherCreates(n)
    \/ Guard \/ SignIn \/ Elsewhere
    \/ \E h \in Hosts : SignOut(h) \/ SignedInOrNot(h)

Spec == Init /\ [][Next]_vars
-----------------------------------------------------------------------------
(* Properties.                                                             *)

\* What is stored for a runner was entered for it, and a scale set never loses
\* its token: although the tab goes from one runner to another while the form is
\* filled in and answers are outstanding, and empty fields are sent.
ValuesAreOwn ==
    \A n \in Names : rows[n] # NoRow =>
        /\ \A f \in Fields : rows[n][f] \in {n, Empty}
        /\ n \in ScaleSets => rows[n]["pat"] = n

\* A form is blocked only by a request of its own that is under way: it is released
\* by every answer, and by no answer to a form that was left, although requests
\* outlive the form, the page and the tab.
BlockedByOwn ==
    form # NoForm /\ form.awaits # 0 =>
        \E r \in reqs : /\ r.id = form.awaits /\ r.by = "tab"
                       /\ r.kind = "update" /\ r.name = form.of

\* A tab that signed out of its last host shows no guarded page for long: the
\* guard, which never polls, has been told to ask again, or has not asked yet.
SignedOutIsNoticed == leaving /\ page \in Names => stale \/ guard = Loading
=============================================================================
