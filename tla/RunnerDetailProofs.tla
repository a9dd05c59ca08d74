------------------------- MODULE RunnerDetailProofs -------------------------
(***************************************************************************)
(* What TLAPS proves of the page of a runner, for any number of runners,   *)
(* fields, hosts and requests: the types, that values never cross from one *)
(* runner to another, that a form is blocked by its own request alone, and *)
(* that the guard is told when the tab signs out.                          *)
(***************************************************************************)
EXTENDS RunnerDetail, TLAPS

\* The copies hold values of their runner.
DataOwn ==
    \A n \in Names : data[n] # NoData => \A f \in Fields : data[n].vals[f] \in {n, Empty}

\* So does a request.
ReqsOwn == \A r \in reqs : \A f \in Fields : r.vals[f] \in {r.name, Empty}

\* The form on display is the form of the page.
FormOwn ==
    form # NoForm => form.of = page /\ \A f \in Fields : form.vals[f] \in {page, Empty}

Own == ValuesAreOwn /\ DataOwn /\ ReqsOwn /\ FormOwn

\* The tab signed out of its last host, and the guard knows it or is told to ask.
Noticed == leaving => Hosts # {} /\ (stale \/ guard = {})

\* While the callback exchanges the code nobody signs out of this tab.
AtCallback == page = "callback" => ~leaving

Distinct == \A r, q \in reqs : r.id = q.id => r = q

RestOK ==
    /\ SessionTypeOK /\ AtCallback
    /\ rows \in [Names -> Row \cup {NoRow}]
    /\ page \in Names \cup {"overview", "callback"}
    /\ data \in [Names -> Copy \cup {NoData}]

ReqsOK == reqs \subseteq Request /\ Distinct

FormOK ==
    /\ form \in Form \cup {NoForm}
    /\ form # NoForm => page \in Names /\ Open(guard) /\ data[page] # NoData

-----------------------------------------------------------------------------
(* Rows and forms.                                                         *)

\* What a rendering displays, as a function of what it is given: the form there
\* was, the page, what the guard knows, and the copy of the page's runner.
Shown(f, p, g, c) ==
    IF p \in Names /\ Open(g) /\ c # NoData /\ c.use # "foreign"
    THEN IF Kept(f, p) THEN f ELSE Fresh(p, c)
    ELSE NoForm

\* A row without its token.
LEMMA Tokenless ==
  ASSUME NEW row \in Row
  PROVE  /\ [row EXCEPT !["pat"] = Empty] \in Row
         /\ \A f \in Fields : [row EXCEPT !["pat"] = Empty][f] \in {row[f], Empty}
BY RunnerDetailAssumption DEF Row

\* A row after an update.
LEMMA UpdatedRow ==
  ASSUME NEW row \in Row, NEW vals \in Row
  PROVE  /\ Updated(row, vals) \in Row
         /\ \A f \in Fields : Updated(row, vals)[f] = IF vals[f] = Empty THEN row[f] ELSE vals[f]
BY DEF Updated, Row

\* A new form.
LEMMA FreshForm ==
  ASSUME NEW p \in Names, NEW c \in Copy
  PROVE  /\ Fresh(p, c) \in Form /\ Fresh(p, c).of = p /\ Fresh(p, c).awaits = 0
         /\ \A x \in Fields : Fresh(p, c).vals[x] \in {c.vals[x], Empty}
<1>1. 0 \in 0..MaxRequests
  BY RunnerDetailAssumption
<1>2. c.vals \in Row
  BY DEF Copy
<1>3. [c.vals EXCEPT !["pat"] = Empty] \in Row
  BY <1>2, Tokenless
<1>4. \A x \in Fields : [c.vals EXCEPT !["pat"] = Empty][x] \in {c.vals[x], Empty}
  BY <1>2, Tokenless
<1> QED
  BY <1>1, <1>3, <1>4 DEF Fresh, Form

\* The form that is displayed is the one there was, or a new one of the page.
LEMMA ShownForm ==
  ASSUME NEW f \in Form \cup {NoForm}, NEW p \in Names, NEW g, NEW c \in Copy \cup {NoData}
  PROVE  /\ Shown(f, p, g, c) \in Form \cup {NoForm}
         /\ Shown(f, p, g, c) # NoForm =>
              /\ Open(g) /\ c # NoData
              /\ Shown(f, p, g, c).of = p
              /\ (Shown(f, p, g, c) = f /\ f # NoForm) \/ Shown(f, p, g, c) = Fresh(p, c)
BY FreshForm DEF Shown, Kept

\* A form that was released.
LEMMA Settled ==
  ASSUME FormOK, NEW r, NEW ok
  PROVE  /\ Settle(r, ok) \in Form \cup {NoForm}
         /\ Settle(r, ok) # NoForm =>
              /\ form # NoForm
              /\ Settle(r, ok).of = form.of /\ Settle(r, ok).vals = form.vals
              /\ \/ Settle(r, ok).awaits = 0
                 \/ Settle(r, ok).awaits = form.awaits /\ form.awaits # r.id
<1>1. 0 \in 0..MaxRequests
  BY RunnerDetailAssumption
<1> QED
  BY <1>1 DEF Settle, FormOK, Form

-----------------------------------------------------------------------------
(* Types.                                                                  *)

\* The initial state.
LEMMA InitType == Init => RestOK /\ ReqsOK /\ FormOK
BY DEF Init, SessionInit, RestOK, SessionTypeOK, AtCallback, ReqsOK, Distinct, FormOK

\* An answer changes neither the rows nor the session.
LEMMA AnswerRest ==
  ASSUME RestOK, NEW r \in reqs, NEW ok, Answer(r, ok), rows' \in [Names -> Row \cup {NoRow}]
  PROVE  RestOK'
BY DEF RestOK, SessionTypeOK, AtCallback, Answer, sessionVars

\* Every step keeps the types of the session, the rows, the page and the copies.
LEMMA StepRest == RestOK /\ ReqsOK /\ FormOK /\ [Next]_vars => RestOK'
<1> SUFFICES ASSUME RestOK, ReqsOK, FormOK, [Next]_vars PROVE RestOK'
  OBVIOUS
<1>1. ASSUME NEW p \in Names \cup {"overview"}, page # "callback", Visit(p) PROVE RestOK'
  BY <1>1, RunnerDetailAssumption DEF RestOK, SessionTypeOK, AtCallback, Visit, GoTo
<1>2. ASSUME Poll PROVE RestOK'
  <2>1. PICK use \in {"foreign", "live", "retry", "edit"} :
          LET copy == [use |-> use, hasPat |-> rows[page]["pat"] # Empty,
                       vals |-> [rows[page] EXCEPT !["pat"] = Empty]]
          IN  data' = IF rows[page] = NoRow \/ ~SignedIn THEN data ELSE [data EXCEPT ![page] = copy]
    BY <1>2 DEF Poll
  <2>2. page \in Names /\ page' = page /\ UNCHANGED <<sessionVars, rows>>
    BY <1>2 DEF Poll
  <2>3. rows[page] # NoRow => [rows[page] EXCEPT !["pat"] = Empty] \in Row
    BY <2>2, Tokenless DEF RestOK
  <2>4. data' \in [Names -> Copy \cup {NoData}]
    BY <2>1, <2>3 DEF RestOK, Copy
  <2> QED
    BY <2>2, <2>4 DEF RestOK, SessionTypeOK, AtCallback, sessionVars
<1>3. ASSUME NEW r \in reqs, Refuse(r) PROVE RestOK'
  BY <1>3, AnswerRest DEF Refuse, RestOK
<1>4. ASSUME NEW r \in reqs, Update(r) PROVE RestOK'
  <2>1. rows[r.name] \in Row /\ r.vals \in Row
    BY <1>4 DEF Update, RestOK, ReqsOK, Request
  <2>2. rows' \in [Names -> Row \cup {NoRow}]
    BY <1>4, <2>1, UpdatedRow DEF Update, RestOK
  <2> QED
    BY <1>4, <2>2, AnswerRest DEF Update
<1>5. ASSUME NEW r \in reqs, Delete(r) PROVE RestOK'
  BY <1>5, AnswerRest DEF Delete, RestOK
<1>6. ASSUME NEW n \in Names, OtherUpdates(n) PROVE RestOK'
  <2>1. rows[n] \in Row
    BY <1>6 DEF OtherUpdates, RestOK
  <2>2. PICK vals \in [Fields -> {n, Empty}] : rows' = [rows EXCEPT ![n] = Updated(@, vals)]
    BY <1>6 DEF OtherUpdates
  <2>3. Updated(rows[n], vals) \in Row
    BY <2>1, UpdatedRow DEF Row
  <2>4. rows' \in [Names -> Row \cup {NoRow}]
    BY <2>2, <2>3 DEF RestOK
  <2> QED
    BY <1>6, <2>4 DEF OtherUpdates, RestOK, SessionTypeOK, AtCallback, sessionVars
<1>7. ASSUME NEW n \in Names, OtherRemoves(n) \/ OtherCreates(n) PROVE RestOK'
  BY <1>7 DEF OtherRemoves, OtherCreates, RestOK, SessionTypeOK, AtCallback, sessionVars, Row
<1>8. ASSUME Guard PROVE RestOK'
  <2>1. page' \in Names \cup {"overview"} /\ UNCHANGED <<rows, data, cookies, leaving>>
    BY <1>8 DEF Guard, FetchGuard, MissGuard, GoTo
  <2>2. SessionTypeOK'
    BY <1>8, <2>1 DEF Guard, FetchGuard, MissGuard, RestOK, SessionTypeOK
  <2> QED
    BY <2>1, <2>2, RunnerDetailAssumption DEF RestOK, AtCallback
<1>9. ASSUME SignIn PROVE RestOK'
  BY <1>9, RunnerDetailAssumption DEF SignIn, Reload, RestOK, SessionTypeOK, AtCallback
<1>10. ASSUME Elsewhere PROVE RestOK'
  BY <1>10 DEF Elsewhere, CookiesChange, RestOK, SessionTypeOK, AtCallback
<1>11. ASSUME NEW h \in Hosts, SignOut(h) PROVE RestOK'
  <2>1. CASE UNCHANGED sessionVars
    BY <1>11, <2>1 DEF SignOut, sessionVars, RestOK, SessionTypeOK, AtCallback
  <2>2. CASE cookies' \in {cookies \ {h}, cookies} /\ leaving' = (cookies' = {}) /\ stale' = TRUE /\ guard' = guard
    <3>1. leaving' \in BOOLEAN /\ (leaving' => cookies' = {})
      BY <2>2
    <3>2. cookies' \subseteq Hosts
      BY <2>2 DEF RestOK, SessionTypeOK
    <3> QED
      BY <1>11, <2>2, <3>1, <3>2 DEF SignOut, RestOK, SessionTypeOK, AtCallback
  <2> QED
    BY <1>11, <2>1, <2>2 DEF SignOut, Logout
<1>12. ASSUME NEW h \in Hosts, SignedInOrNot(h) PROVE RestOK'
  BY <1>12 DEF SignedInOrNot, Exchange, RestOK, SessionTypeOK, AtCallback
<1>13. ASSUME \/ \E f \in Fields : EditField(f)
              \/ \E i \in 1..MaxRequests : Submit(i) \/ Remove(i)
              \/ UNCHANGED vars
       PROVE RestOK'
  BY <1>13 DEF EditField, Submit, CanSubmit, Remove, vars, sessionVars, RestOK, SessionTypeOK, AtCallback
<1> QED
  BY <1>1, <1>2, <1>3, <1>4, <1>5, <1>6, <1>7, <1>8, <1>9, <1>10, <1>11, <1>12, <1>13 DEF Next

\* Every step keeps the requests typed and apart.
LEMMA StepReqs == RestOK /\ ReqsOK /\ FormOK /\ [Next]_vars => ReqsOK'
<1> SUFFICES ASSUME RestOK, ReqsOK, FormOK, [Next]_vars PROVE ReqsOK'
  OBVIOUS
<1>1. ASSUME NEW r \in reqs, reqs' = reqs \ {r} PROVE ReqsOK'
  BY <1>1 DEF ReqsOK, Distinct
<1>2. ASSUME NEW new \in Request, \A r \in reqs : r.id # new.id, reqs' = reqs \cup {new}
      PROVE  ReqsOK'
  BY <1>2 DEF ReqsOK, Distinct
<1>3. ASSUME NEW i \in 1..MaxRequests, Submit(i) PROVE ReqsOK'
  <2> DEFINE vals == [f \in Fields |-> IF f \in Sendable(page) THEN form.vals[f] ELSE Empty]
             new  == [id |-> i, name |-> page, kind |-> "update", by |-> "tab", vals |-> vals]
  <2>1. page \in Names /\ form \in Form
    BY <1>3 DEF Submit, CanSubmit, FormOK
  <2>2. vals \in Row
    BY <2>1 DEF Form, Row
  <2>3. new \in Request /\ new.id = i
    BY <2>1, <2>2 DEF Request
  <2>4. reqs' = reqs \cup {new} /\ \A r \in reqs : r.id # i
    BY <1>3 DEF Submit, CanSubmit, FreeId
  <2> HIDE DEF new
  <2> QED
    BY <1>2, <2>3, <2>4
<1>4. ASSUME NEW i \in 1..MaxRequests, Remove(i) PROVE ReqsOK'
  <2> DEFINE new == [id |-> i, name |-> page, kind |-> "remove", by |-> "tab",
                     vals |-> [f \in Fields |-> Empty]]
  <2>1. page \in Names
    BY <1>4 DEF Remove, FormOK
  <2>2. new \in Request /\ new.id = i
    BY <2>1 DEF Request, Row
  <2>3. reqs' = reqs \cup {new} /\ \A r \in reqs : r.id # i
    BY <1>4 DEF Remove, FreeId
  <2> HIDE DEF new
  <2> QED
    BY <1>2, <2>2, <2>3
<1>5. ASSUME NEW r \in reqs, Refuse(r) \/ Update(r) \/ Delete(r) PROVE ReqsOK'
  BY <1>1, <1>5 DEF Refuse, Update, Delete, Answer
<1>6. ASSUME SignIn PROVE ReqsOK'
  <2> DEFINE Mark(r) == [r EXCEPT !.by = "other"]
  <2>1. \A r \in reqs : Mark(r) \in Request /\ Mark(r).id = r.id
    BY DEF ReqsOK, Request
  <2>2. reqs' = {Mark(r) : r \in reqs}
    BY <1>6 DEF SignIn
  <2> HIDE DEF Mark
  <2>3. ASSUME NEW x \in reqs', NEW y \in reqs', x.id = y.id PROVE x = y
    <3>1. PICK r \in reqs, q \in reqs : x = Mark(r) /\ y = Mark(q)
      BY <2>2
    <3> QED
      BY <2>1, <2>3, <3>1 DEF ReqsOK, Distinct
  <2> QED
    BY <2>1, <2>2, <2>3 DEF ReqsOK, Distinct
<1>7. ASSUME \/ \E p \in Names \cup {"overview"} : Visit(p)
             \/ Poll \/ Guard \/ Elsewhere \/ UNCHANGED vars
             \/ \E f \in Fields : EditField(f)
             \/ \E n \in Names : OtherUpdates(n) \/ OtherRemoves(n) \/ OtherCreates(n)
             \/ \E h \in Hosts : SignOut(h) \/ SignedInOrNot(h)
      PROVE ReqsOK'
  <2>1. reqs' = reqs
    BY <1>7 DEF Visit, Poll, Guard, Elsewhere, vars, EditField, OtherUpdates, OtherRemoves,
                OtherCreates, SignOut, SignedInOrNot
  <2> QED
    BY <2>1 DEF ReqsOK, Distinct
<1> QED
  BY <1>3, <1>4, <1>5, <1>6, <1>7 DEF Next

\* Every step keeps the form typed, and shown where it belongs.
LEMMA StepForm == RestOK /\ ReqsOK /\ FormOK /\ [Next]_vars => FormOK'
<1> SUFFICES ASSUME RestOK, ReqsOK, FormOK, [Next]_vars PROVE FormOK'
  OBVIOUS
<1>1. RestOK'
  BY StepRest
<1>2. ASSUME (\E p \in Names \cup {"overview"} : Visit(p)) \/ Poll \/ Guard PROVE FormOK'
  <2>1. PICK c : c = data'[page']
    OBVIOUS
  <2>2. form' = Shown(form, page', guard', c)
    BY <1>2, <2>1 DEF Visit, Poll, Guard, Render, Shown
  <2>3. form \in Form \cup {NoForm}
    BY DEF FormOK
  <2>4. CASE page' \in Names
    <3>1. c \in Copy \cup {NoData}
      BY <1>1, <2>1, <2>4 DEF RestOK
    <3>2. form' \in Form \cup {NoForm} /\ (form' # NoForm => Open(guard') /\ c # NoData)
      BY <2>2, <2>3, <2>4, <3>1, ShownForm
    <3>3. form' # NoForm => data'[page'] # NoData
      BY <2>1, <3>2
    <3> QED
      BY <2>4, <3>2, <3>3 DEF FormOK, Open, Shut
  <2>5. CASE page' \notin Names
    BY <2>2, <2>5 DEF Shown, FormOK
  <2> QED
    BY <2>4, <2>5
<1>3. ASSUME NEW r \in reqs, Refuse(r) \/ Update(r) \/ Delete(r) PROVE FormOK'
  <2>1. PICK c : c = data'[page']
    OBVIOUS
  <2>2. PICK f \in {form} \cup {Settle(r, ok) : ok \in BOOLEAN} : form' = Shown(f, page', guard', c)
    BY <1>3, <2>1 DEF Refuse, Update, Delete, Answer, Render, Shown
  <2>3. f \in Form \cup {NoForm}
    BY Settled DEF FormOK
  <2>4. CASE page' \in Names
    <3>1. c \in Copy \cup {NoData}
      BY <1>1, <2>1, <2>4 DEF RestOK
    <3>2. form' \in Form \cup {NoForm} /\ (form' # NoForm => Open(guard') /\ c # NoData)
      BY <2>2, <2>3, <2>4, <3>1, ShownForm
    <3>3. form' # NoForm => data'[page'] # NoData
      BY <2>1, <3>2
    <3> QED
      BY <2>4, <3>2, <3>3 DEF FormOK, Open, Shut
  <2>5. CASE page' \notin Names
    BY <2>2, <2>5 DEF Shown, FormOK
  <2> QED
    BY <2>4, <2>5
<1>4. ASSUME NEW f \in Fields, EditField(f) PROVE FormOK'
  <2>1. PICK v \in {page, Empty} : form' = [form EXCEPT !.vals[f] = v]
    BY <1>4 DEF EditField
  <2>2. form \in Form /\ page \in Names /\ UNCHANGED <<guard, page, data>>
    BY <1>4 DEF EditField, FormOK, sessionVars
  <2>3. form' \in Form
    BY <2>1, <2>2 DEF Form, Row
  <2> QED
    BY <1>4, <2>2, <2>3 DEF EditField, FormOK
<1>5. ASSUME NEW i \in 1..MaxRequests, Submit(i) PROVE FormOK'
  <2>1. form \in Form /\ form' = [form EXCEPT !.awaits = i] /\ UNCHANGED <<guard, page, data>>
    BY <1>5 DEF Submit, CanSubmit, FormOK, sessionVars
  <2>2. i \in 0..MaxRequests
    BY RunnerDetailAssumption
  <2>3. form' \in Form
    BY <2>1, <2>2 DEF Form
  <2> QED
    BY <1>5, <2>1, <2>3 DEF Submit, CanSubmit, FormOK
<1>6. ASSUME SignIn PROVE FormOK'
  BY <1>6 DEF SignIn, FormOK
<1>7. ASSUME \/ Elsewhere \/ UNCHANGED vars
             \/ \E i \in 1..MaxRequests : Remove(i)
             \/ \E n \in Names : OtherUpdates(n) \/ OtherRemoves(n) \/ OtherCreates(n)
             \/ \E h \in Hosts : SignOut(h)
      PROVE FormOK'
  <2>1. UNCHANGED <<guard, page, data, form>>
    BY <1>7 DEF Elsewhere, CookiesChange, vars, sessionVars, Remove, OtherUpdates, OtherRemoves,
                OtherCreates, SignOut, Logout
  <2> QED
    BY <2>1 DEF FormOK
<1>8. ASSUME NEW h \in Hosts, SignedInOrNot(h) PROVE FormOK'
  BY <1>8, RunnerDetailAssumption DEF SignedInOrNot, FormOK
<1> QED
  BY <1>2, <1>3, <1>4, <1>5, <1>6, <1>7, <1>8 DEF Next

Types == RestOK /\ ReqsOK /\ FormOK

LEMMA TypesHold == Spec => []Types
<1>1. Init => Types
  BY InitType DEF Types
<1>2. Types /\ [Next]_vars => Types'
  BY StepRest, StepReqs, StepForm DEF Types
<1> QED
  BY <1>1, <1>2, PTL DEF Spec

\* The types; a form is on display only on an open page with its data.
THEOREM TypeCorrect == Spec => []TypeOK
<1>1. Types => TypeOK
  BY DEF Types, RestOK, ReqsOK, Distinct, FormOK, TypeOK
<1> QED
  BY <1>1, TypesHold, PTL

-----------------------------------------------------------------------------
(* Values.                                                                 *)

\* The form that is displayed has values of the page, if the one there was and the
\* copy have values of their runner.
LEMMA ShownOwn ==
  ASSUME NEW f \in Form \cup {NoForm}, NEW p \in Names, NEW g, NEW c \in Copy \cup {NoData},
         f # NoForm => \A x \in Fields : f.vals[x] \in {f.of, Empty},
         c # NoData => \A x \in Fields : c.vals[x] \in {p, Empty},
         Shown(f, p, g, c) # NoForm
  PROVE  /\ Shown(f, p, g, c).of = p
         /\ \A x \in Fields : Shown(f, p, g, c).vals[x] \in {p, Empty}
<1>1. /\ c # NoData /\ Shown(f, p, g, c).of = p
      /\ (Shown(f, p, g, c) = f /\ f # NoForm) \/ Shown(f, p, g, c) = Fresh(p, c)
  BY ShownForm
<1>2. c \in Copy /\ \A x \in Fields : Fresh(p, c).vals[x] \in {c.vals[x], Empty}
  BY <1>1, FreshForm
<1> QED
  BY <1>1, <1>2

\* The copies.
LEMMA StepData == Types /\ Own /\ [Next]_vars => DataOwn'
<1> SUFFICES ASSUME Types, Own, [Next]_vars PROVE DataOwn'
  OBVIOUS
<1>1. ASSUME Poll PROVE DataOwn'
  <2>1. PICK use \in {"foreign", "live", "retry", "edit"} :
          LET copy == [use |-> use, hasPat |-> rows[page]["pat"] # Empty,
                       vals |-> [rows[page] EXCEPT !["pat"] = Empty]]
          IN  data' = IF rows[page] = NoRow \/ ~SignedIn THEN data ELSE [data EXCEPT ![page] = copy]
    BY <1>1 DEF Poll
  <2>2. page \in Names
    BY <1>1 DEF Poll
  <2>3. ASSUME rows[page] # NoRow
        PROVE  \A f \in Fields : [rows[page] EXCEPT !["pat"] = Empty][f] \in {page, Empty}
    <3>1. rows[page] \in Row /\ \A f \in Fields : rows[page][f] \in {page, Empty}
      BY <2>2, <2>3 DEF Types, RestOK, Own, ValuesAreOwn
    <3> QED
      BY <3>1, Tokenless
  <2> QED
    BY <2>1, <2>2, <2>3 DEF Types, RestOK, Own, DataOwn
<1>2. ASSUME SignIn PROVE DataOwn'
  BY <1>2 DEF SignIn, DataOwn
<1>3. ASSUME data' = data PROVE DataOwn'
  BY <1>3 DEF Own, DataOwn
<1>4. Poll \/ SignIn \/ data' = data
  BY DEF Next, vars, Visit, EditField, Submit, CanSubmit, Remove, Refuse, Update, Delete, Answer,
         OtherUpdates, OtherRemoves, OtherCreates, Guard, Elsewhere, SignOut, SignedInOrNot
<1> QED
  BY <1>1, <1>2, <1>3, <1>4

\* The requests.
LEMMA StepReqsOwn == Types /\ Own /\ [Next]_vars => ReqsOwn'
<1> SUFFICES ASSUME Types, Own, [Next]_vars PROVE ReqsOwn'
  OBVIOUS
<1>1. ASSUME NEW i \in 1..MaxRequests, Submit(i) PROVE ReqsOwn'
  <2> DEFINE vals == [f \in Fields |-> IF f \in Sendable(page) THEN form.vals[f] ELSE Empty]
             new  == [id |-> i, name |-> page, kind |-> "update", by |-> "tab", vals |-> vals]
  <2>1. reqs' = reqs \cup {new}
    BY <1>1 DEF Submit, CanSubmit
  <2>2. \A f \in Fields : form.vals[f] \in {page, Empty}
    BY <1>1 DEF Submit, CanSubmit, Own, FormOwn
  <2>3. \A f \in Fields : new.vals[f] \in {new.name, Empty}
    BY <2>2
  <2> HIDE DEF new
  <2> QED
    BY <2>1, <2>3 DEF Own, ReqsOwn
<1>2. ASSUME NEW i \in 1..MaxRequests, Remove(i) PROVE ReqsOwn'
  <2> DEFINE new == [id |-> i, name |-> page, kind |-> "remove", by |-> "tab",
                     vals |-> [f \in Fields |-> Empty]]
  <2>1. reqs' = reqs \cup {new}
    BY <1>2 DEF Remove
  <2>2. \A f \in Fields : new.vals[f] \in {new.name, Empty}
    OBVIOUS
  <2> HIDE DEF new
  <2> QED
    BY <2>1, <2>2 DEF Own, ReqsOwn
<1>3. ASSUME SignIn PROVE ReqsOwn'
  <2> DEFINE Mark(r) == [r EXCEPT !.by = "other"]
  <2>1. \A r \in reqs : Mark(r).vals = r.vals /\ Mark(r).name = r.name
    BY DEF Types, ReqsOK, Request
  <2>2. reqs' = {Mark(r) : r \in reqs}
    BY <1>3 DEF SignIn
  <2> HIDE DEF Mark
  <2> QED
    BY <2>1, <2>2 DEF Own, ReqsOwn
<1>4. ASSUME reqs' \subseteq reqs PROVE ReqsOwn'
  BY <1>4 DEF Own, ReqsOwn
<1>5. SignIn \/ (\E i \in 1..MaxRequests : Submit(i) \/ Remove(i)) \/ reqs' \subseteq reqs
  BY DEF Next, vars, Visit, Poll, EditField, Refuse, Update, Delete, Answer, OtherUpdates,
         OtherRemoves, OtherCreates, Guard, Elsewhere, SignOut, SignedInOrNot
<1> QED
  BY <1>1, <1>2, <1>3, <1>4, <1>5

\* The rows.  An update keeps the token unless it brings one of the same runner.
LEMMA StepRows == Types /\ Own /\ [Next]_vars => ValuesAreOwn'
<1> SUFFICES ASSUME Types, Own, [Next]_vars PROVE ValuesAreOwn'
  OBVIOUS
<1> DEFINE RowOwn(n, row) ==
             row # NoRow => /\ \A f \in Fields : row[f] \in {n, Empty}
                            /\ n \in ScaleSets => row["pat"] = n
<1>1. /\ rows \in [Names -> Row \cup {NoRow}] /\ \A n \in Names : RowOwn(n, rows[n])
      /\ "pat" \in Fields /\ Empty \notin Names
  BY RunnerDetailAssumption DEF Types, RestOK, Own, ValuesAreOwn
<1>2. ASSUME NEW n \in Names, NEW row, RowOwn(n, row), rows' = [rows EXCEPT ![n] = row]
      PROVE  ValuesAreOwn'
  BY <1>1, <1>2 DEF ValuesAreOwn
<1>3. ASSUME NEW n \in Names, NEW vals \in Row, rows[n] # NoRow,
             \A f \in Fields : vals[f] \in {n, Empty},
             rows' = [rows EXCEPT ![n] = Updated(@, vals)]
      PROVE  ValuesAreOwn'
  <2>1. rows[n] \in Row
    BY <1>1, <1>3
  <2>2. RowOwn(n, Updated(rows[n], vals))
    BY <1>1, <1>3, <2>1, UpdatedRow
  <2> HIDE DEF RowOwn
  <2> QED
    BY <1>1, <1>2, <1>3, <2>2
<1>4. ASSUME NEW r \in reqs, Update(r) PROVE ValuesAreOwn'
  <2>1. r.name \in Names /\ r.vals \in Row
    BY DEF Types, ReqsOK, Request
  <2>2. /\ rows[r.name] # NoRow /\ rows' = [rows EXCEPT ![r.name] = Updated(@, r.vals)]
        /\ \A f \in Fields : r.vals[f] \in {r.name, Empty}
    BY <1>4 DEF Update, Own, ReqsOwn
  <2> QED
    BY <1>3, <2>1, <2>2
<1>5. ASSUME NEW n \in Names, OtherUpdates(n) PROVE ValuesAreOwn'
  <2>1. PICK vals \in [Fields -> {n, Empty}] : rows' = [rows EXCEPT ![n] = Updated(@, vals)]
    BY <1>5 DEF OtherUpdates
  <2>2. vals \in Row /\ rows[n] # NoRow /\ \A f \in Fields : vals[f] \in {n, Empty}
    BY <1>5 DEF OtherUpdates, Row
  <2> QED
    BY <1>3, <2>1, <2>2
<1>6. ASSUME NEW n \in Names, OtherCreates(n) PROVE ValuesAreOwn'
  <2>1. PICK F \in SUBSET Sendable(n) :
          /\ n \in ScaleSets => "pat" \in F
          /\ rows' = [rows EXCEPT ![n] = [f \in Fields |-> IF f \in F THEN n ELSE Empty]]
    BY <1>6 DEF OtherCreates
  <2>2. RowOwn(n, [f \in Fields |-> IF f \in F THEN n ELSE Empty])
    BY <1>1, <2>1
  <2> HIDE DEF RowOwn
  <2> QED
    BY <1>2, <2>1, <2>2
<1>7. ASSUME NEW n \in Names, rows' = [rows EXCEPT ![n] = NoRow] PROVE ValuesAreOwn'
  BY <1>2, <1>7
<1>8. ASSUME rows' = rows PROVE ValuesAreOwn'
  BY <1>8 DEF Own, ValuesAreOwn
<1>9. \A r \in reqs : Delete(r) => r.name \in Names /\ rows' = [rows EXCEPT ![r.name] = NoRow]
  BY DEF Delete, Types, ReqsOK, Request
<1>10. \A n \in Names : OtherRemoves(n) => rows' = [rows EXCEPT ![n] = NoRow]
  BY DEF OtherRemoves
<1>11. \/ rows' = rows
       \/ \E r \in reqs : Update(r) \/ Delete(r)
       \/ \E n \in Names : OtherUpdates(n) \/ OtherRemoves(n) \/ OtherCreates(n)
  BY DEF Next, vars, Visit, Poll, EditField, Submit, CanSubmit, Remove, Refuse, Guard, SignIn, Elsewhere,
         SignOut, SignedInOrNot
<1> QED
  BY <1>4, <1>5, <1>6, <1>7, <1>8, <1>9, <1>10, <1>11

\* A rendering shows values of the page.
LEMMA RenderOwn ==
  ASSUME NEW f \in Form \cup {NoForm}, NEW p, NEW g, NEW c,
         p \in Names => c \in Copy \cup {NoData},
         f # NoForm => \A x \in Fields : f.vals[x] \in {f.of, Empty},
         p \in Names /\ c # NoData => \A x \in Fields : c.vals[x] \in {p, Empty}
  PROVE  Shown(f, p, g, c) # NoForm =>
           /\ Shown(f, p, g, c).of = p
           /\ \A x \in Fields : Shown(f, p, g, c).vals[x] \in {p, Empty}
<1>1. CASE p \in Names
  BY <1>1, ShownOwn
<1>2. CASE p \notin Names
  BY <1>2 DEF Shown
<1> QED
  BY <1>1, <1>2

\* The form on display.
LEMMA StepFormOwn == Types /\ Own /\ [Next]_vars => FormOwn'
<1> SUFFICES ASSUME Types, Own, [Next]_vars PROVE FormOwn'
  OBVIOUS
<1>1. RestOK' /\ DataOwn' /\ FormOK /\ FormOwn
  BY StepRest, StepData DEF Types, Own
<1>2. ASSUME NEW f \in Form \cup {NoForm}, f # NoForm => \A x \in Fields : f.vals[x] \in {f.of, Empty},
             NEW c, c = data'[page'], form' = Shown(f, page', guard', c)
      PROVE  FormOwn'
  <2>1. page' \in Names => c \in Copy \cup {NoData}
    BY <1>1, <1>2 DEF RestOK
  <2>2. page' \in Names /\ c # NoData => \A x \in Fields : c.vals[x] \in {page', Empty}
    BY <1>1, <1>2 DEF DataOwn
  <2>3. form' # NoForm => form'.of = page' /\ \A x \in Fields : form'.vals[x] \in {page', Empty}
    BY <1>2, <2>1, <2>2, RenderOwn
  <2> QED
    BY <2>3 DEF FormOwn
<1>3. ASSUME (\E p \in Names \cup {"overview"} : Visit(p)) \/ Poll \/ Guard PROVE FormOwn'
  <2>1. PICK f, c : /\ f = form /\ c = data'[page']
                    /\ form' = Shown(f, page', guard', c)
    BY <1>3 DEF Visit, Poll, Guard, Render, Shown
  <2> QED
    BY <1>1, <1>2, <2>1 DEF FormOK, FormOwn
<1>4. ASSUME NEW r \in reqs, Refuse(r) \/ Update(r) \/ Delete(r) PROVE FormOwn'
  <2>1. PICK f, c : /\ f \in {form} \cup {Settle(r, ok) : ok \in BOOLEAN} /\ c = data'[page']
                    /\ form' = Shown(f, page', guard', c)
    BY <1>4 DEF Refuse, Update, Delete, Answer, Render, Shown
  <2>2. f \in Form \cup {NoForm}
    BY <1>1, <2>1, Settled DEF FormOK
  <2>3. f # NoForm => form # NoForm /\ f.of = form.of /\ f.vals = form.vals
    BY <1>1, <2>1, Settled
  <2>4. f # NoForm => \A x \in Fields : f.vals[x] \in {f.of, Empty}
    BY <1>1, <2>3 DEF FormOwn
  <2> QED
    BY <1>2, <2>1, <2>2, <2>4
<1>5. ASSUME NEW f \in Fields, EditField(f) PROVE FormOwn'
  <2>1. PICK v \in {page, Empty} : form' = [form EXCEPT !.vals[f] = v]
    BY <1>5 DEF EditField
  <2>2. form \in Form /\ page' = page
    BY <1>1, <1>5 DEF EditField, FormOK
  <2>3. form'.of = form.of /\ \A x \in Fields : form'.vals[x] \in {v, form.vals[x]}
    BY <2>1, <2>2 DEF Form, Row
  <2> QED
    BY <1>1, <1>5, <2>2, <2>3 DEF FormOwn, EditField
<1>6. ASSUME NEW i \in 1..MaxRequests, Submit(i) PROVE FormOwn'
  <2>1. form \in Form /\ form # NoForm /\ form' = [form EXCEPT !.awaits = i] /\ page' = page
    BY <1>1, <1>6 DEF Submit, CanSubmit, FormOK
  <2>2. form'.of = form.of /\ form'.vals = form.vals
    BY <2>1 DEF Form
  <2> QED
    BY <1>1, <2>1, <2>2 DEF FormOwn
<1>7. ASSUME form' = NoForm \/ UNCHANGED <<form, page>> PROVE FormOwn'
  BY <1>1, <1>7 DEF FormOwn
<1>8. ASSUME NEW h \in Hosts, SignedInOrNot(h) PROVE FormOwn'
  BY <1>1, <1>8, RunnerDetailAssumption DEF SignedInOrNot, FormOK, FormOwn
<1>9. \/ form' = NoForm \/ UNCHANGED <<form, page>>
      \/ (\E p \in Names \cup {"overview"} : Visit(p)) \/ Poll \/ Guard
      \/ \E f \in Fields : EditField(f)
      \/ \E i \in 1..MaxRequests : Submit(i)
      \/ \E r \in reqs : Refuse(r) \/ Update(r) \/ Delete(r)
      \/ \E h \in Hosts : SignedInOrNot(h)
  BY DEF Next, vars, Remove, OtherUpdates, OtherRemoves, OtherCreates, SignIn, Elsewhere, SignOut
<1> QED
  BY <1>3, <1>4, <1>5, <1>6, <1>7, <1>8, <1>9

\* What is stored for a runner was entered for it, and a scale set keeps a token
\* (UpdateRunner writes what is given; the page has one form per runner).
THEOREM ValuesStayOwn == Spec => []ValuesAreOwn
<1>1. Init => Own
  BY DEF Init, Own, ValuesAreOwn, DataOwn, ReqsOwn, FormOwn
<1>2. Types /\ Own /\ [Next]_vars => Own'
  BY StepData, StepReqsOwn, StepRows, StepFormOwn DEF Own
<1>3. Own => ValuesAreOwn
  BY DEF Own
<1> QED
  BY <1>1, <1>2, <1>3, TypesHold, PTL DEF Spec

-----------------------------------------------------------------------------
(* Blocked forms.                                                          *)

\* The request a form waits for.
Awaited(r, i, n) == r.id = i /\ r.by = "tab" /\ r.kind = "update" /\ r.name = n

\* Every step keeps the request of a blocked form under way.
LEMMA StepBlocked == Types /\ FormOwn /\ BlockedByOwn /\ [Next]_vars => BlockedByOwn'
<1> SUFFICES ASSUME Types, FormOwn, BlockedByOwn, [Next]_vars PROVE BlockedByOwn'
  OBVIOUS
<1>1. RestOK' /\ FormOK /\ Distinct /\ reqs \subseteq Request
  BY StepRest DEF Types, ReqsOK
<1>2. form # NoForm /\ form.awaits # 0 => \E r \in reqs : Awaited(r, form.awaits, form.of)
  BY DEF BlockedByOwn, Awaited
<1>3. ASSUME NEW f \in Form \cup {NoForm},
             f # NoForm /\ f.awaits # 0 => \E r \in reqs' : Awaited(r, f.awaits, f.of),
             NEW c, c = data'[page'], form' = Shown(f, page', guard', c)
      PROVE  BlockedByOwn'
  <2>1. page' \in Names => c \in Copy \cup {NoData}
    BY <1>1, <1>3 DEF RestOK
  <2>2. form' # NoForm => (form' = f /\ f # NoForm) \/ form'.awaits = 0
    <3>1. ASSUME page' \in Names, form' # NoForm
          PROVE  (form' = f /\ f # NoForm) \/ form'.awaits = 0
      <4>1. c \in Copy \cup {NoData} /\ form' = Shown(f, page', guard', c)
        BY <1>3, <2>1, <3>1
      <4>2. c # NoData /\ ((form' = f /\ f # NoForm) \/ form' = Fresh(page', c))
        BY <3>1, <4>1, ShownForm
      <4> QED
        BY <3>1, <4>1, <4>2, FreshForm
    <3>2. ASSUME page' \notin Names PROVE form' = NoForm
      BY <1>3, <3>2 DEF Shown
    <3> QED
      BY <3>1, <3>2
  <2> QED
    BY <1>3, <2>2 DEF BlockedByOwn, Awaited
<1>4. ASSUME (\E p \in Names \cup {"overview"} : Visit(p)) \/ Poll \/ Guard PROVE BlockedByOwn'
  <2>1. PICK f, c : /\ f = form /\ c = data'[page']
                    /\ form' = Shown(f, page', guard', c)
    BY <1>4 DEF Visit, Poll, Guard, Render, Shown
  <2>2. reqs' = reqs
    BY <1>4 DEF Visit, Poll, Guard
  <2> QED
    BY <1>1, <1>2, <1>3, <2>1, <2>2 DEF FormOK
<1>5. ASSUME NEW r \in reqs, Refuse(r) \/ Update(r) \/ Delete(r) PROVE BlockedByOwn'
  <2>0. PICK ok \in BOOLEAN : Answer(r, ok)
    BY <1>5 DEF Refuse, Update, Delete
  <2>1. PICK f, c : /\ f = IF r.by = "tab" THEN Settle(r, ok) ELSE form
                    /\ c = data'[page'] /\ form' = Shown(f, page', guard', c)
    BY <2>0 DEF Answer, Render, Shown
  <2>2. reqs' = reqs \ {r}
    BY <1>5 DEF Refuse, Update, Delete, Answer
  <2>3. f \in Form \cup {NoForm}
    BY <1>1, <2>1, Settled DEF FormOK
  <2>4. ASSUME f # NoForm, f.awaits # 0
        PROVE  \E q \in reqs' : Awaited(q, f.awaits, f.of)
    <3>1. form # NoForm /\ f.of = form.of /\ f.awaits = form.awaits
          /\ (r.by = "tab" => form.awaits # r.id)
      BY <1>1, <2>1, <2>4, Settled
    <3>2. PICK q \in reqs : Awaited(q, form.awaits, form.of)
      BY <1>2, <2>4, <3>1
    <3>3. q # r
      BY <3>1, <3>2 DEF Awaited
    <3> QED
      BY <2>2, <3>1, <3>2, <3>3
  <2> QED
    BY <1>3, <2>1, <2>3, <2>4
<1>6. ASSUME NEW i \in 1..MaxRequests, Submit(i) PROVE BlockedByOwn'
  <2> DEFINE new == [id |-> i, name |-> page, kind |-> "update", by |-> "tab",
                     vals |-> [f \in Fields |-> IF f \in Sendable(page) THEN form.vals[f] ELSE Empty]]
  <2>1. form \in Form /\ form # NoForm /\ form' = [form EXCEPT !.awaits = i] /\ reqs' = reqs \cup {new}
    BY <1>1, <1>6 DEF Submit, CanSubmit, FormOK
  <2>2. form'.of = page /\ form'.awaits = i
    BY <2>1 DEF Form, FormOwn
  <2>3. Awaited(new, i, page) /\ new \in reqs'
    BY <2>1 DEF Awaited
  <2> HIDE DEF new
  <2> QED
    BY <2>2, <2>3 DEF BlockedByOwn, Awaited
<1>7. ASSUME NEW f \in Fields, EditField(f) PROVE BlockedByOwn'
  <2>1. PICK v \in {page, Empty} : form' = [form EXCEPT !.vals[f] = v]
    BY <1>7 DEF EditField
  <2>2. form # NoForm /\ form \in Form /\ reqs' = reqs
    BY <1>1, <1>7 DEF EditField, FormOK
  <2>3. form'.of = form.of /\ form'.awaits = form.awaits
    BY <2>1, <2>2 DEF Form
  <2> QED
    BY <1>2, <2>2, <2>3 DEF BlockedByOwn, Awaited
<1>8. ASSUME form' = form, reqs \subseteq reqs' PROVE BlockedByOwn'
  BY <1>2, <1>8 DEF BlockedByOwn, Awaited
<1>9. ASSUME form' = NoForm PROVE BlockedByOwn'
  BY <1>9 DEF BlockedByOwn
<1>10. \/ form' = NoForm \/ (form' = form /\ reqs \subseteq reqs')
       \/ (\E p \in Names \cup {"overview"} : Visit(p)) \/ Poll \/ Guard
       \/ \E f \in Fields : EditField(f)
       \/ \E i \in 1..MaxRequests : Submit(i)
       \/ \E r \in reqs : Refuse(r) \/ Update(r) \/ Delete(r)
  BY DEF Next, vars, Remove, OtherUpdates, OtherRemoves, OtherCreates, SignIn, Elsewhere, SignOut,
         SignedInOrNot
<1> QED
  BY <1>4, <1>5, <1>6, <1>7, <1>8, <1>9, <1>10

\* A form is blocked only while its own request is under way (the finally of
\* handleSubmit, in a form that may be gone when the answer comes).
THEOREM OnlyOwnRequestsBlock == Spec => []BlockedByOwn
<1>1. Init => Own /\ BlockedByOwn
  BY DEF Init, Own, ValuesAreOwn, DataOwn, ReqsOwn, FormOwn, BlockedByOwn
<1>2. Types /\ Own /\ BlockedByOwn /\ [Next]_vars => (Own /\ BlockedByOwn)'
  BY StepData, StepReqsOwn, StepRows, StepFormOwn, StepBlocked DEF Own
<1> QED
  BY <1>1, <1>2, TypesHold, PTL DEF Spec

-----------------------------------------------------------------------------
(* Signing out.                                                            *)

\* A tab that signed out of its last host shows no guarded page for long: the
\* guard, which never polls, is told to ask (handleLogout) or has not asked yet.
THEOREM SigningOutIsNoticed == Spec => []SignedOutIsNoticed
<1> DEFINE Inv == Noticed /\ (page \in Names => ~Shut(guard))
<1>0. Loading # {} /\ Unknown # {}
  <2>1. {} \in SUBSET Hosts
    OBVIOUS
  <2> QED
    BY <2>1, SessionAssumption
<1>1. Init => Inv
  BY RunnerDetailAssumption DEF Init, SessionInit, Noticed
<1>2. Types /\ Inv /\ [Next]_vars => Inv'
  <2> SUFFICES ASSUME Types, Inv, [Next]_vars PROVE Inv'
    OBVIOUS
  <2>1. ASSUME NEW p \in Names \cup {"overview"}, Visit(p) PROVE Inv'
    <3>1. Noticed'
      BY <1>0, <2>1 DEF Visit, Noticed
    <3>2. page' \in Names => ~Shut(guard')
      BY <2>1, RunnerDetailAssumption DEF Visit, GoTo
    <3> QED
      BY <3>1, <3>2 DEF Shut
  <2>2. ASSUME Guard PROVE Inv'
    <3>1. ASSUME FetchGuard PROVE Noticed'
      BY <3>1 DEF FetchGuard, Noticed, Types, RestOK, SessionTypeOK
    <3>2. ASSUME MissGuard PROVE Noticed'
      BY <1>0, <3>2 DEF MissGuard, Noticed
    <3>3. page' \in Names => ~Shut(guard')
      BY <2>2, RunnerDetailAssumption DEF Guard, GoTo
    <3> QED
      BY <2>2, <3>1, <3>2, <3>3 DEF Guard, Shut
  <2>3. ASSUME SignIn PROVE Inv'
    BY <2>3, RunnerDetailAssumption DEF SignIn, Reload, Noticed
  <2>4. ASSUME Elsewhere PROVE Inv'
    BY <2>4 DEF Elsewhere, CookiesChange, Noticed
  <2>5. ASSUME NEW h \in Hosts, SignOut(h) PROVE Inv'
    BY <2>5 DEF SignOut, Logout, sessionVars, Noticed
  <2>6. ASSUME NEW h \in Hosts, SignedInOrNot(h) PROVE Inv'
    BY <2>6, RunnerDetailAssumption DEF SignedInOrNot, Exchange, Noticed
  <2>7. ASSUME UNCHANGED sessionVars, page' \in {page, "overview"} PROVE Inv'
    BY <2>7, RunnerDetailAssumption DEF sessionVars, Noticed
  <2>8. \/ (\E p \in Names \cup {"overview"} : Visit(p)) \/ Guard \/ SignIn \/ Elsewhere
        \/ \E h \in Hosts : SignOut(h) \/ SignedInOrNot(h)
        \/ UNCHANGED sessionVars /\ page' \in {page, "overview"}
    BY DEF Next, vars, Poll, EditField, Submit, CanSubmit, Remove, Refuse, Update, Delete, Answer,
           OtherUpdates, OtherRemoves, OtherCreates
  <2> QED
    BY <2>1, <2>2, <2>3, <2>4, <2>5, <2>6, <2>7, <2>8
<1>3. Inv => SignedOutIsNoticed
  BY DEF Noticed, Shut, SignedOutIsNoticed
<1> QED
  BY <1>1, <1>2, <1>3, TypesHold, PTL DEF Spec

=============================================================================
