-------------------------- MODULE AddRunnerProofs --------------------------
(***************************************************************************)
(* Proofs about AddRunner, for any scopes, hosts and owners, any number of *)
(* rows and any number of submissions under way.  The types are enough for *)
(* what a submission asks for; the credentials rest on what the fields     *)
(* hold (FieldsAreOwn); LoadingIsOwn is inductive together with the types. *)
(***************************************************************************)
EXTENDS AddRunner, FiniteSetTheorems, TLAPS

-----------------------------------------------------------------------------
(* What the form derives from its state.                                   *)

\* Each mode has another one.
LEMMA OtherModeIsOther ==
    ASSUME NEW m \in Modes
    PROVE  OtherMode(m) \in Modes \ {m}
<1>1. \E o \in Modes : o # m
  BY DEF Modes
<1> QED  BY <1>1 DEF OtherMode

LEMMA DisplayModeTyped == TypeOK => DisplayMode \in Modes
BY OtherModeIsOther DEF TypeOK, Form, DisplayMode, EffectiveMode

\* A selection that is not a batch has one scope.
LEMMA SingleScope ==
    ASSUME TypeOK, form.sel # {}, ~IsBatch
    PROVE  Cardinality(form.sel) = 1 /\ \E s \in Scopes : form.sel = {s}
<1>1. IsFiniteSet(form.sel)
  BY AddRunnerAssumption, FS_Subset DEF TypeOK, Form
<1>2. Cardinality(form.sel) \in Nat /\ Cardinality(form.sel) # 0
  BY <1>1, FS_CardinalityType, FS_EmptySet
<1>3. Cardinality(form.sel) = 1
  BY <1>2 DEF IsBatch
<1>4. \E s : form.sel = {s}
  BY <1>1, <1>3, FS_Singleton
<1> QED  BY <1>3, <1>4 DEF TypeOK, Form

\* Whatever can be submitted names a scope ...
LEMMA SubmitsSomething ==
    ASSUME CanSubmit
    PROVE  SubmitScopes # {} /\ SubmitScopes \subseteq form.sel
BY DEF CanSubmit, SubmitScopes, IgnoredScopes

\* ... and only pairs of a scope and a mode that the list does not show.
LEMMA SubmitsUnlisted ==
    ASSUME TypeOK, CanSubmit, NEW s \in SubmitScopes
    PROVE  <<s, DisplayMode>> \notin list
<1>1. CASE IsBatch
  BY <1>1 DEF TypeOK, Form, SubmitScopes, IgnoredScopes, DisplayMode, ScopeModes
<1>2. CASE ~IsBatch
  <2>1. PICK one \in Scopes : form.sel = {one} /\ Cardinality(form.sel) = 1
    BY <1>2, SingleScope DEF CanSubmit
  <2>2. s = one
    BY <2>1 DEF SubmitScopes
  <2>3. SingleModes = ScopeModes(s)
    BY <2>1, <2>2 DEF SingleModes
  <2>4. DisplayMode = EffectiveMode /\ EffectiveMode \notin SingleModes
    <3>1. form.mode \in Modes /\ OtherMode(form.mode) \in Modes \ {form.mode}
      BY OtherModeIsOther DEF TypeOK, Form
    <3>2. SingleModes # Modes /\ SingleModes \subseteq Modes
      BY <2>3 DEF CanSubmit, IsSingleMaximized, ScopeModes
    <3> QED  BY <1>2, <3>1, <3>2 DEF DisplayMode, EffectiveMode, IsSingleMaximized, Modes
  <2> QED  BY <2>3, <2>4, DisplayModeTyped DEF ScopeModes
<1> QED  BY <1>1, <1>2

-----------------------------------------------------------------------------
(* Types.                                                                  *)

LEMMA EmptyFormTyped == EmptyForm \in Form
BY DEF EmptyForm, Form, Modes, PatTypes

LEMMA InitTyped == Init => TypeOK
BY EmptyFormTyped DEF Init, TypeOK

LEMMA RequestTyped ==
    ASSUME TypeOK, NEW k \in Submissions, NEW s \in Scopes
    PROVE  Request(k, s) \in Call
<1> DEFINE key == PatKey(form.patType, s)
<1>1. key \in Keys
  BY DEF TypeOK, Form, Keys
<1> HIDE DEF key
<1>2. form.pats[key] # NoToken => <<form.pats[key], key>> \in Tokens
  BY <1>1 DEF TypeOK, Form, Tokens
<1> QED  BY <1>2, DisplayModeTyped DEF Request, Call, key

LEMMA AnswerTyped ==
    ASSUME TypeOK, NEW c \in calls, NEW st \in {"ok", "failed", "named"}, Answer(c, st)
    PROVE  /\ page' \in {"overview", "add", "runner"}
           /\ form' \in Form /\ here' \in Submissions \cup {0}
           /\ calls' \subseteq Call
<1> DEFINE answered == [c EXCEPT !.st = st]
<1>1. answered \in Call
  BY DEF TypeOK, Call
<1>2. EmptyForm \in Form
  BY EmptyFormTyped
<1>3. \A b \in BOOLEAN : [form EXCEPT !.loading = b] \in Form
  BY DEF TypeOK, Form
<1>4. ASSUME NEW results \in SUBSET Call, Settle(c.sub, results)
      PROVE  /\ page' \in {"overview", "add", "runner"}
             /\ form' \in Form /\ here' \in Submissions \cup {0}
             /\ calls' \subseteq Call
  <2>1. (form.loading /\ here # c.sub) \in BOOLEAN
    OBVIOUS
  <2> QED  BY <1>2, <1>3, <1>4, <2>1 DEF Settle, TypeOK, Pending
<1>5. (Pending(c.sub) \ {c}) \cup {answered} \in SUBSET Call
  BY <1>1 DEF TypeOK, Pending
<1> QED  BY <1>1, <1>4, <1>5 DEF Answer, TypeOK

LEMMA InsertTyped ==
    ASSUME TypeOK, NEW s \in Scopes, NEW m \in Modes, Insert(s, m)
    PROVE  rows' \subseteq Row
BY DEF Insert, TypeOK, Row

LEMMA NextTyped == TypeOK /\ [Next]_vars => TypeOK'
<1> SUFFICES ASSUME TypeOK, [Next]_vars PROVE TypeOK'
  OBVIOUS
<1>1. CASE Revalidate
  BY <1>1 DEF Revalidate, TypeOK, Row
<1>2. CASE OpenForm
  BY <1>2 DEF OpenForm, TypeOK
<1>3. CASE LeaveForm
  BY <1>3, EmptyFormTyped DEF LeaveForm, TypeOK
<1>4. CASE SelectScopes
  BY <1>4 DEF SelectScopes, Edit, TypeOK, Form
<1>5. CASE SetMode
  BY <1>5 DEF SetMode, Edit, TypeOK, Form
<1>6. CASE SetPatType
  BY <1>6 DEF SetPatType, Edit, TypeOK, Form
<1>7. CASE EditPat
  <2>1. form.patType \in PatTypes
    BY DEF TypeOK, Form
  <2> QED  BY <1>7, <2>1 DEF EditPat, Edit, TypeOK, Form
<1>8. ASSUME NEW k \in Submissions, Submit(k) PROVE TypeOK'
  <2>1. \A s \in SubmitScopes : Request(k, s) \in Call
    BY RequestTyped DEF SubmitScopes, TypeOK, Form
  <2> QED  BY <1>8, <2>1 DEF Submit, TypeOK, Form
<1>9. ASSUME NEW c \in calls, Refuse(c) PROVE TypeOK'
  BY <1>9, AnswerTyped DEF Refuse, TypeOK
<1>10. ASSUME NEW c \in calls, Create(c) PROVE TypeOK'
  <2>1. c.repo \in Scopes /\ c.mode \in Modes
    BY DEF TypeOK, Call
  <2> QED  BY <1>10, <2>1, AnswerTyped, InsertTyped DEF Create, TypeOK
<1>11. CASE OtherCreates
  BY <1>11, InsertTyped DEF OtherCreates, TypeOK
<1>12. CASE OtherDeletes
  BY <1>12 DEF OtherDeletes, TypeOK
<1>13. CASE UNCHANGED vars
  BY <1>13 DEF vars, TypeOK
<1> QED
  BY <1>1, <1>2, <1>3, <1>4, <1>5, <1>6, <1>7, <1>8, <1>9, <1>10, <1>11, <1>12, <1>13 DEF Next

\* Every reachable state of the form, the requests and the table is typed.
THEOREM TypeCorrect == Spec => []TypeOK
BY InitTyped, NextTyped, PTL DEF Spec

-----------------------------------------------------------------------------
(* What an answer does, said once for the invariants that follow.          *)

\* The requests that are left are those that were there, or the answered one.
LEMMA AnswerKeeps ==
    ASSUME TypeOK, NEW c \in calls, NEW st \in {"ok", "failed", "named"}, Answer(c, st)
    PROVE  calls' \subseteq calls \cup {[c EXCEPT !.st = st]}
BY DEF Answer, Settle

LEMMA SubmitAdds ==
    ASSUME NEW k \in Submissions, Submit(k)
    PROVE  calls' = calls \cup {Request(k, s) : s \in SubmitScopes}
BY DEF Submit

\* Only a submission and an answer change the requests.
LEMMA OtherStepsKeepCalls ==
    ASSUME [Next]_vars
    PROVE  \/ calls' = calls
           \/ \E k \in Submissions : Submit(k)
           \/ \E c \in calls, st \in {"ok", "failed", "named"} : Answer(c, st)
BY DEF Next, vars, Revalidate, OpenForm, LeaveForm, SelectScopes, SetMode, SetPatType, EditPat,
       Edit, OtherCreates, OtherDeletes, Refuse, Create

-----------------------------------------------------------------------------
(* Credentials.                                                            *)

\* The two kinds of tokens have no key in common.
LEMMA KeysDiffer ==
    ASSUME NEW s \in Scopes, NEW t \in Scopes
    PROVE  PatKey("classic", s) # PatKey("fine-grained", t)
BY AddRunnerAssumption DEF PatKey, ScopeType

\* A field holds a token of its own kind: inductive with the types.
FieldsAreOwn ==
    \A s \in Scopes, t \in PatTypes : form.pats[PatKey(t, s)] \in {t, NoToken}

LEMMA EmptyFieldsAreOwn == \A s \in Scopes, t \in PatTypes : EmptyForm.pats[PatKey(t, s)] = NoToken
BY DEF EmptyForm, Keys

\* Typing into a field leaves the fields of the other kind alone.
LEMMA TypingKeepsFields ==
    ASSUME TypeOK, FieldsAreOwn, EditPat
    PROVE  FieldsAreOwn'
<1>1. PICK k \in PatInputs : \E typed \in {form.patType, NoToken} :
             form' = [form EXCEPT !.pats[k] = typed]
  BY DEF EditPat, Edit
<1>2. PICK typed \in {form.patType, NoToken} : form' = [form EXCEPT !.pats[k] = typed]
  BY <1>1
<1>3. PICK own \in Scopes : k = PatKey(form.patType, own)
  BY <1>1 DEF PatInputs, TypeOK, Form
<1>4. k \in Keys /\ form.patType \in PatTypes
  BY <1>3 DEF TypeOK, Form, Keys
<1>5. form'.pats = [form.pats EXCEPT ![k] = typed]
  BY <1>2 DEF TypeOK, Form
<1>6. ASSUME NEW s \in Scopes, NEW t \in PatTypes
      PROVE  form'.pats[PatKey(t, s)] \in {t, NoToken}
  <2>1. PatKey(t, s) \in Keys
    BY DEF Keys
  <2>2. CASE PatKey(t, s) = k
    <3>1. t = form.patType
      BY <1>3, <1>4, <2>2, KeysDiffer DEF PatTypes
    <3> QED  BY <1>4, <1>5, <2>2, <3>1 DEF TypeOK, Form
  <2>3. CASE PatKey(t, s) # k
    BY <1>5, <2>1, <2>3 DEF TypeOK, Form, FieldsAreOwn
  <2> QED  BY <2>2, <2>3
<1> QED  BY <1>6 DEF FieldsAreOwn

LEMMA FieldsKept == TypeOK /\ FieldsAreOwn /\ [Next]_vars => FieldsAreOwn'
<1> SUFFICES ASSUME TypeOK, FieldsAreOwn, [Next]_vars PROVE FieldsAreOwn'
  OBVIOUS
<1>1. CASE form'.pats = form.pats
  BY <1>1 DEF FieldsAreOwn
<1>2. CASE form' = EmptyForm
  BY <1>2, EmptyFieldsAreOwn DEF FieldsAreOwn
<1>3. ASSUME NEW c \in calls, NEW st \in {"ok", "failed", "named"}, Answer(c, st)
      PROVE  form' = EmptyForm \/ form'.pats = form.pats
  <2>1. \/ form' = EmptyForm \/ form' = form
        \/ form' = [form EXCEPT !.loading = @ /\ here # c.sub]
    BY <1>3 DEF Answer, Settle
  <2> QED  BY <2>1 DEF TypeOK, Form
<1>4. ASSUME SelectScopes \/ SetMode \/ SetPatType \/ \E k \in Submissions : Submit(k)
      PROVE  form'.pats = form.pats
  BY <1>4 DEF SelectScopes, SetMode, SetPatType, Submit, Edit, TypeOK, Form
<1> QED
  BY <1>1, <1>2, <1>3, <1>4, TypingKeepsFields
     DEF Next, vars, Revalidate, OpenForm, LeaveForm, Refuse, Create, OtherCreates, OtherDeletes

LEMMA FieldsCorrect == Spec => []FieldsAreOwn
<1>1. Init => FieldsAreOwn
  BY EmptyFieldsAreOwn DEF Init, FieldsAreOwn
<1> QED  BY <1>1, FieldsKept, TypeCorrect, PTL DEF Spec

\* What is sent is what a submission adds.
LEMMA SentAreNew ==
    ASSUME TypeOK, [Next]_vars, NEW c \in calls' \ calls, c.st = "sent"
    PROVE  \E k \in Submissions : Submit(k) /\ \E s \in SubmitScopes : c = Request(k, s)
<1>1. ASSUME NEW d \in calls, NEW st \in {"ok", "failed", "named"}, Answer(d, st) PROVE FALSE
  <2>1. c = [d EXCEPT !.st = st]
    BY <1>1, AnswerKeeps
  <2>2. c.st = st
    BY <2>1 DEF TypeOK, Call
  <2> QED  BY <2>2
<1>2. PICK k \in Submissions : Submit(k)
  BY <1>1, OtherStepsKeepCalls
<1> QED  BY <1>2, SubmitAdds

\* What is requested carries the token of its own scope and of the kind chosen.
LEMMA RequestMatches ==
    ASSUME TypeOK, FieldsAreOwn, PatsGiven, NEW k \in Submissions, NEW s \in form.sel
    PROVE  LET c == Request(k, s)
           IN  c.token = IF c.mode = "scaleset"
                         THEN <<form.patType, PatKey(form.patType, c.repo)>> ELSE NoToken
<1> DEFINE key == PatKey(form.patType, s)
<1>1. key \in PatInputs /\ form.patType \in PatTypes /\ s \in Scopes
  BY DEF PatInputs, TypeOK, Form
<1>2. DisplayMode = "scaleset" => form.pats[key] = form.patType /\ form.pats[key] # NoToken
  BY <1>1 DEF PatsGiven, FieldsAreOwn
<1> HIDE DEF key
<1>3. Request(k, s).token = IF DisplayMode = "scaleset" /\ form.pats[key] # NoToken
                            THEN <<form.pats[key], key>> ELSE NoToken
  BY DEF Request, key
<1>4. Request(k, s).mode = DisplayMode /\ Request(k, s).repo = s
  BY DEF Request
<1> QED  BY <1>2, <1>3, <1>4 DEF key

\* The credentials match whatever was selected, typed and toggled before.
THEOREM CredentialsCorrect == Spec => CredentialsMatch
<1> DEFINE Match(c) == c.token = IF c.mode = "scaleset"
                                 THEN <<form.patType, PatKey(form.patType, c.repo)>> ELSE NoToken
<1>1. TypeOK /\ FieldsAreOwn /\ [Next]_vars => \A c \in calls' \ calls : c.st = "sent" => Match(c)
  <2> SUFFICES ASSUME TypeOK, FieldsAreOwn, [Next]_vars, NEW c \in calls' \ calls, c.st = "sent"
               PROVE  Match(c)
    OBVIOUS
  <2>1. PICK k \in Submissions : Submit(k) /\ \E s \in SubmitScopes : c = Request(k, s)
    BY SentAreNew
  <2>2. PICK s \in SubmitScopes : c = Request(k, s)
    BY <2>1
  <2>3. PatsGiven /\ s \in form.sel
    BY <2>1, SubmitsSomething DEF Submit
  <2> QED  BY <2>2, <2>3, RequestMatches
<1> QED  BY <1>1, TypeCorrect, FieldsCorrect, PTL DEF Spec, CredentialsMatch

\* No request is made for a scope and a mode that the list on display shows.
THEOREM NoTwinCorrect == Spec => NoKnownTwin
<1>1. TypeOK /\ [Next]_vars =>
        \A c \in calls' \ calls : c.st = "sent" => <<c.repo, c.mode>> \notin list
  <2> SUFFICES ASSUME TypeOK, [Next]_vars, NEW c \in calls' \ calls, c.st = "sent"
               PROVE  <<c.repo, c.mode>> \notin list
    OBVIOUS
  <2>1. PICK k \in Submissions : Submit(k) /\ \E s \in SubmitScopes : c = Request(k, s)
    BY SentAreNew
  <2>2. PICK s \in SubmitScopes : c = Request(k, s)
    BY <2>1
  <2>3. c.repo = s /\ c.mode = DisplayMode
    BY <2>2 DEF Request
  <2> QED  BY <2>1, <2>3, SubmitsUnlisted DEF Submit
<1> QED  BY <1>1, TypeCorrect, PTL DEF Spec, NoKnownTwin

-----------------------------------------------------------------------------
(* The submit button.                                                      *)

\* An answer releases the form on display only when it is its own last one.
LEMMA AnswerReleases ==
    ASSUME TypeOK, LoadingIsOwn, NEW c \in calls, NEW st \in {"ok", "failed", "named"}, Answer(c, st)
    PROVE  LoadingIsOwn'
<1> DEFINE answered == [c EXCEPT !.st = st]
           others == Pending(c.sub) \ {c}
<1>1. answered.sub = c.sub
  BY DEF TypeOK, Call
<1> HIDE DEF answered
<1>2. CASE \A d \in others : d.st # "sent"
  <2>1. PICK results : Settle(c.sub, results)
    BY <1>2 DEF Answer, answered, others
  <2>2. calls' = calls \ Pending(c.sub)
    BY <2>1 DEF Settle
  <2>3. CASE here' = 0
    <3>1. \/ form' = EmptyForm
          \/ form' = [form EXCEPT !.loading = @ /\ here # c.sub] /\ (here = c.sub \/ here = 0)
      BY <2>1, <2>3 DEF Settle
    <3>2. here = 0 => ~form.loading
      BY DEF LoadingIsOwn
    <3>3. ASSUME form' = [form EXCEPT !.loading = @ /\ here # c.sub]
          PROVE  form'.loading = (form.loading /\ here # c.sub)
      BY <3>3 DEF TypeOK, Form
    <3>4. ~EmptyForm.loading
      BY DEF EmptyForm
    <3>5. ~form'.loading
      BY <3>1, <3>2, <3>3, <3>4
    <3> QED  BY <2>3, <3>5 DEF LoadingIsOwn
  <2>4. CASE here' # 0
    <3>1. here' = here /\ here # c.sub /\ form' = [form EXCEPT !.loading = @ /\ here # c.sub]
      BY <2>1, <2>4 DEF Settle
    <3>2. form'.loading = form.loading
      BY <3>1 DEF TypeOK, Form
    <3>3. Pending(here)' = Pending(here)
      BY <2>2, <3>1 DEF Pending
    <3> QED  BY <3>1, <3>2, <3>3 DEF LoadingIsOwn
  <2> QED  BY <2>3, <2>4
<1>3. CASE ~(\A d \in others : d.st # "sent")
  <2>1. calls' = (calls \ {c}) \cup {answered} /\ UNCHANGED <<page, form, here>>
    BY <1>3 DEF Answer, answered, others
  <2>2. Pending(here) # {} <=> Pending(here)' # {}
    <3>1. CASE here = c.sub
      BY <1>1, <2>1, <3>1 DEF Pending
    <3>2. CASE here # c.sub
      BY <1>1, <2>1, <3>2 DEF Pending
    <3> QED  BY <3>1, <3>2
  <2> QED  BY <2>1, <2>2 DEF LoadingIsOwn
<1> QED  BY <1>2, <1>3

\* The button is blocked exactly while answers of the form on display are due.
THEOREM LoadingCorrect == Spec => []LoadingIsOwn
<1>1. Init => LoadingIsOwn
  BY DEF Init, LoadingIsOwn, EmptyForm
<1>2. TypeOK /\ LoadingIsOwn /\ [Next]_vars => LoadingIsOwn'
  <2> SUFFICES ASSUME TypeOK, LoadingIsOwn, [Next]_vars PROVE LoadingIsOwn'
    OBVIOUS
  <2>1. CASE UNCHANGED <<calls, here>> /\ form'.loading = form.loading
    BY <2>1 DEF LoadingIsOwn, Pending
  <2>2. CASE LeaveForm
    BY <2>2 DEF LeaveForm, LoadingIsOwn, EmptyForm
  <2>3. CASE SelectScopes \/ SetMode \/ SetPatType \/ EditPat
    <3>1. UNCHANGED <<calls, here>> /\ form'.loading = form.loading
      BY <2>3 DEF SelectScopes, SetMode, SetPatType, EditPat, Edit, TypeOK, Form
    <3> QED  BY <2>1, <3>1
  <2>4. ASSUME NEW k \in Submissions, Submit(k) PROVE LoadingIsOwn'
    <3>1. PICK s \in SubmitScopes : TRUE
      BY <2>4, SubmitsSomething DEF Submit
    <3>2. Request(k, s) \in calls' /\ Request(k, s).sub = k
      BY <2>4, <3>1, SubmitAdds DEF Request
    <3>3. Pending(k)' # {} /\ here' = k /\ k # 0
      BY <2>4, <3>2 DEF Pending, Submit, Submissions
    <3>4. form'.loading
      BY <2>4 DEF Submit, TypeOK, Form
    <3> QED  BY <3>3, <3>4 DEF LoadingIsOwn
  <2>5. ASSUME NEW c \in calls, Refuse(c) \/ Create(c) PROVE LoadingIsOwn'
    BY <2>5, AnswerReleases DEF Refuse, Create
  <2> QED
    BY <2>1, <2>2, <2>3, <2>4, <2>5 DEF Next, vars, Revalidate, OpenForm, OtherCreates, OtherDeletes
<1> QED  BY <1>1, <1>2, TypeCorrect, PTL DEF Spec

=============================================================================
