------------------------- MODULE RunnerServiceProofs -------------------------
(***************************************************************************)
(* What TLAPS proves of the service for any number of requests, rows and   *)
(* configurations: the types, that an update never touches the successor   *)
(* of the row it has read, and that a removed scale set that still has its *)
(* cancel function does not run on.                                        *)
(***************************************************************************)
EXTENDS RunnerService, TLAPS

USE DEF rowVars, launchVars

\* A creation that has not reached the database has a configuration.
CreationsAreFull ==
    \A r \in reqs : r.kind = "create" /\ r.at = "sent" => r.cfg \in Configs

\* The launches whose goroutine has not told the table of processes of its end.
Pending == {l \in Launches : session[l] \in {"run", "fail", "end"}}

\* There is at most one of them, and it is shown as live.
PendingIsLive ==
    /\ Pending # {} => state \in LiveStates
    /\ \A l, m \in Pending : l = m

\* One launch at a time, while nothing runs.
LaunchIsAlone ==
    \A r \in reqs : r.at = "launching" =>
        /\ Pending = {} /\ state \in {"Registering", "Draining"}
        /\ \A q \in reqs : q.at = "launching" => q = r

\* The start of the process checks nothing, and is not told that a row went
\* before it comes to start it.
BootIsPunctual ==
    \A q \in reqs : q.kind = "boot" => q.at # "checked" /\ (q.at \in {"sent", "written"} => ~q.late)

\* A launch that a removal has to stop, and can.
Stoppable(l) == session[l] = "run" /\ l \notin told /\ cancels = l /\ l \notin stale

\* Without a row every request on its way to a launch has seen the row go, the
\* start of the process apart, and what runs or may run is awaited by a removal
\* that will stop it.
RemovalAwaits ==
    row = NoRow =>
        /\ \A q \in reqs : Early(q) => q.late \/ q.kind = "boot"
        /\ (\E q \in reqs : Early(q) /\ q.late) => \E s \in reqs : s.at = "asleep"
        /\ (\E l \in Launches : Stoppable(l)) => \E s \in reqs : s.at \in {"asleep", "rehalting"}

\* A scale set has no listener process.
NoListener == mode = "scaleset" => listener = "down"

StopInv ==
    /\ NoListener
    /\ mode = "scaleset" /\ ~overlapped =>
          PendingIsLive /\ LaunchIsAlone /\ BootIsPunctual /\ RemovalAwaits
-----------------------------------------------------------------------------
(* Types.                                                                  *)

Distinct == \A r, q \in reqs : r.id = q.id => r = q
ReqsOK   == reqs \subseteq Request /\ Distinct /\ CreationsAreFull

\* The types of everything but the requests.
RestOK ==
    /\ mode \in Modes
    /\ row \in Rows \cup {NoRow} /\ (row # NoRow => row.id = created)
    /\ created \in 0..MaxCreated /\ creds \in BOOLEAN
    /\ state \in States /\ listener \in {"down", "up", "told"}
    /\ session \in [Launches -> Stages] /\ cancels \in Launches \cup {NoLaunch}
    /\ told \subseteq Launches /\ stale \subseteq Launches
    /\ overlapped \in BOOLEAN

\* A request that advances keeps its identity.
LEMMA AdvanceKeeps ==
  ASSUME ReqsOK, NEW r \in reqs, NEW to \in Request,
         to.id = r.id, to.at # "sent", Advance(r, to)
  PROVE  ReqsOK'
BY DEF ReqsOK, Distinct, CreationsAreFull, Advance

\* A request that ends leaves the others.
LEMMA FinishKeeps ==
  ASSUME ReqsOK, NEW r \in reqs, Finish(r)
  PROVE  ReqsOK'
BY DEF ReqsOK, Distinct, CreationsAreFull, Finish

\* What a request forgets when the row is written.
LEMMA WrittenType ==
  ASSUME NEW r \in Request
  PROVE  Written(r) \in Request /\ Written(r).id = r.id /\ Written(r).at = "written"
<1>1. 0 \in 0..MaxCreated
  BY RunnerServiceAssumption
<1>2. "written" \in Steps
  BY DEF Steps
<1> QED
  BY <1>1, <1>2 DEF Written, Request

\* The initial state is typed.
LEMMA InitType == Init => TypeOK /\ CreationsAreFull
<1> SUFFICES ASSUME Init PROVE TypeOK /\ CreationsAreFull
  OBVIOUS
<1>1. 0 \in 0..MaxCreated
  BY RunnerServiceAssumption
<1>2. row \in Rows \cup {NoRow} /\ created \in 0..MaxCreated /\ (row # NoRow => row.id = created)
  <2>1. CASE row = NoRow /\ created = 0
    BY <1>1, <2>1
  <2>2. CASE row \in Rows /\ row.id = 1 /\ created = 1
    <3>1. row.id \in 1..MaxCreated
      BY <2>2 DEF Rows
    <3>2. created \in 0..MaxCreated
      BY <2>2, <3>1, RunnerServiceAssumption
    <3> QED
      BY <2>2, <3>2
  <2> QED
    BY <2>1, <2>2 DEF Init
<1>3. creds \in BOOLEAN /\ mode \in Modes
  BY DEF Init
<1>4. PICK i \in Requests : reqs = {Arrived(i, "boot", NoConfig)}
  BY DEF Init
<1>5. Arrived(i, "boot", NoConfig) \in Request /\ Arrived(i, "boot", NoConfig).kind = "boot"
  BY <1>1 DEF Arrived, Request, Steps
<1>6. reqs \subseteq Request /\ CreationsAreFull /\ \A r, q \in reqs : r.id = q.id => r = q
  BY <1>4, <1>5 DEF CreationsAreFull
<1>7. session \in [Launches -> Stages] /\ state \in States
  BY DEF Init, Stages, States
<1> QED
  BY <1>2, <1>3, <1>6, <1>7 DEF Init, TypeOK

\* Every step of the requests keeps them apart and typed.
LEMMA StepReqs == TypeOK /\ CreationsAreFull /\ [Next]_vars => ReqsOK'
<1> SUFFICES ASSUME TypeOK, CreationsAreFull, [Next]_vars PROVE ReqsOK'
  OBVIOUS
<1>1. ReqsOK
  BY DEF TypeOK, ReqsOK, Distinct
<1>2. CASE Send
  <2>1. PICK i \in Requests, k \in {"create", "update", "delete"}, c \in Configs \cup {NoConfig} :
          /\ \A r \in reqs : r.id # i
          /\ k = "create" => c \in Configs
          /\ reqs' = reqs \cup {Arrived(i, k, c)}
    BY <1>2 DEF Send
  <2> DEFINE new == Arrived(i, k, c)
  <2>2. 0 \in 0..MaxCreated
    BY RunnerServiceAssumption
  <2>3. new \in Request
    BY <2>2 DEF Arrived, Request, Steps
  <2>4. new.id = i /\ (new.kind = "create" => new.cfg \in Configs)
    BY <2>1 DEF Arrived
  <2>5. reqs' = reqs \cup {new}
    BY <2>1
  <2>6. \A r \in reqs : r.id # i
    BY <2>1
  <2> HIDE DEF new
  <2> QED
    BY <1>1, <2>3, <2>4, <2>5, <2>6 DEF ReqsOK, Distinct, CreationsAreFull
<1>3. ASSUME NEW r \in reqs, Refuse(r) \/ LaunchFails(r) \/ LaunchStandalone(r) \/ LaunchScaleSet(r) \/ Deregister(r)
      PROVE  ReqsOK'
  BY <1>1, <1>3, FinishKeeps DEF Refuse, LaunchFails, LaunchStandalone, LaunchScaleSet, Deregister
<1>4. ASSUME NEW r \in reqs, ListRows(r) \/ Insert(r) \/ Write(r)
      PROVE  ReqsOK'
  <2>1. Advance(r, Written(r)) \/ Finish(r)
    BY <1>4 DEF ListRows, Insert, Write
  <2>2. r \in Request
    BY DEF TypeOK
  <2> QED
    BY <1>1, <2>1, <2>2, WrittenType, AdvanceKeeps, FinishKeeps
<1>5. ASSUME NEW r \in reqs, Check(r)
      PROVE  ReqsOK'
  <2> DEFINE to == [r EXCEPT !.at = "checked", !.seen = row.id,
                             !.registered = mode = "standalone" /\ creds]
  <2>1. row.id \in 0..MaxCreated
    BY <1>5, RunnerServiceAssumption DEF Check, TypeOK, Rows
  <2>2. to \in Request /\ to.id = r.id /\ to.at = "checked"
    BY <2>1 DEF TypeOK, Request, Steps
  <2>3. Advance(r, to)
    BY <1>5 DEF Check
  <2> QED
    BY <1>1, <2>2, <2>3, AdvanceKeeps
<1>6. ASSUME NEW r \in reqs, NEW step \in Steps \ {"sent"}, At(r, step)
      PROVE  ReqsOK'
  <2>1. /\ [r EXCEPT !.at = step] \in Request
        /\ [r EXCEPT !.at = step].id = r.id /\ [r EXCEPT !.at = step].at = step
    BY DEF TypeOK, Request
  <2> QED
    BY <1>1, <1>6, <2>1, AdvanceKeeps DEF At
<1>7. ASSUME NEW r \in reqs,
             Start(r) \/ DeleteStops(r) \/ DeleteHalts(r) \/ StopAgain(r)
      PROVE  ReqsOK'
  <2>1. \/ Finish(r)
        \/ \E step \in Steps \ {"sent"} : At(r, step)
    BY <1>7 DEF Start, DeleteStops, DeleteHalts, StopAgain, Stop, Steps
  <2> QED
    BY <1>1, <1>6, <2>1, FinishKeeps
<1>8. ASSUME NEW r \in reqs, DeleteRow(r), row' = NoRow, ~Finish(r)
      PROVE  ReqsOK'
  <2> DEFINE Mark(q) == [q EXCEPT !.late = @ \/ Early(q)]
             to      == [r EXCEPT !.at = "asleep"]
  <2>1. reqs' = {Mark(q) : q \in reqs \ {r}} \cup {to}
    BY <1>8 DEF DeleteRow
  <2>2. \A q \in reqs : Mark(q) \in Request /\ Mark(q).id = q.id /\ Mark(q).kind = q.kind
                         /\ Mark(q).at = q.at /\ Mark(q).cfg = q.cfg
    BY DEF TypeOK, Request, Early
  <2>3. to \in Request /\ to.id = r.id /\ to.at = "asleep"
    BY DEF TypeOK, Request, Steps
  <2> HIDE DEF Mark, to
  <2>4. ASSUME NEW x \in reqs', NEW y \in reqs', x.id = y.id
        PROVE  x = y
    <3>1. x = to \/ \E q \in reqs \ {r} : x = Mark(q)
      BY <2>1
    <3>2. y = to \/ \E q \in reqs \ {r} : y = Mark(q)
      BY <2>1
    <3>3. \A q \in reqs \ {r} : Mark(q).id # to.id
      BY <1>1, <2>2, <2>3 DEF ReqsOK, Distinct
    <3> QED
      BY <1>1, <2>2, <2>4, <3>1, <3>2, <3>3 DEF ReqsOK, Distinct
  <2>5. ASSUME NEW x \in reqs', x.kind = "create", x.at = "sent"
        PROVE  x.cfg \in Configs
    <3>1. x = to \/ \E q \in reqs \ {r} : x = Mark(q)
      BY <2>1
    <3> QED
      BY <1>1, <2>2, <2>3, <2>5, <3>1 DEF ReqsOK, CreationsAreFull
  <2> QED
    BY <2>1, <2>2, <2>3, <2>4, <2>5 DEF ReqsOK, Distinct, CreationsAreFull
<1>9. CASE Exit \/ UNCHANGED vars \/ \E l \in Launches : GoesOnline(l) \/ Decide(l) \/ Verdict(l) \/ DeleteCancel(l)
  <2>1. reqs' = reqs
    BY <1>9 DEF GoesOnline, Decide, Verdict, DeleteCancel, Exit, vars
  <2> QED
    BY <1>1, <2>1 DEF ReqsOK, Distinct, CreationsAreFull
<1>10. ASSUME NEW r \in reqs, DeleteRow(r)
       PROVE  ReqsOK'
  BY <1>1, <1>8, <1>10, FinishKeeps DEF DeleteRow
<1> QED
  BY <1>2, <1>3, <1>4, <1>5, <1>7, <1>9, <1>10 DEF Next

\* Every step keeps the types of the rest.
LEMMA StepType == TypeOK /\ CreationsAreFull /\ [Next]_vars => TypeOK'
<1> SUFFICES ASSUME TypeOK, CreationsAreFull, [Next]_vars PROVE TypeOK'
  OBVIOUS
<1> USE DEF RestOK
<1>1. RestOK
  BY DEF TypeOK
<1>2. ASSUME NEW r \in reqs, Insert(r) PROVE RestOK'
  <2>1. r.cfg \in Configs
    BY <1>2 DEF Insert, CreationsAreFull
  <2> QED
    BY <1>1, <1>2, <2>1, RunnerServiceAssumption DEF Insert, Rows
<1>3. ASSUME NEW r \in reqs, Write(r) PROVE RestOK'
  <2>1. r.cfg \in Configs \cup {NoConfig}
    BY DEF TypeOK, Request
  <2>2. row \in Rows => [row EXCEPT !.cfg = IF r.cfg = NoConfig THEN @ ELSE r.cfg] \in Rows
    BY <2>1 DEF Rows
  <2>3. row' = row \/ (row # NoRow /\ row' = [row EXCEPT !.cfg = IF r.cfg = NoConfig THEN @ ELSE r.cfg])
    BY <1>3 DEF Write
  <2>4. row' \in Rows \cup {NoRow} /\ (row' # NoRow => row'.id = created)
    BY <1>1, <2>2, <2>3 DEF Rows
  <2> QED
    BY <1>1, <1>3, <2>4 DEF Write
<1>4. ASSUME NEW r \in reqs,
             \/ Refuse(r) \/ ListRows(r) \/ Check(r) \/ Start(r) \/ LaunchFails(r)
             \/ LaunchStandalone(r)
      PROVE  RestOK'
  BY <1>1, <1>4
     DEF Refuse, ListRows, Check, Start, LaunchFails, LaunchStandalone, States, LiveStates
<1>5. ASSUME NEW r \in reqs,
             \/ DeleteStops(r) \/ DeleteHalts(r) \/ DeleteRow(r) \/ StopAgain(r) \/ Deregister(r)
             \/ LaunchScaleSet(r)
      PROVE  RestOK'
  BY <1>1, <1>5
     DEF DeleteStops, DeleteHalts, DeleteRow, StopAgain, Stop, Halt, Deregister, LaunchScaleSet,
         States, LiveStates, Stages
<1>6. ASSUME Send PROVE RestOK'
  BY <1>1, <1>6 DEF Send
<1>7. ASSUME NEW l \in Launches, GoesOnline(l) \/ Decide(l) \/ Verdict(l) \/ DeleteCancel(l) PROVE RestOK'
  BY <1>1, <1>7 DEF GoesOnline, Decide, Verdict, DeleteCancel, Transition, States, LiveStates, Stages
<1>8. ASSUME Exit PROVE RestOK'
  BY <1>1, <1>8 DEF Exit, Transition, States, LiveStates
<1>9. ASSUME UNCHANGED vars PROVE RestOK'
  BY <1>1, <1>9 DEF vars
<1> HIDE DEF RestOK
<1>10. RestOK'
  BY <1>2, <1>3, <1>4, <1>5, <1>6, <1>7, <1>8, <1>9 DEF Next
<1> QED
  BY <1>10, StepReqs DEF ReqsOK, Distinct, RestOK, TypeOK

\* The types with the creations: the inductive invariant.
LEMMA TypesAndCreations == Spec => [](TypeOK /\ CreationsAreFull)
<1>1. Init => TypeOK /\ CreationsAreFull
  BY InitType
<1>2. TypeOK /\ CreationsAreFull /\ [Next]_vars => (TypeOK /\ CreationsAreFull)'
  BY StepType, StepReqs DEF ReqsOK
<1> QED
  BY <1>1, <1>2, PTL DEF Spec

\* The types, and that the row on record is always the last one inserted (AUTOINCREMENT,
\* a unique name, and updates that never bring a deleted row back).
THEOREM TypeCorrect == Spec => []TypeOK
BY TypesAndCreations, PTL

-----------------------------------------------------------------------------
(* Updates.                                                                *)

\* An update that waited while its runner was removed and recreated does not
\* edit the successor: the row is found by the id that was read (UpdateRunner).
THEOREM UpdatesStayOwn == Spec => EditsAreOwn
<1> DEFINE Own == row # NoRow /\ row' # NoRow /\ row' # row =>
                    \E r \in reqs : r.at = "checked" /\ r.seen = row'.id
<1>1. TypeOK /\ [Next]_vars => [Own]_vars
  <2> SUFFICES ASSUME TypeOK, Next, row # NoRow, row' # NoRow, row' # row
               PROVE  \E r \in reqs : r.at = "checked" /\ r.seen = row'.id
    OBVIOUS
  <2>1. \/ Send \/ Exit
        \/ \E l \in Launches : GoesOnline(l) \/ Decide(l) \/ Verdict(l) \/ DeleteCancel(l)
        \/ \E r \in reqs : \/ Refuse(r) \/ ListRows(r) \/ Insert(r) \/ Check(r) \/ Start(r)
                           \/ LaunchFails(r) \/ LaunchStandalone(r) \/ LaunchScaleSet(r)
                           \/ DeleteStops(r) \/ DeleteHalts(r) \/ DeleteRow(r) \/ StopAgain(r)
                           \/ Deregister(r)
        => FALSE
    BY DEF Send, Exit, GoesOnline, Decide, Verdict, DeleteCancel, Refuse, ListRows, Insert, Check, Start,
           LaunchFails, LaunchStandalone, LaunchScaleSet, DeleteStops, DeleteHalts, DeleteRow,
           StopAgain, Deregister
  <2>2. PICK r \in reqs : Write(r)
    BY <2>1 DEF Next
  <2>3. row \in Rows
    BY DEF TypeOK
  <2>4. row'.id = row.id /\ row.id = r.seen /\ r.at = "checked"
    BY <2>2, <2>3 DEF Write, Rows
  <2> QED
    BY <2>4
<1> QED
  BY <1>1, TypeCorrect, PTL DEF Spec, EditsAreOwn

-----------------------------------------------------------------------------
(* Removals.                                                               *)

\* What a request that advances leaves of the others.
LEMMA Others ==
  ASSUME NEW r \in reqs, NEW to, Advance(r, to)
  PROVE  /\ \A q \in reqs' : q = to \/ (q \in reqs /\ q # r)
         /\ \A q \in reqs : q = r \/ q \in reqs'
BY DEF Advance

\* No step changes the mode, and an overlap is not forgotten.
LEMMA ModeKept ==
  ASSUME TypeOK, [Next]_vars
  PROVE  mode' = mode /\ (overlapped => overlapped')
BY DEF TypeOK, Next, vars, Send, GoesOnline, Decide, Verdict, DeleteCancel, Exit, Refuse, ListRows,
       Insert, Check, Write, Start, LaunchFails, LaunchStandalone, LaunchScaleSet,
       DeleteStops, DeleteHalts, DeleteRow, StopAgain, Deregister

\* No step gives a scale set a listener.
LEMMA NoListenerKept ==
  ASSUME TypeOK, NoListener, [Next]_vars
  PROVE  NoListener'
<1>1. CASE \E r \in reqs : LaunchFails(r) \/ LaunchStandalone(r)
  BY <1>1 DEF NoListener, LaunchFails, LaunchStandalone
<1>2. CASE \E r \in reqs : DeleteHalts(r)
  BY <1>2, ModeKept DEF NoListener, DeleteHalts, Halt
<1>3. CASE Exit
  BY <1>3, ModeKept DEF NoListener, Exit
<1>4. ASSUME \/ Send \/ UNCHANGED vars
             \/ \E l \in Launches : GoesOnline(l) \/ Decide(l) \/ Verdict(l) \/ DeleteCancel(l)
             \/ \E r \in reqs : \/ Refuse(r) \/ ListRows(r) \/ Insert(r) \/ Check(r) \/ Write(r) \/ Start(r)
                                \/ LaunchScaleSet(r) \/ DeleteStops(r) \/ DeleteRow(r)
                                \/ StopAgain(r) \/ Deregister(r)
      PROVE  listener' = listener
  BY <1>4 DEF vars, Send, GoesOnline, Decide, Verdict, DeleteCancel, Refuse, ListRows, Insert, Check, Write,
       Start, LaunchScaleSet, DeleteStops, DeleteRow, StopAgain, Deregister
<1> QED
  BY <1>1, <1>2, <1>3, <1>4, ModeKept DEF NoListener, Next

\* Every step keeps the removals of scale sets on course.
LEMMA StepStops == TypeOK /\ CreationsAreFull /\ StopInv /\ [Next]_vars => StopInv'
<1> SUFFICES ASSUME TypeOK, CreationsAreFull, StopInv, [Next]_vars, mode' = "scaleset", ~overlapped'
             PROVE  (PendingIsLive /\ LaunchIsAlone /\ BootIsPunctual /\ RemovalAwaits)'
  BY NoListenerKept DEF StopInv
<1> DEFINE Goal == (PendingIsLive /\ LaunchIsAlone /\ BootIsPunctual /\ RemovalAwaits)'
<1>1. mode = "scaleset" /\ mode' = mode /\ PendingIsLive /\ LaunchIsAlone /\ BootIsPunctual /\ RemovalAwaits
  BY ModeKept DEF StopInv
<1>2. \A q \in reqs : q \in Request
  BY DEF TypeOK
<1>3. ASSUME Send PROVE Goal
  <2>1. PICK i \in Requests, k \in {"create", "update", "delete"}, c \in Configs \cup {NoConfig} :
          reqs' = reqs \cup {Arrived(i, k, c)}
    BY <1>3 DEF Send
  <2> DEFINE new == Arrived(i, k, c)
  <2>2. reqs' = reqs \cup {new} /\ new.at = "sent" /\ new.kind # "boot"
    BY <2>1 DEF Arrived
  <2> HIDE DEF new
  <2>3. PendingIsLive' /\ LaunchIsAlone' /\ BootIsPunctual'
    BY <1>1, <1>3, <2>2 DEF Send, PendingIsLive, LaunchIsAlone, BootIsPunctual, Pending
  <2>4. RemovalAwaits'
    BY <1>1, <1>3, <2>2 DEF Send, RemovalAwaits, Early, Stoppable
  <2> QED
    BY <2>3, <2>4
<1>4. ASSUME NEW r \in reqs, Finish(r), r.at \notin {"asleep", "rehalting"},
             UNCHANGED <<state, launchVars>>, row' = row
      PROVE  Goal
  <2>1. PendingIsLive' /\ LaunchIsAlone' /\ BootIsPunctual'
    BY <1>1, <1>4 DEF Finish, PendingIsLive, LaunchIsAlone, BootIsPunctual, Pending
  <2>2. RemovalAwaits'
    BY <1>1, <1>4 DEF Finish, RemovalAwaits, Early, Stoppable
  <2> QED
    BY <2>1, <2>2
<1>5. ASSUME NEW r \in reqs, Insert(r) PROVE Goal
  <2>1. Written(r).at = "written" /\ Written(r).kind = "create"
    BY <1>2, <1>5, WrittenType DEF Insert, Written, Request
  <2>2. row' # NoRow
    <3>1. r.cfg \in Configs
      BY <1>5 DEF Insert, CreationsAreFull
    <3>2. row' \in Rows
      BY <1>5, <3>1, RunnerServiceAssumption DEF Insert, TypeOK, Rows
    <3> QED
      BY <3>2, RunnerServiceAssumption
  <2> QED
    BY <1>1, <1>5, <2>1, <2>2, Others
       DEF Insert, PendingIsLive, LaunchIsAlone, BootIsPunctual, Pending, RemovalAwaits
<1>6. ASSUME NEW r \in reqs, Check(r) PROVE Goal
  <2> DEFINE to == [r EXCEPT !.at = "checked", !.seen = row.id,
                             !.registered = mode = "standalone" /\ creds]
  <2>1. /\ to.at = "checked" /\ Advance(r, to) /\ row' = row /\ row # NoRow /\ UNCHANGED <<state, session>>
        /\ to.kind # "boot"
    BY <1>2, <1>6 DEF Check, Request
  <2> HIDE DEF to
  <2> QED
    BY <1>1, <2>1, Others DEF PendingIsLive, LaunchIsAlone, BootIsPunctual, Pending, RemovalAwaits
<1>7. ASSUME NEW r \in reqs, Write(r) PROVE Goal
  <2>1. r.at = "checked" /\ UNCHANGED <<state, launchVars>> /\ (row' = NoRow => row = NoRow)
    <3>1. row \in Rows => [row EXCEPT !.cfg = IF r.cfg = NoConfig THEN @ ELSE r.cfg] \in Rows
      BY <1>2 DEF Rows, Request
    <3>2. \/ row' = row
          \/ row # NoRow /\ row' = [row EXCEPT !.cfg = IF r.cfg = NoConfig THEN @ ELSE r.cfg]
      BY <1>7 DEF Write
    <3>3. row' = NoRow => row = NoRow
      BY <3>1, <3>2, RunnerServiceAssumption DEF TypeOK
    <3> QED
      BY <1>7, <3>3 DEF Write
  <2>2. CASE Finish(r)
    <3>1. PendingIsLive' /\ LaunchIsAlone' /\ BootIsPunctual'
      BY <1>1, <2>1, <2>2 DEF Finish, PendingIsLive, LaunchIsAlone, BootIsPunctual, Pending
    <3>2. RemovalAwaits'
      BY <1>1, <2>1, <2>2 DEF Finish, RemovalAwaits, Early, Stoppable
    <3> QED
      BY <3>1, <3>2
  <2>3. CASE Advance(r, Written(r))
    <3>1. Written(r).at = "written" /\ Written(r).late = r.late /\ Written(r).kind = r.kind
      BY <1>2, WrittenType DEF Written, Request
    <3>2. r.kind # "boot" => Early(r)
      BY <2>1 DEF Early
    <3>3. r.kind # "boot"
      BY <1>1, <2>1 DEF BootIsPunctual
    <3>4. PendingIsLive' /\ LaunchIsAlone' /\ BootIsPunctual'
      BY <1>1, <2>1, <2>3, <3>1, <3>3, Others DEF PendingIsLive, LaunchIsAlone, BootIsPunctual, Pending
    <3>5. RemovalAwaits'
      BY <1>1, <2>1, <2>3, <3>1, <3>2, <3>3, Others DEF RemovalAwaits, Early, Stoppable
    <3> QED
      BY <3>4, <3>5
  <2> QED
    BY <1>7, <2>2, <2>3 DEF Write
<1>8. ASSUME NEW r \in reqs, Start(r) PROVE Goal
  <2>1. CASE Finish(r) /\ UNCHANGED <<state, overlapped>>
    BY <1>4, <1>8, <2>1 DEF Start
  <2>2. CASE ~(Finish(r) /\ UNCHANGED <<state, overlapped>>)
    <3> DEFINE to == [r EXCEPT !.at = "launching"]
    <3>1. /\ state \notin {"Online", "Draining", "Registering"} /\ state' = "Registering"
          /\ Advance(r, to) /\ r.at = "written" /\ row' = row /\ UNCHANGED launchVars
      BY <1>8, <2>2 DEF Start, At, TypeOK
    <3>2. to.at = "launching" /\ to.late = r.late /\ to.kind = r.kind
      BY <1>2 DEF Request
    <3>3. Pending = {} /\ \A q \in reqs : q.at # "launching"
      BY <1>1, <3>1 DEF PendingIsLive, LaunchIsAlone, LiveStates
    <3>4. Pending' = {}
      BY <3>1, <3>3 DEF Pending
    <3>5. r.late => r.kind # "boot"
      BY <1>1, <3>1 DEF BootIsPunctual
    <3> HIDE DEF to
    <3>6. PendingIsLive' /\ LaunchIsAlone' /\ BootIsPunctual'
      BY <1>1, <3>1, <3>2, <3>3, <3>4, Others DEF PendingIsLive, LaunchIsAlone, BootIsPunctual
    <3>7. RemovalAwaits'
      BY <1>1, <3>1, <3>2, <3>5, Others DEF RemovalAwaits, Early, Stoppable
    <3> QED
      BY <3>6, <3>7
  <2> QED
    BY <2>1, <2>2
<1>9. ASSUME NEW r \in reqs, LaunchScaleSet(r) PROVE Goal
  <2>1. /\ reqs' = reqs \ {r} /\ r.at = "launching" /\ row' = row /\ state' = state /\ told' = told
    BY <1>9 DEF LaunchScaleSet, Finish
  <2>2. Early(r)
    BY <1>1, <2>1 DEF Early
  <2>3. PICK l \in Launches :
          /\ session[l] = "none" /\ session' = [session EXCEPT ![l] = "run"] /\ cancels' = l
          /\ stale' = IF r.kind = "boot" /\ row = NoRow /\ ~r.late THEN stale \cup {l} ELSE stale
    BY <1>9 DEF LaunchScaleSet
  <2>4. Pending' = {l}
    BY <1>1, <2>1, <2>3 DEF LaunchIsAlone, Pending, TypeOK
  <2>5. state' \in LiveStates /\ \A q \in reqs : q.at = "launching" => q = r
    BY <1>1, <2>1 DEF LaunchIsAlone, LiveStates
  <2>6. PendingIsLive' /\ LaunchIsAlone' /\ BootIsPunctual'
    BY <1>1, <2>1, <2>2, <2>4, <2>5 DEF PendingIsLive, LaunchIsAlone, BootIsPunctual
  <2>7. ASSUME row = NoRow, NEW m \in Launches, Stoppable(m)'
        PROVE  r.late
    BY <1>1, <2>2, <2>3, <2>7 DEF RemovalAwaits, Stoppable
  <2>8. RemovalAwaits'
    BY <1>1, <2>1, <2>2, <2>7 DEF RemovalAwaits, Early
  <2> QED
    BY <2>6, <2>8
\* Draining is live, so a stop disturbs nothing but itself.
<1>10. ASSUME NEW r \in reqs, NEW step, At(r, step), step \notin {"sent", "checked", "written", "launching"},
              state' = state \/ state' = "Draining", UNCHANGED launchVars
       PROVE  (PendingIsLive /\ LaunchIsAlone /\ BootIsPunctual)'
  <2> DEFINE to == [r EXCEPT !.at = step]
  <2>1. Advance(r, to) /\ to.at = step
    BY <1>2, <1>10 DEF At, Request
  <2> HIDE DEF to
  <2> QED
    BY <1>1, <1>10, <2>1, Others DEF PendingIsLive, LaunchIsAlone, BootIsPunctual, Pending, LiveStates
<1>11. ASSUME NEW r \in reqs, DeleteStops(r) PROVE Goal
  <2>1. /\ row # NoRow /\ row' = row /\ UNCHANGED launchVars
        /\ \E step \in {"halting", "stopped"} : At(r, step)
        /\ state' = state \/ state' = "Draining"
    BY <1>11 DEF DeleteStops, Stop
  <2> QED
    BY <1>10, <2>1 DEF RemovalAwaits
<1>12. ASSUME NEW r \in reqs, DeleteHalts(r) PROVE Goal
  <2>1. PICK step \in {"stopped", "deregister"} : At(r, step)
    BY <1>12 DEF DeleteHalts
  <2> DEFINE to == [r EXCEPT !.at = step]
  <2>2. /\ Advance(r, to) /\ to.at = step /\ row' = row
        /\ UNCHANGED <<state, session, cancels, stale>> /\ r.at \in {"halting", "rehalting"}
    BY <1>2, <1>12, <2>1 DEF DeleteHalts, At, Request
  <2> HIDE DEF to
  <2>3. PendingIsLive' /\ LaunchIsAlone' /\ BootIsPunctual'
    BY <1>1, <2>1, <2>2, Others DEF PendingIsLive, LaunchIsAlone, BootIsPunctual, Pending
  <2>4. \A l \in Launches : ~Stoppable(l)'
    BY <1>12, <2>2 DEF DeleteHalts, Halt, Stoppable
  <2>5. RemovalAwaits'
    BY <1>1, <2>1, <2>2, <2>4, Others DEF RemovalAwaits, Early
  <2> QED
    BY <2>3, <2>5
<1>13. ASSUME NEW r \in reqs, DeleteRow(r), ~Finish(r) PROVE Goal
  <2> DEFINE Mark(q) == [q EXCEPT !.late = @ \/ Early(q)]
             to      == [r EXCEPT !.at = "asleep"]
  <2>1. reqs' = {Mark(q) : q \in reqs \ {r}} \cup {to} /\ UNCHANGED <<state, launchVars>> /\ r.at = "stopped"
    BY <1>13 DEF DeleteRow
  <2>2. ASSUME NEW q \in reqs
        PROVE  /\ Mark(q).at = q.at /\ Mark(q).kind = q.kind /\ (Early(q) => Mark(q).late)
               /\ Mark(q).late => q.late \/ Early(q)
    BY <1>2 DEF Request
  <2>3. to.at = "asleep" /\ to \in reqs'
    BY <1>2, <2>1 DEF Request
  <2> HIDE DEF Mark, to
  <2>4. \A x \in reqs' : x = to \/ \E q \in reqs \ {r} : x = Mark(q)
    BY <2>1
  <2>5. Pending' = Pending
    BY <2>1 DEF Pending
  <2>6. PendingIsLive'
    BY <1>1, <2>1, <2>5 DEF PendingIsLive
  <2>7. LaunchIsAlone'
    <3>1. ASSUME NEW x \in reqs', x.at = "launching"
          PROVE  \E q \in reqs : x = Mark(q) /\ q.at = "launching"
      BY <2>2, <2>3, <2>4, <3>1
    <3>2. ASSUME NEW x \in reqs', x.at = "launching", NEW y \in reqs', y.at = "launching"
          PROVE  y = x
      BY <1>1, <3>1, <3>2 DEF LaunchIsAlone
    <3>3. ASSUME NEW x \in reqs', x.at = "launching"
          PROVE  Pending = {} /\ state \in {"Registering", "Draining"}
      BY <1>1, <3>1, <3>3 DEF LaunchIsAlone
    <3> QED
      BY <2>1, <2>5, <3>2, <3>3 DEF LaunchIsAlone
  <2>8. BootIsPunctual'
    <3>1. ASSUME NEW q \in reqs, q.kind = "boot"
          PROVE  /\ Mark(q).at # "checked"
                 /\ Mark(q).at \in {"sent", "written"} => ~Mark(q).late
      BY <1>1, <2>2, <3>1 DEF BootIsPunctual, Early
    <3>2. to.at # "checked" /\ to.at \notin {"sent", "written"}
      BY <2>3
    <3> QED
      BY <2>2, <2>4, <3>1, <3>2 DEF BootIsPunctual
  <2>9. \A x \in reqs' : Early(x)' => x.late
    <3>1. ASSUME NEW x \in reqs', Early(x)'
          PROVE  x.late
      <4>1. \/ x.at \in {"checked", "written"} /\ x.kind # "boot"
            \/ mode = "scaleset" /\ x.at = "launching"
        BY <1>1, <3>1 DEF Early
      <4>2. PICK q \in reqs : x = Mark(q)
        BY <2>3, <2>4, <4>1
      <4>3. Early(q)
        BY <2>2, <4>1, <4>2 DEF Early
      <4> QED
        BY <2>2, <4>2, <4>3
    <3> QED
      BY <3>1
  <2>10. RemovalAwaits'
    BY <2>3, <2>9 DEF RemovalAwaits
  <2> QED
    BY <2>6, <2>7, <2>8, <2>10
<1>14. ASSUME NEW r \in reqs, DeleteRow(r), Finish(r) PROVE Goal
  <2>1. r.at = "stopped" /\ UNCHANGED <<state, launchVars>>
    BY <1>14 DEF DeleteRow
  <2>2. row' = row
    <3>1. [r EXCEPT !.at = "asleep"] \notin reqs \ {r}
      BY <1>2, <2>1 DEF TypeOK, Request
    <3>2. [r EXCEPT !.at = "asleep"] # r
      BY <1>2, <2>1 DEF Request
    <3> QED
      BY <1>14, <3>1, <3>2 DEF DeleteRow, Finish
  <2> QED
    BY <1>4, <1>14, <2>1, <2>2
<1>15. ASSUME NEW r \in reqs, StopAgain(r) PROVE Goal
  <2>1. PICK step \in {"rehalting", "deregister"} :
          /\ At(r, step) /\ (step = "deregister" => state \notin LiveStates)
    BY <1>15 DEF StopAgain, Stop, LiveStates
  <2>2. row' = row /\ UNCHANGED launchVars /\ (state' = state \/ state' = "Draining")
        /\ ~\E q \in reqs : q.late /\ Early(q)
    BY <1>15 DEF StopAgain, Stop
  <2>3. PendingIsLive' /\ LaunchIsAlone' /\ BootIsPunctual'
    BY <1>10, <2>1, <2>2
  <2> DEFINE to == [r EXCEPT !.at = step]
  <2>4. Advance(r, to) /\ to.at = step
    BY <1>2, <2>1 DEF At, Request
  <2> HIDE DEF to
  <2>5. step = "deregister" => \A l \in Launches : ~Stoppable(l)
    BY <1>1, <2>1 DEF PendingIsLive, Pending, Stoppable
  <2>6. to \in reqs'
    BY <2>4 DEF Advance
  <2>7. \A l \in Launches : Stoppable(l)' => Stoppable(l)
    BY <2>2 DEF Stoppable
  <2>8. ~\E q \in reqs' : q.late /\ Early(q)'
    BY <1>1, <2>1, <2>2, <2>4, Others DEF Early
  <2>9. (\E l \in Launches : Stoppable(l)') => \E s \in reqs' : s.at \in {"asleep", "rehalting"}
    BY <2>1, <2>4, <2>5, <2>6, <2>7
  <2>10. row = NoRow => \A q \in reqs' : Early(q)' => q.late \/ q.kind = "boot"
    BY <1>1, <2>1, <2>4, Others DEF RemovalAwaits, Early
  <2>11. RemovalAwaits'
    BY <2>2, <2>8, <2>9, <2>10 DEF RemovalAwaits
  <2> QED
    BY <2>3, <2>11
<1>16. ASSUME NEW r \in reqs, Refuse(r) \/ Deregister(r) PROVE Goal
  BY <1>4, <1>16 DEF Refuse, Deregister
<1>17. ASSUME NEW r \in reqs, ListRows(r) PROVE Goal
  <2>1. Written(r).at = "written" /\ Written(r).late = r.late
    BY <1>2, WrittenType DEF Written, Request
  <2>2. ~r.late /\ Advance(r, Written(r)) /\ row # NoRow /\ row' = row /\ UNCHANGED <<state, session>>
    BY <1>1, <1>17 DEF ListRows, BootIsPunctual
  <2> QED
    BY <1>1, <2>1, <2>2, Others DEF PendingIsLive, LaunchIsAlone, BootIsPunctual, Pending, RemovalAwaits
<1>18. ASSUME NEW l \in Launches, GoesOnline(l) PROVE Goal
  <2>1. l \in Pending /\ state' = "Online" /\ UNCHANGED <<row, launchVars, reqs>>
    BY <1>18 DEF GoesOnline, Pending
  <2>2. PendingIsLive' /\ LaunchIsAlone' /\ BootIsPunctual'
    BY <1>1, <2>1 DEF PendingIsLive, LaunchIsAlone, BootIsPunctual, Pending, LiveStates
  <2>3. RemovalAwaits'
    BY <1>1, <2>1 DEF RemovalAwaits, Early, Stoppable
  <2> QED
    BY <2>2, <2>3
<1>19. ASSUME NEW l \in Launches, Decide(l) PROVE Goal
  <2>1. l \in Pending /\ Pending' = Pending /\ UNCHANGED <<row, state, cancels, told, stale, reqs>>
    BY <1>19 DEF Decide, Pending, TypeOK
  <2>2. \A m \in Launches : session'[m] = "run" => session[m] = "run"
    BY <1>19 DEF Decide, TypeOK
  <2>3. PendingIsLive' /\ LaunchIsAlone' /\ BootIsPunctual'
    BY <1>1, <2>1 DEF PendingIsLive, LaunchIsAlone, BootIsPunctual
  <2>4. RemovalAwaits'
    BY <1>1, <2>1, <2>2 DEF RemovalAwaits, Early, Stoppable
  <2> QED
    BY <2>3, <2>4
<1>20. ASSUME NEW l \in Launches, Verdict(l) PROVE Goal
  <2>1. l \in Pending /\ session' = [session EXCEPT ![l] = "delete"]
        /\ UNCHANGED <<row, cancels, told, stale, reqs>>
    BY <1>20 DEF Verdict, Pending
  <2>2. Pending' = {}
    BY <1>1, <2>1 DEF PendingIsLive, Pending, TypeOK
  <2>3. \A q \in reqs : q.at # "launching"
    BY <1>1, <2>1 DEF LaunchIsAlone
  <2>4. \A m \in Launches : session'[m] = "run" => session[m] = "run"
    BY <2>1 DEF TypeOK
  <2>5. PendingIsLive' /\ LaunchIsAlone' /\ BootIsPunctual'
    BY <1>1, <2>1, <2>2, <2>3 DEF PendingIsLive, LaunchIsAlone, BootIsPunctual
  <2>6. RemovalAwaits'
    BY <1>1, <2>1, <2>4 DEF RemovalAwaits, Early, Stoppable
  <2> QED
    BY <2>5, <2>6
<1>21. ASSUME NEW l \in Launches, DeleteCancel(l) PROVE Goal
  <2>1. session[l] = "delete" /\ session' = [session EXCEPT ![l] = "none"]
        /\ cancels' = NoLaunch /\ UNCHANGED <<row, state, reqs>>
    BY <1>21 DEF DeleteCancel
  <2>2. Pending' = Pending
    BY <2>1 DEF Pending, TypeOK
  <2>3. \A m \in Launches : ~Stoppable(m)'
    BY <2>1, RunnerServiceAssumption DEF Stoppable
  <2>4. PendingIsLive' /\ LaunchIsAlone' /\ BootIsPunctual'
    BY <1>1, <2>1, <2>2 DEF PendingIsLive, LaunchIsAlone, BootIsPunctual
  <2>5. RemovalAwaits'
    BY <1>1, <2>1, <2>3 DEF RemovalAwaits, Early
  <2> QED
    BY <2>4, <2>5
<1>22. ~Exit
  BY <1>1 DEF Exit, StopInv, NoListener
<1>23. ASSUME UNCHANGED vars PROVE Goal
  <2>1. PendingIsLive' /\ LaunchIsAlone' /\ BootIsPunctual'
    BY <1>1, <1>23 DEF vars, PendingIsLive, LaunchIsAlone, BootIsPunctual, Pending
  <2>2. RemovalAwaits'
    BY <1>1, <1>23 DEF vars, RemovalAwaits, Early, Stoppable
  <2> QED
    BY <2>1, <2>2
<1>24. ASSUME NEW r \in reqs PROVE ~LaunchFails(r) /\ ~LaunchStandalone(r)
  BY <1>1 DEF LaunchFails, LaunchStandalone
<1> HIDE DEF Goal
<1>25. Goal
  BY <1>3, <1>5, <1>6, <1>7, <1>8, <1>9, <1>11, <1>12, <1>13, <1>14, <1>15, <1>16, <1>17, <1>18, <1>19,
     <1>20, <1>21, <1>22, <1>23, <1>24 DEF Next
<1> QED
  BY <1>25 DEF Goal

\* A scale set that was removed does not run on, whatever requests interleave
\* with the removal (DeleteRunner and its goroutine, BaseManager.Start and Stop),
\* unless its cancel function was deleted by an earlier launch, or the start of
\* the process launched it from a row that was gone.
THEOREM RemovedScaleSetStops == Spec => []RemovedIsStopped
<1>1. Init => StopInv
  <2> SUFFICES ASSUME Init PROVE StopInv
    OBVIOUS
  <2>1. PICK i \in Requests : reqs = {Arrived(i, "boot", NoConfig)}
    BY DEF Init
  <2>2. \A q \in reqs : q.at = "sent" /\ ~q.late
    BY <2>1 DEF Arrived
  <2>3. Pending = {} /\ \A l \in Launches : ~Stoppable(l)
    BY DEF Init, Pending, Stoppable
  <2> QED
    BY <2>2, <2>3 DEF Init, StopInv, NoListener, PendingIsLive, LaunchIsAlone, BootIsPunctual, RemovalAwaits, Early
<1>2. TypeOK /\ CreationsAreFull /\ StopInv /\ [Next]_vars => StopInv'
  BY StepStops
<1>3. StopInv => RemovedIsStopped
  BY DEF StopInv, RemovalAwaits, RemovedIsStopped, Stoppable, Quiet
<1> QED
  BY <1>1, <1>2, <1>3, TypesAndCreations, PTL DEF Spec

=============================================================================
