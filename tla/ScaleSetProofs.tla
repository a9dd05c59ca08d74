--------------------------- MODULE ScaleSetProofs ---------------------------
(***************************************************************************)
(* What TLAPS proves of a scale set, for all launches, workers and limits  *)
(* and under every failure of the model: the types, that it has at most    *)
(* one session and none while it is shown Offline or Failed, that draining *)
(* is final, and that a scaler never starts more workers than max_runners. *)
(***************************************************************************)
EXTENDS ScaleSet, FiniteSetTheorems, TLAPS

USE DEF entryVars, sessionVars, stopVars, scalerVars

-----------------------------------------------------------------------------
(* Types.                                                                   *)

\* A session sleeps only if another attempt follows.
RetriesLeft == \A l \in Launches : session[l] = "sleep" => attempt[l] < MaxRetries - 1

\* The initial state is typed.
LEMMA InitType == Init => TypeOK /\ RetriesLeft
<1> SUFFICES ASSUME Init PROVE TypeOK /\ RetriesLeft
  OBVIOUS
<1>1. 0 \in 0 .. MaxRetries - 1
  BY LimitsAssumption
<1> QED
  BY <1>1 DEF Init, TypeOK, RetriesLeft, States, CallStages, SessionStages, TaskStages

\* A transition leads to a state.
LEMMA TransitionType ==
  ASSUME TypeOK, NEW to \in States, Transition(to)
  PROVE  state' \in States \cup {"None"}
BY DEF TypeOK, Transition

\* A goroutine of startWorker that takes a step stays typed.
LEMMA StepTask ==
  ASSUME TypeOK, NEW w \in Workers, NEW to \in TaskStages, NEW from, Step(w, from, to)
  PROVE  task' \in [Workers -> TaskStages]
BY DEF TypeOK, Step

\* Every step keeps the types.
LEMMA StepType == TypeOK /\ RetriesLeft /\ [Next]_vars => TypeOK'
<1> SUFFICES ASSUME TypeOK, RetriesLeft, [Next]_vars PROVE TypeOK'
  OBVIOUS
<1>1. ASSUME NEW l \in Launches, Start(l) \/ CallStep(l) PROVE TypeOK'
  BY <1>1 DEF TypeOK, Start, CallStep, Launch, Poll, LaunchFailed, States, CallStages, SessionStages
<1>2. ASSUME NEW l \in Launches, SessionStep(l) PROVE TypeOK'
  <2>1. CASE Setup(l) \/ RunEnds(l) \/ Close(l) \/ Decide(l)
    BY <2>1 DEF TypeOK, Setup, RunEnds, Close, Decide, FailTo, Goto, Errors, SessionStages
  <2>2. CASE Connect(l)
    BY <2>2 DEF TypeOK, Connect, FailTo, Goto, Errors, SessionStages
  <2>3. CASE SleepOver(l)
    <3>1. attempt[l] + 1 \in 0 .. MaxRetries - 1
      BY <2>3, LimitsAssumption DEF TypeOK, RetriesLeft, SleepOver
    <3> QED
      BY <2>3, <3>1 DEF TypeOK, SleepOver, Goto, SessionStages
  <2>4. CASE Announce(l)
    BY <2>4, TransitionType DEF TypeOK, Announce, Goto, SessionStages, States
  <2>5. CASE Verdict(l)
    BY <2>5, TransitionType DEF TypeOK, Verdict, Goto, SessionStages, States
  <2>6. CASE Delete(l)
    BY <2>6, LimitsAssumption DEF TypeOK, Delete, Goto, SessionStages
  <2> QED
    BY <1>2, <2>1, <2>2, <2>3, <2>4, <2>5, <2>6 DEF SessionStep
<1>3. ASSUME NEW l \in Launches, NEW count \in Counts, ScaleUp(l, count) PROVE TypeOK'
  <2>1. Cardinality(alive) \in Nat
    BY SetsAssumption, FS_Subset, FS_CardinalityType DEF TypeOK
  <2> QED
    BY <1>3, <2>1, LimitsAssumption DEF TypeOK, ScaleUp, TaskStages
<1>4. CASE Stop \/ StopStep \/ Expire
  BY <1>4 DEF TypeOK, Stop, StopStep, Halt, Cancel, Expire, States
<1>5. ASSUME NEW w \in Workers, WorkerStep(w) PROVE TypeOK'
  <2>1. ASSUME NEW from, Finish(w, from)
        PROVE  /\ task' \in [Workers -> TaskStages]
               /\ owner' \in [Workers -> Launches \cup {NoLaunch}]
               /\ pendingCount' \in [Launches -> Int]
    <3>1. task' \in [Workers -> TaskStages] /\ owner' \in [Workers -> Launches \cup {NoLaunch}]
      BY <2>1 DEF TypeOK, Finish, Step, TaskStages
    <3>2. pendingCount' = [pendingCount EXCEPT ![owner[w]] = pendingCount[owner[w]] - 1]
      BY <2>1 DEF Finish
    <3>3. pendingCount' \in [Launches -> Int]
      <4>1. DOMAIN pendingCount = Launches /\ \A l \in Launches : pendingCount[l] \in Int
        BY DEF TypeOK
      <4>2. \A l \in Launches : pendingCount'[l] \in Int
        BY <3>2, <4>1
      <4>3. pendingCount' = [l \in Launches |-> pendingCount'[l]]
        BY <3>2, <4>1
      <4> QED
        BY <4>2, <4>3
    <3> QED
      BY <3>1, <3>3
  <2>2. CASE StartFails(w) \/ Push(w) \/ Return(w)
    BY <2>1, <2>2 DEF TypeOK, StartFails, Push, Return, Step, TaskStages
  <2>3. CASE Register(w) \/ MarkBusy(w)
    BY <2>3 DEF TypeOK, Register, MarkBusy, Step, TaskStages, States
  <2>4. CASE Abort(w) \/ WorkerEnds(w)
    BY <2>4 DEF TypeOK, Abort, WorkerEnds, MarkIdle, Step, TaskStages, States
  <2> QED
    BY <1>5, <2>2, <2>3, <2>4 DEF WorkerStep
<1>6. CASE UNCHANGED vars
  BY <1>6 DEF TypeOK, vars
<1> QED
  BY <1>1, <1>2, <1>3, <1>4, <1>5, <1>6 DEF Next

\* The loop of runListener ends at its last attempt.
LEMMA StepRetries == TypeOK /\ RetriesLeft /\ [Next]_vars => RetriesLeft'
<1> SUFFICES ASSUME TypeOK, RetriesLeft, [Next]_vars PROVE RetriesLeft'
  OBVIOUS
<1>1. CASE UNCHANGED <<session, attempt>>
  BY <1>1 DEF RetriesLeft
<1>2. ASSUME NEW l \in Launches, CallStep(l) PROVE RetriesLeft'
  BY <1>1, <1>2 DEF TypeOK, RetriesLeft, CallStep, Launch, Poll, LaunchFailed
<1>3. ASSUME NEW l \in Launches, Connect(l) PROVE RetriesLeft'
  <2> SUFFICES ASSUME NEW m \in Launches, session'[m] = "sleep"
               PROVE  attempt'[m] < MaxRetries - 1
    BY DEF RetriesLeft
  <2>1. attempt' = attempt /\ attempt[m] \in 0 .. MaxRetries - 1
    BY <1>3 DEF TypeOK, Connect
  <2>2. CASE session[m] = "sleep"
    BY <2>1, <2>2 DEF RetriesLeft
  <2>3. CASE session[m] # "sleep"
    <3>1. m = l /\ ~LastAttempt(l)
      BY <1>3, <2>3 DEF TypeOK, Connect, FailTo, Goto
    <3> QED
      BY <2>1, <3>1, LimitsAssumption DEF LastAttempt
  <2> QED
    BY <2>2, <2>3
<1>4. ASSUME NEW l \in Launches, SessionStep(l) PROVE RetriesLeft'
  BY <1>3, <1>4
     DEF TypeOK, RetriesLeft, SessionStep, Setup, SleepOver, Announce, RunEnds, Close, Decide,
         Verdict, Delete, FailTo, Goto
<1>5. ASSUME NEW l \in Launches, Start(l) \/ \E count \in Counts : ScaleUp(l, count)
      PROVE  RetriesLeft'
  BY <1>1, <1>5 DEF Start, ScaleUp
<1>6. CASE Stop \/ StopStep \/ Expire \/ UNCHANGED vars
  BY <1>1, <1>6 DEF Stop, StopStep, Halt, Cancel, Expire, vars
<1>7. ASSUME NEW w \in Workers, WorkerStep(w) PROVE RetriesLeft'
  BY <1>1, <1>7 DEF WorkerStep, StartFails, Register, MarkBusy, Push, Abort, Return, WorkerEnds
<1> QED
  BY <1>2, <1>4, <1>5, <1>6, <1>7 DEF Next

\* The types and the attempts that are left.
TypeInv == TypeOK /\ RetriesLeft

LEMMA TypeInvariant == Spec => []TypeInv
<1>1. Init => TypeInv
  BY InitType DEF TypeInv
<1>2. TypeInv /\ [Next]_vars => TypeInv'
  BY StepType, StepRetries DEF TypeInv
<1> QED
  BY <1>1, <1>2, PTL DEF Spec

\* Every reachable state is typed: whatever becomes of a launch, a session or a
\* worker, the attempts stay within maxRetries of runListener.
THEOREM TypeCorrect == Spec => []TypeOK
<1>1. TypeInv => TypeOK
  BY DEF TypeInv
<1> QED
  BY <1>1, TypeInvariant, PTL

-----------------------------------------------------------------------------
(* The launches.                                                            *)

\* A goroutine that has not given its verdict belongs to the entry, which is
\* live; so does a caller that has not launched yet.  A caller that saw Failed
\* finds its own entry, if it is still there, as it was.
Underway == {"setup", "connect", "sleep", "announce", "run", "close", "exited", "fail", "offline"}
LaunchInv ==
  \A l \in Launches :
    /\ session[l] \in Underway => current = l /\ state \notin {"None", "Offline", "Failed"}
    /\ call[l] = "entered" =>
         current = l /\ session[l] = "none" /\ state \notin {"None", "Offline", "Failed"}
    /\ call[l] = "failed" /\ current = l => state = "Failed"
    /\ remote = l => session[l] \in {"announce", "run", "close"}

\* The initial state satisfies it.
LEMMA InitLaunch == Init => LaunchInv
BY SetsAssumption DEF Init, LaunchInv, Underway

\* Every step keeps the launches in order.
LEMMA StepLaunch == TypeOK /\ LaunchInv /\ [Next]_vars => LaunchInv'
<1> SUFFICES ASSUME TypeOK, LaunchInv, [Next]_vars PROVE LaunchInv'
  OBVIOUS
<1> USE DEF Underway
<1>1. CASE UNCHANGED <<state, current, call, session, remote>>
  BY <1>1 DEF LaunchInv
<1>2. ASSUME NEW l \in Launches, state # "Registering" /\ Start(l) PROVE LaunchInv'
  BY <1>2 DEF TypeOK, LaunchInv, Start, Unused
<1>3. ASSUME NEW l \in Launches, CallStep(l) PROVE LaunchInv'
  BY <1>3 DEF TypeOK, LaunchInv, CallStep, Launch, Poll, LaunchFailed
<1>4. ASSUME NEW l \in Launches, SessionStep(l) PROVE LaunchInv'
  <2>1. CASE Setup(l) \/ SleepOver(l) \/ RunEnds(l) \/ Close(l) \/ Decide(l) \/ Delete(l)
    BY <2>1, SetsAssumption
       DEF TypeOK, LaunchInv, Setup, SleepOver, RunEnds, Close, Decide, Delete, FailTo, Goto
  <2>2. CASE Connect(l)
    BY <2>2, SetsAssumption DEF TypeOK, LaunchInv, Connect, FailTo, Goto
  <2>3. CASE Announce(l)
    BY <2>3 DEF TypeOK, LaunchInv, Announce, Goto, Transition, validTransitions
  <2>4. CASE Verdict(l)
    BY <2>4 DEF TypeOK, LaunchInv, Verdict, Goto, Transition
  <2> QED
    BY <1>4, <2>1, <2>2, <2>3, <2>4 DEF SessionStep
<1>5. ASSUME NEW l \in Launches, \E count \in Counts : ScaleUp(l, count) PROVE LaunchInv'
  BY <1>1, <1>5 DEF ScaleUp
<1>6. CASE Stop \/ StopStep \/ Expire \/ UNCHANGED vars
  BY <1>6, SetsAssumption DEF TypeOK, LaunchInv, Stop, StopStep, Halt, Cancel, Expire, vars
<1>7. ASSUME NEW w \in Workers, WorkerStep(w) PROVE LaunchInv'
  <2>1. CASE UNCHANGED state
    BY <1>1, <1>7, <2>1
       DEF WorkerStep, StartFails, Register, MarkBusy, Push, Abort, Return, WorkerEnds
  <2>2. CASE state \in {"Online", "Paused", "Busy"} /\ state' \in {"Online", "Busy"}
    BY <1>7, <2>2
       DEF TypeOK, LaunchInv, WorkerStep, StartFails, Register, MarkBusy, Push, Abort, Return,
           WorkerEnds
  <2> QED
    BY <1>7, <2>1, <2>2
       DEF WorkerStep, StartFails, Register, MarkBusy, Push, Abort, Return, WorkerEnds, MarkIdle
<1> QED
  BY <1>2, <1>3, <1>4, <1>5, <1>6, <1>7 DEF Next

\* The inductive invariant of the lifecycle.
LifeInv == TypeInv /\ LaunchInv

LEMMA LifeInvariant == Spec => []LifeInv
<1>1. Init => LifeInv
  BY InitType, InitLaunch DEF LifeInv, TypeInv
<1>2. LifeInv /\ [Next]_vars => LifeInv'
  BY StepType, StepRetries, StepLaunch DEF LifeInv, TypeInv
<1> QED
  BY <1>1, <1>2, PTL DEF Spec

\* A scale set has at most one session with GitHub, and none while it is shown
\* Offline or Failed, however its launches overlap.
THEOREM SoleCorrect == Spec => []SessionIsSole
<1>1. LifeInv => SessionIsSole
  BY DEF LifeInv, LaunchInv, SessionIsSole, Talking, Underway
<1> QED
  BY <1>1, LifeInvariant, PTL

\* No step takes a stop back.
LEMMA StepDraining == LifeInv /\ [Next]_vars => (state = "Draining" => state' \in {"Draining", "Offline"})
<1> SUFFICES ASSUME LifeInv, [Next]_vars, state = "Draining"
             PROVE  state' \in {"Draining", "Offline"}
  OBVIOUS
<1>1. ASSUME NEW l \in Launches, Start(l) \/ CallStep(l) PROVE state' = "Draining"
  BY <1>1 DEF LifeInv, LaunchInv, Start, CallStep, Launch, Poll, LaunchFailed
<1>2. ASSUME NEW l \in Launches, SessionStep(l) PROVE state' \in {"Draining", "Offline"}
  BY <1>2
     DEF SessionStep, Setup, Connect, SleepOver, Announce, RunEnds, Close, Decide, Verdict, Delete,
         Transition, validTransitions
<1>3. ASSUME NEW l \in Launches, \E count \in Counts : ScaleUp(l, count) PROVE state' = "Draining"
  BY <1>3 DEF ScaleUp
<1>4. CASE Stop \/ StopStep \/ Expire \/ UNCHANGED vars
  BY <1>4 DEF Stop, StopStep, Halt, Cancel, Expire, vars
<1>5. ASSUME NEW w \in Workers, WorkerStep(w) PROVE state' = "Draining"
  BY <1>5
     DEF WorkerStep, StartFails, Register, MarkBusy, Push, Abort, Return, WorkerEnds, MarkIdle
<1> QED
  BY <1>1, <1>2, <1>3, <1>4, <1>5 DEF Next

\* A draining scale set becomes Offline or stays as it is: a launch that fails
\* late, a verdict of the goroutine and a report of a worker do not revive it.
THEOREM DrainingCorrect == Spec => DrainingIsFinal
<1>1. LifeInv /\ [Next]_vars => [state = "Draining" => state' \in {"Draining", "Offline"}]_vars
  BY StepDraining
<1> QED
  BY <1>1, LifeInvariant, PTL DEF Spec, DrainingIsFinal

-----------------------------------------------------------------------------
(* The workers of a scaler.                                                 *)

\* pendingCount is the number of calls of startWorker that have not returned,
\* and a launch without a Scaler has none.
Fresh(l) == call[l] = "entered" \/ session[l] \in {"setup", "connect", "sleep", "announce"}
PendingInv ==
  /\ \A w \in Workers : task[w] # "none" => owner[w] \in Launches
  /\ \A l \in Launches :
       /\ Fresh(l) => Tasks(l) = {}
       /\ pendingCount[l] = Cardinality(Tasks(l))
       /\ Cardinality(StartedBy(l)) =< MaxRunners

\* Sets of workers are finite, and a part of one is not larger.
LEMMA WorkerSets ==
  ASSUME NEW S \in SUBSET Workers
  PROVE  /\ IsFiniteSet(S) /\ Cardinality(S) \in Nat
         /\ \A R \in SUBSET S : IsFiniteSet(R) /\ Cardinality(R) =< Cardinality(S)
BY SetsAssumption, FS_Subset, FS_CardinalityType

\* The initial state satisfies it.
LEMMA InitPending == Init => PendingInv
<1> SUFFICES ASSUME Init PROVE PendingInv
  OBVIOUS
<1>1. \A l \in Launches : Tasks(l) = {} /\ StartedBy(l) = {} /\ pendingCount[l] = 0
  BY SetsAssumption DEF Init, Tasks, StartedBy
<1>2. \A w \in Workers : task[w] = "none"
  BY DEF Init
<1> QED
  BY <1>1, <1>2, FS_EmptySet, LimitsAssumption DEF PendingInv

\* Steps that leave the workers alone, and make no launch fresh.
LEMMA KeepPending ==
  ASSUME PendingInv, UNCHANGED scalerVars, \A l \in Launches : Fresh(l)' => Fresh(l)
  PROVE  PendingInv'
BY DEF PendingInv, Tasks, StartedBy

\* Steps of a worker that start no call and return from none.
LEMMA MovePending ==
  ASSUME PendingInv, UNCHANGED <<call, session, pendingCount>>,
         \A l \in Launches : Tasks(l)' = Tasks(l) /\ StartedBy(l)' \subseteq StartedBy(l),
         \A w \in Workers : task'[w] # "none" => owner'[w] \in Launches
  PROVE  PendingInv'
<1> SUFFICES ASSUME NEW l \in Launches
             PROVE  /\ Fresh(l)' => Tasks(l)' = {}
                    /\ pendingCount'[l] = Cardinality(Tasks(l)')
                    /\ Cardinality(StartedBy(l)') =< MaxRunners
  BY DEF PendingInv
<1>1. (Fresh(l)' <=> Fresh(l)) /\ Tasks(l)' = Tasks(l) /\ StartedBy(l)' \in SUBSET StartedBy(l)
  BY DEF Fresh
<1>2. Cardinality(StartedBy(l)') =< Cardinality(StartedBy(l)) /\ Cardinality(StartedBy(l)) \in Nat
      /\ Cardinality(StartedBy(l)') \in Nat
  BY <1>1, WorkerSets DEF StartedBy
<1> QED
  BY <1>1, <1>2, LimitsAssumption DEF PendingInv

\* A call that returns is taken off the count of its scaler, once.
LEMMA FinishPending ==
  ASSUME TypeOK, PendingInv, NEW w \in Workers, NEW from, from # "none", Finish(w, from),
         UNCHANGED <<call, session, alive>>
  PROVE  PendingInv'
<1> DEFINE o == owner[w]
<1>1. /\ o \in Launches /\ w \in Tasks(o)
      /\ task' = [task EXCEPT ![w] = "none"]
      /\ pendingCount' = [pendingCount EXCEPT ![o] = @ - 1]
      /\ owner' = owner \/ (owner' = [owner EXCEPT ![w] = NoLaunch] /\ w \notin alive)
  <2>1. task[w] = from /\ from # "none"
    BY DEF Finish, Step
  <2>2. o \in Launches /\ w \in Tasks(o)
    BY <2>1 DEF PendingInv, Tasks
  <2> QED
    BY <2>2 DEF Finish, Step
<1>2. \A v \in Workers : task'[v] # "none" => owner'[v] \in Launches
  BY <1>1 DEF TypeOK, PendingInv
<1>3. ASSUME NEW l \in Launches
      PROVE  /\ Tasks(l)' = Tasks(l) \ {w}
             /\ StartedBy(l)' \in SUBSET StartedBy(l)
  BY <1>1, <1>3, SetsAssumption DEF TypeOK, Tasks, StartedBy
<1>4. ASSUME NEW l \in Launches
      PROVE  /\ Fresh(l)' => Tasks(l)' = {}
             /\ pendingCount'[l] = Cardinality(Tasks(l)')
             /\ Cardinality(StartedBy(l)') =< MaxRunners
  <2>1. Fresh(l)' <=> Fresh(l)
    BY DEF Fresh
  <2>2. Tasks(l) \in SUBSET Workers /\ StartedBy(l) \in SUBSET Workers
    BY DEF Tasks, StartedBy
  <2>3. pendingCount'[l] = Cardinality(Tasks(l)')
    <3>1. CASE l = o
      <4>1. pendingCount'[l] = Cardinality(Tasks(l)) - 1
        BY <1>1, <3>1 DEF TypeOK, PendingInv
      <4>2. Cardinality(Tasks(l) \ {w}) = Cardinality(Tasks(l)) - 1
        BY <1>1, <2>2, <3>1, WorkerSets, FS_RemoveElement
      <4> QED
        BY <1>3, <4>1, <4>2
    <3>2. CASE l # o
      <4>1. w \notin Tasks(l)
        BY <3>2 DEF Tasks
      <4>2. pendingCount'[l] = Cardinality(Tasks(l))
        BY <1>1, <3>2 DEF TypeOK, PendingInv
      <4>3. Tasks(l)' = Tasks(l)
        BY <1>3, <4>1
      <4> QED
        BY <4>2, <4>3
    <3> QED
      BY <3>1, <3>2
  <2>4. Cardinality(StartedBy(l)') =< Cardinality(StartedBy(l))
        /\ Cardinality(StartedBy(l)) \in Nat /\ Cardinality(StartedBy(l)') \in Nat
    BY <1>3, <2>2, WorkerSets
  <2> QED
    BY <1>3, <2>1, <2>3, <2>4, LimitsAssumption DEF PendingInv
<1> QED
  BY <1>2, <1>4 DEF PendingInv

\* A scale-up starts what is missing after the registered workers and the calls
\* that have not returned, which cover all workers of the scaler.
LEMMA ScaleUpPending ==
  ASSUME TypeOK, LaunchInv, PendingInv, NEW l \in Launches, NEW count \in Counts, ScaleUp(l, count)
  PROVE  PendingInv'
<1> DEFINE n == (IF count < MaxRunners THEN count ELSE MaxRunners)
                - (Cardinality(alive) + pendingCount[l])
<1>1. PICK W \in SUBSET Free :
        /\ Cardinality(W) = n
        /\ task' = [w \in Workers |-> IF w \in W THEN "queued" ELSE task[w]]
        /\ owner' = [w \in Workers |-> IF w \in W THEN l ELSE owner[w]]
  BY DEF ScaleUp
<1>2. /\ pendingCount' = [pendingCount EXCEPT ![l] = @ + n]
      /\ UNCHANGED <<call, session, alive>> /\ session[l] = "run" /\ call[l] = call'[l]
  BY DEF ScaleUp
<1>3. W \in SUBSET Workers /\ alive \in SUBSET Workers /\ Tasks(l) \in SUBSET Workers
  BY <1>1 DEF TypeOK, Free, Tasks
<1>4. Tasks(l)' = Tasks(l) \cup W /\ Tasks(l) \cap W = {}
  BY <1>1 DEF Tasks, Free
<1>5. ASSUME NEW m \in Launches, m # l
      PROVE  Tasks(m)' = Tasks(m) /\ StartedBy(m)' = StartedBy(m)
  BY <1>1, <1>2, <1>5 DEF Tasks, StartedBy, Free
<1>6. Cardinality(Tasks(l)') = Cardinality(Tasks(l)) + n
  <2>1. IsFiniteSet(W) /\ IsFiniteSet(Tasks(l)) /\ Cardinality(Tasks(l)) \in Nat
        /\ Cardinality(W) \in Nat
    BY <1>3, WorkerSets
  <2>2. Cardinality(Tasks(l) \cup W)
          = Cardinality(Tasks(l)) + Cardinality(W) - Cardinality(Tasks(l) \cap W)
    BY <2>1, FS_Union
  <2>3. Cardinality(Tasks(l) \cap W) = 0
    BY <1>4, FS_EmptySet
  <2>4. Cardinality(Tasks(l)') = Cardinality(Tasks(l)) + Cardinality(W)
    BY <1>4, <2>1, <2>2, <2>3
  <2> QED
    BY <1>1, <2>4
<1>7. StartedBy(l)' \in SUBSET (alive \cup Tasks(l)')
  BY <1>2 DEF StartedBy, Tasks
<1>8. Cardinality(StartedBy(l)') =< MaxRunners
  <2>1. Tasks(l)' \in SUBSET Workers /\ StartedBy(l)' \in SUBSET Workers
    BY DEF Tasks, StartedBy
  <2>2. /\ Cardinality(alive \cup Tasks(l)')
             = Cardinality(alive) + Cardinality(Tasks(l)') - Cardinality(alive \cap Tasks(l)')
        /\ Cardinality(alive \cap Tasks(l)') \in Nat
        /\ Cardinality(alive) \in Nat /\ Cardinality(Tasks(l)') \in Nat
    BY <1>3, <2>1, WorkerSets, FS_Union
  <2>3. /\ Cardinality(StartedBy(l)') =< Cardinality(alive \cup Tasks(l)')
        /\ Cardinality(StartedBy(l)') \in Nat
    BY <1>3, <1>7, <2>1, WorkerSets
  <2>4. Cardinality(Tasks(l)) = pendingCount[l] /\ pendingCount[l] \in Int
    BY DEF PendingInv, TypeOK
  <2>5. Cardinality(Tasks(l)') + Cardinality(alive) =< MaxRunners
    BY <1>6, <2>2, <2>4, LimitsAssumption
  <2> QED
    BY <2>2, <2>3, <2>5, LimitsAssumption
<1>9. ~Fresh(l)' /\ \A m \in Launches : Fresh(m)' <=> Fresh(m)
  <2>1. call[l] # "entered"
    BY <1>2 DEF LaunchInv
  <2> QED
    BY <1>2, <2>1 DEF Fresh
<1>10. \A w \in Workers : task'[w] # "none" => owner'[w] \in Launches
  BY <1>1 DEF PendingInv
<1>11. pendingCount'[l] = Cardinality(Tasks(l)')
  BY <1>2, <1>6 DEF PendingInv, TypeOK
<1>12. ASSUME NEW m \in Launches, m # l PROVE pendingCount'[m] = pendingCount[m]
  BY <1>2, <1>12 DEF TypeOK
<1> QED
  BY <1>5, <1>8, <1>9, <1>10, <1>11, <1>12 DEF PendingInv

\* A transition to a fresh stage comes from one, or from a launch without calls.
LEMMA SessionPending ==
  ASSUME TypeOK, LaunchInv, PendingInv, NEW l \in Launches, SessionStep(l)
  PROVE  PendingInv'
<1>1. CASE UNCHANGED pendingCount
  <2>1. UNCHANGED <<call, scalerVars>>
    BY <1>1
       DEF SessionStep, Setup, Connect, SleepOver, Announce, RunEnds, Close, Decide, Verdict, Delete
  <2>2. \A m \in Launches : Fresh(m)' => Fresh(m)
    <3>1. session[l] \in {"setup", "connect", "sleep", "announce"}
          \/ session'[l] \notin {"setup", "connect", "sleep", "announce"}
      BY DEF TypeOK, SessionStep, Setup, Connect, SleepOver, Announce, RunEnds, Close, Decide,
             Verdict, Delete, FailTo, Goto
    <3>2. \A m \in Launches : m # l => session'[m] = session[m]
      BY DEF TypeOK, SessionStep, Setup, Connect, SleepOver, Announce, RunEnds, Close, Decide,
             Verdict, Delete, FailTo, Goto
    <3> QED
      BY <2>1, <3>1, <3>2 DEF Fresh
  <2> QED
    BY <2>1, <2>2, KeepPending
<1>2. CASE Announce(l) /\ pendingCount' # pendingCount
  <2>1. /\ pendingCount' = [pendingCount EXCEPT ![l] = 0] /\ Fresh(l)
        /\ UNCHANGED <<call, task, owner, alive>> /\ session' = [session EXCEPT ![l] = "run"]
    BY <1>2 DEF Announce, Goto, Fresh
  <2>2. pendingCount[l] = 0
    BY <2>1, FS_EmptySet DEF PendingInv
  <2> QED
    BY <1>2, <2>1, <2>2 DEF TypeOK
<1> QED
  BY <1>1, <1>2
     DEF SessionStep, Setup, Connect, SleepOver, RunEnds, Close, Decide, Verdict, Delete

\* Every step keeps the counts.
LEMMA StepPending == LifeInv /\ PendingInv /\ [Next]_vars => PendingInv'
<1> SUFFICES ASSUME TypeOK, LaunchInv, PendingInv, [Next]_vars PROVE PendingInv'
  BY DEF LifeInv, TypeInv
<1>1. ASSUME NEW l \in Launches, Start(l) PROVE PendingInv'
  <2>1. /\ Tasks(l) = {} /\ session[l] = "none"
        /\ call' = [call EXCEPT ![l] = "entered"] /\ UNCHANGED <<session, task, alive, pendingCount>>
        /\ owner' = [w \in Workers |-> IF owner[w] = l THEN NoLaunch ELSE owner[w]]
    BY <1>1 DEF Start, Unused
  <2>2. ASSUME NEW m \in Launches, m # l
        PROVE  Tasks(m)' = Tasks(m) /\ StartedBy(m)' = StartedBy(m) /\ (Fresh(m)' <=> Fresh(m))
    BY <2>1, <2>2, SetsAssumption DEF TypeOK, Tasks, StartedBy, Fresh
  <2>3. Tasks(l)' = {} /\ StartedBy(l)' = {}
    BY <2>1, SetsAssumption DEF Tasks, StartedBy
  <2>4. \A w \in Workers : task'[w] # "none" => owner'[w] \in Launches
    BY <2>1 DEF PendingInv, Tasks
  <2>5. pendingCount'[l] = Cardinality(Tasks(l)') /\ Cardinality(StartedBy(l)') =< MaxRunners
    BY <2>1, <2>3, FS_EmptySet, LimitsAssumption DEF PendingInv
  <2> QED
    BY <2>1, <2>2, <2>3, <2>4, <2>5 DEF PendingInv
<1>2. ASSUME NEW l \in Launches, CallStep(l) PROVE PendingInv'
  <2>1. UNCHANGED scalerVars
    BY <1>2 DEF CallStep, Launch, Poll, LaunchFailed
  <2>2. \A m \in Launches : Fresh(m)' => Fresh(m)
    BY <1>2 DEF TypeOK, CallStep, Launch, Poll, LaunchFailed, Fresh
  <2> QED
    BY <2>1, <2>2, KeepPending
<1>3. CASE Stop \/ StopStep \/ Expire \/ UNCHANGED vars
  <2>1. UNCHANGED <<call, session, scalerVars>>
    BY <1>3 DEF Stop, StopStep, Halt, Cancel, Expire, vars
  <2>2. \A m \in Launches : Fresh(m)' => Fresh(m)
    BY <2>1 DEF Fresh
  <2> QED
    BY <2>1, <2>2, KeepPending
<1>4. ASSUME NEW w \in Workers, WorkerStep(w) PROVE PendingInv'
  <2>1. ASSUME NEW from, from # "none", Finish(w, from), UNCHANGED <<call, session, alive>>
        PROVE  PendingInv'
    BY <2>1, FinishPending
  <2>2. CASE StartFails(w)
    BY <2>1, <2>2 DEF StartFails
  <2>3. CASE Return(w)
    BY <2>1, <2>3 DEF Return
  <2>4. CASE Push(w) /\ Finish(w, "push")
    BY <2>1, <2>4 DEF Push
  <2>5. CASE \/ Register(w) \/ MarkBusy(w) \/ Abort(w) \/ WorkerEnds(w)
             \/ Push(w) /\ Step(w, "push", "abort") /\ UNCHANGED <<owner, pendingCount>>
    <3>1. UNCHANGED <<call, session, pendingCount>>
      BY <2>5 DEF Register, MarkBusy, Push, Abort, WorkerEnds
    <3>2. \A v \in Workers :
            /\ task'[v] # "none" <=> task[v] # "none"
            /\ owner'[v] = owner[v] \/ (owner'[v] = NoLaunch /\ task[v] = "none")
            /\ v \in alive' \/ task'[v] = "queued" => v \in alive \/ task[v] = "queued"
      BY <2>5 DEF TypeOK, Register, MarkBusy, Push, Abort, WorkerEnds, Step
    <3>3. \A l \in Launches : Tasks(l)' = Tasks(l) /\ StartedBy(l)' \subseteq StartedBy(l)
      BY <3>2, SetsAssumption DEF Tasks, StartedBy
    <3>4. \A v \in Workers : task'[v] # "none" => owner'[v] \in Launches
      BY <3>2 DEF PendingInv
    <3> QED
      BY <3>1, <3>3, <3>4, MovePending
  <2> QED
    BY <1>4, <2>2, <2>3, <2>4, <2>5 DEF WorkerStep, Push
<1> QED
  BY <1>1, <1>2, <1>3, <1>4, SessionPending, ScaleUpPending DEF Next

\* A scaler never has more workers, registered or on their way, than
\* max_runners: what it reads apart, the registered workers and pendingCount,
\* covers all of them whenever its mutex is held.
THEOREM WithinMaxCorrect == Spec => []WithinMax
<1> DEFINE Inv == LifeInv /\ PendingInv
<1>1. Init => Inv
  BY InitType, InitLaunch, InitPending DEF LifeInv, TypeInv
<1>2. Inv /\ [Next]_vars => Inv'
  BY StepType, StepRetries, StepLaunch, StepPending DEF LifeInv, TypeInv
<1>3. Inv => WithinMax
  BY DEF PendingInv, WithinMax
<1> QED
  BY <1>1, <1>2, <1>3, PTL DEF Spec
=============================================================================
