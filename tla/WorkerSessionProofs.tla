------------------------- MODULE WorkerSessionProofs -------------------------
(***************************************************************************)
(* Theorems about WorkerSession, for every set of exit codes, every number *)
(* of attempts and every set of mishaps.                                   *)
(***************************************************************************)
EXTENDS WorkerSession, TLAPS

(***************************************************************************)
(* As long as nothing has gone wrong and the shim's own connection started *)
(* the worker, the session goes by the plan: the bridge is taken down by   *)
(* the end of the worker only, the exit code is known after that, and the  *)
(* container outlives the shim's first and only attempt to fetch it.       *)
(***************************************************************************)
Clean == mishaps = {} /\ starter # "jit"

\* Before the worker is started.
Waits ==
    /\ starter = "none" => worker = "none" /\ conn \in {"none", "queued"}
    /\ starter = "tcp" => worker # "none" /\ conn \in {"open", "shut"}
    /\ shim = "away" => conn = "none"

\* The order in which the bridge goes down.
GoesDown ==
    /\ ~stuck
    /\ worker \in {"running", "exited", "closing"} => HeaderSent
    /\ worker \in {"running", "exited"} => copyOut
    /\ conn = "shut" => worker = "closing"
    /\ worker = "closing" => copyOut \/ conn = "shut"
    /\ finished # NoCode => worker = "closing" /\ conn = "shut" /\ finished = code
    /\ main # "waiting" => finished # NoCode

\* The exit code is fetched once, before the container ends.
IsFetched ==
    /\ shim # "sleep"
    /\ shim \in {"away", "dialed", "bridge"} => attempt = 0
    /\ shim = "get" => conn = "shut" /\ attempt = 1
    /\ shim = "ended" => worker = "closing" /\ result = code
    /\ \A k \in Attempts :
          /\ handler[k] # "none" => k = attempt /\ shim \in {"get", "ended"}
          /\ handler[k] \in {"flushed", "done"} => shim = "ended"
    /\ fetched \/ main = "exited" => shim = "ended"

Plan == Waits /\ GoesDown /\ IsFetched

PlanInv == Clean => Plan

USE DEF bridge, wait, host

-----------------------------------------------------------------------------
(* Types.                                                                  *)

\* The initial state is typed.
LEMMA InitType == Init => TypeOK
<1> SUFFICES ASSUME Init PROVE TypeOK
  OBVIOUS
<1>1. 0 \in 0 .. MaxAttempts
  BY WorkerSessionAssumption
<1> QED
  BY <1>1 DEF Init, TypeOK

\* A mishap is one of those that may happen.
LEMMA MishapType == ASSUME TypeOK, NEW f, Mishap(f) PROVE mishaps' \subseteq Faults
BY DEF TypeOK, Mishap

\* An attempt starts a handler.
LEMMA GetType ==
  ASSUME TypeOK, NEW k \in Attempts, Get(k)
  PROVE  /\ shim' = "get" /\ attempt' \in 0 .. MaxAttempts
         /\ handler' \in [Attempts -> {"none", "blocked", "flushed", "done"}]
BY WorkerSessionAssumption DEF TypeOK, Get, Attempts

\* Every step keeps the types.
LEMMA StepType == TypeOK /\ [Next]_vars => TypeOK'
<1> SUFFICES ASSUME TypeOK, [Next]_vars PROVE TypeOK'
  OBVIOUS
<1>1. CASE Dial \/ WriteHeader \/ Accept \/ StartJIT \/ Spawn
  <2>1. CASE Dial \/ WriteHeader
    BY <2>1 DEF TypeOK, Dial, WriteHeader
  <2>2. CASE Accept
    BY <2>2 DEF TypeOK, Accept
  <2>3. CASE StartJIT \/ Spawn
    BY <2>3 DEF TypeOK, StartJIT, Spawn
  <2> QED
    BY <1>1, <2>1, <2>2, <2>3
<1>2. CASE DialFails
  BY <1>2, MishapType DEF TypeOK, DialFails, Exit
<1>3. CASE Kill
  BY <1>3, MishapType DEF TypeOK, Kill, Exit
<1>4. CASE SpawnFails
  BY <1>4, MishapType DEF TypeOK, SpawnFails, AsPlanned
<1>5. CASE WorkerExits
  <2>1. mishaps' \subseteq Faults
    BY <1>5, MishapType DEF TypeOK, WorkerExits, AsPlanned
  <2>2. code' \in Codes /\ stuck' \in BOOLEAN
    BY <1>5 DEF TypeOK, WorkerExits
  <2>3. /\ worker' = "exited"
        /\ UNCHANGED <<starter, conn, copyIn, copyOut, wait, host>>
    BY <1>5 DEF WorkerExits
  <2> QED
    BY <2>1, <2>2, <2>3 DEF TypeOK
<1>6. CASE CloseWorkerWrite \/ Collect \/ CopyOutEnds \/ CopyInEnds \/ Finish \/ Grace
  <2>1. CASE CloseWorkerWrite
    BY <2>1 DEF TypeOK, CloseWorkerWrite
  <2>2. CASE Collect
    <3>1. stuck' \in BOOLEAN
      BY <2>2 DEF Collect
    <3>2. UNCHANGED <<starter, worker, code, conn, copyIn, copyOut, wait, host, mishaps>>
      BY <2>2 DEF Collect
    <3> QED
      BY <3>1, <3>2 DEF TypeOK
  <2>3. CASE CopyOutEnds \/ CopyInEnds
    BY <2>3 DEF TypeOK, CopyOutEnds, CopyInEnds
  <2>4. CASE Finish \/ Grace
    BY <2>4 DEF TypeOK, Finish, Grace
  <2> QED
    BY <1>6, <2>1, <2>2, <2>3, <2>4
<1>7. CASE Fetched
  BY <1>7 DEF TypeOK, Fetched, Exit
<1>8. CASE GraceOver
  BY <1>8, MishapType DEF TypeOK, GraceOver, Exit, AsPlanned
<1>9. ASSUME NEW k \in Attempts, Respond(k) \/ Signal(k) PROVE TypeOK'
  <2>1. CASE Respond(k)
    BY <2>1 DEF TypeOK, Respond, Receive
  <2>2. CASE Signal(k)
    BY <2>2 DEF TypeOK, Signal
  <2> QED
    BY <1>9, <2>1, <2>2
<1>10. CASE StreamEnds
  <2>1. 1 \in Attempts
    BY WorkerSessionAssumption DEF Attempts
  <2> QED
    BY <1>10, <2>1, GetType, MishapType DEF TypeOK, StreamEnds, AsPlanned
<1>11. CASE GetTimesOut
  BY <1>11, MishapType DEF TypeOK, GetTimesOut, AsPlanned
<1>12. CASE GetFails \/ GiveUp
  BY <1>12 DEF TypeOK, GetFails, GiveUp
<1>13. CASE Retry
  <2>1. attempt + 1 \in Attempts
    BY <1>13, WorkerSessionAssumption DEF TypeOK, Retry, Attempts
  <2> QED
    BY <1>13, <2>1, GetType DEF TypeOK, Retry
<1>14. CASE UNCHANGED vars
  BY <1>14 DEF TypeOK, vars
<1> QED
  BY <1>1, <1>2, <1>3, <1>4, <1>5, <1>6, <1>7, <1>8, <1>9, <1>10, <1>11, <1>12, <1>13, <1>14
     DEF Next, Launcher, Shim

\* Every reachable state is typed, under every mishap: the attempts stay within
\* MaxAttempts and every process is in a stage of its own.
THEOREM TypeCorrect == Spec => []TypeOK
BY InitType, StepType, PTL DEF Spec

-----------------------------------------------------------------------------
(* The plan.                                                               *)

\* A session that is clean after a step was clean before it.
LEMMA StaysDirty == ASSUME TypeOK, [Next]_vars, Clean' PROVE Clean
<1>1. ASSUME NEW f, Mishap(f) PROVE FALSE
  BY <1>1 DEF Mishap, Clean
<1>2. mishaps' = mishaps /\ starter # "jit"
  BY <1>1 DEF Clean, Next, vars, Launcher, Shim, Dial, DialFails, StartJIT, Kill, Accept, Spawn,
     SpawnFails, WorkerExits, CloseWorkerWrite, Collect, CopyOutEnds, CopyInEnds, Finish, Grace,
     Fetched, GraceOver, Respond, Signal, WriteHeader, StreamEnds, GetTimesOut, GetFails, Retry,
     GiveUp, AsPlanned
<1> QED
  BY <1>2 DEF Clean

\* A session that starts is clean and goes by the plan.
LEMMA InitPlan == Init => Plan
BY DEF Init, Plan, Waits, GoesDown, IsFetched

\* The steps of the shim before the bridge, and those that start the worker.
LEMMA StartKeepsPlan ==
  ASSUME TypeOK, Plan, Clean, Clean',
         Dial \/ WriteHeader \/ Accept \/ StartJIT \/ Spawn
  PROVE  Plan'
<1>1. CASE Dial
  BY <1>1 DEF TypeOK, Plan, Waits, GoesDown, IsFetched, Clean, HeaderSent, Dial
<1>2. CASE WriteHeader
  BY <1>2 DEF TypeOK, Plan, Waits, GoesDown, IsFetched, Clean, HeaderSent, WriteHeader
<1>3. CASE Accept
  BY <1>3 DEF TypeOK, Plan, Waits, GoesDown, IsFetched, Clean, HeaderSent, Accept
<1>4. CASE StartJIT
  BY <1>4 DEF Clean, StartJIT
<1>5. CASE Spawn
  BY <1>5 DEF TypeOK, Plan, Waits, GoesDown, IsFetched, Clean, HeaderSent, Spawn
<1> QED
  BY <1>1, <1>2, <1>3, <1>4, <1>5

\* The end of the worker and of the bridge.
LEMMA EndKeepsPlan ==
  ASSUME TypeOK, Plan, Clean, Clean',
         WorkerExits \/ CloseWorkerWrite \/ Collect \/ CopyOutEnds \/ CopyInEnds \/ Finish \/ Grace
  PROVE  Plan'
<1>1. CASE WorkerExits
  <2>1. UNCHANGED stuck
    BY <1>1 DEF WorkerExits, Mishap, Clean
  <2> QED
    BY <1>1, <2>1 DEF TypeOK, Plan, Waits, GoesDown, IsFetched, Clean, HeaderSent, WorkerExits
<1>2. CASE CloseWorkerWrite
  BY <1>2 DEF TypeOK, Plan, Waits, GoesDown, IsFetched, Clean, HeaderSent, CloseWorkerWrite
<1>3. CASE Collect
  BY <1>3 DEF Plan, GoesDown, Collect
<1>4. CASE CopyOutEnds
  BY <1>4 DEF TypeOK, Plan, Waits, GoesDown, IsFetched, Clean, HeaderSent, CopyOutEnds
<1>5. CASE CopyInEnds
  BY <1>5 DEF TypeOK, Plan, Waits, GoesDown, IsFetched, Clean, HeaderSent, CopyInEnds
<1>6. CASE Finish
  BY <1>6 DEF TypeOK, Plan, Waits, GoesDown, IsFetched, Clean, HeaderSent, Finish
<1>7. CASE Grace
  BY <1>7 DEF TypeOK, Plan, Waits, GoesDown, IsFetched, Clean, HeaderSent, Grace
<1> QED
  BY <1>1, <1>2, <1>3, <1>4, <1>5, <1>6, <1>7

\* The answers of the handlers and the end of the container: the only handler
\* that can have answered is the one of the attempt the shim has made.
LEMMA AnswerKeepsPlan ==
  ASSUME TypeOK, Plan, Clean, Clean',
         Fetched \/ GraceOver \/ (\E k \in Attempts : Respond(k) \/ Signal(k))
  PROVE  Plan'
<1>1. CASE Fetched
  BY <1>1 DEF TypeOK, Plan, Waits, GoesDown, IsFetched, Clean, HeaderSent, Fetched, Exit
<1>2. CASE GraceOver
  <2>1. ~(shim \in {"get", "sleep"} \/ (shim = "bridge" /\ conn = "shut"))
    BY <1>2 DEF GraceOver, Mishap, Clean
  <2>2. shim = "ended"
    BY <1>2, <2>1 DEF TypeOK, Plan, Waits, GoesDown, IsFetched, HeaderSent, GraceOver
  <2> QED
    BY <1>2, <2>2 DEF TypeOK, Plan, Waits, GoesDown, IsFetched, Clean, HeaderSent, GraceOver, Exit
<1>3. ASSUME NEW k \in Attempts, Respond(k) PROVE Plan'
  <2>1. k = attempt /\ shim \in {"get", "ended"}
    BY <1>3 DEF Plan, IsFetched, Respond
  <2>2. shim' = "ended" /\ result' = code
    BY <1>3, <2>1 DEF Plan, GoesDown, IsFetched, Respond, Receive
  <2> QED
    BY <1>3, <2>1, <2>2 DEF TypeOK, Plan, Waits, GoesDown, IsFetched, Clean, HeaderSent, Respond
<1>4. ASSUME NEW k \in Attempts, Signal(k) PROVE Plan'
  BY <1>4 DEF TypeOK, Plan, Waits, GoesDown, IsFetched, Clean, HeaderSent, Signal
<1> QED
  BY <1>1, <1>2, <1>3, <1>4

\* The shim's attempts: the first one succeeds, so that none follows.
LEMMA FetchKeepsPlan ==
  ASSUME TypeOK, Plan, Clean, Clean', StreamEnds \/ GetTimesOut \/ GetFails \/ Retry \/ GiveUp
  PROVE  Plan'
<1>1. CASE StreamEnds
  <2>1. conn = "shut" /\ main # "exited"
    BY <1>1 DEF StreamEnds, Mishap, Clean, Plan, IsFetched
  <2>2. shim' = "get" /\ attempt' = 1 /\ attempt = 0
    BY <1>1 DEF StreamEnds, Get, Plan, IsFetched
  <2>3. \A k \in Attempts : handler[k] = "none" /\ (handler'[k] # "none" => k = 1 /\ handler'[k] = "blocked")
    BY <1>1, <2>2 DEF TypeOK, StreamEnds, Get, Plan, IsFetched
  <2>4. ~fetched
    BY <1>1 DEF StreamEnds, Plan, IsFetched
  <2> QED
    BY <1>1, <2>1, <2>2, <2>3, <2>4 DEF TypeOK, Plan, Waits, GoesDown, IsFetched, Clean, HeaderSent, StreamEnds
<1>2. CASE GetTimesOut
  BY <1>2 DEF GetTimesOut, Mishap, Clean, Plan, GoesDown, IsFetched
<1>3. CASE GetFails
  BY <1>3 DEF GetFails, Plan, IsFetched
<1>4. CASE Retry \/ GiveUp
  BY <1>4 DEF Retry, GiveUp, Plan, IsFetched
<1> QED
  BY <1>1, <1>2, <1>3, <1>4

\* Every step keeps to the plan as long as nothing goes wrong.
LEMMA StepPlan == TypeOK /\ PlanInv /\ [Next]_vars => PlanInv'
<1> SUFFICES ASSUME TypeOK, PlanInv, [Next]_vars, Clean' PROVE Plan'
  BY DEF PlanInv
<1>1. Clean /\ Plan
  BY StaysDirty DEF PlanInv
<1>2. CASE DialFails \/ Kill
  BY <1>2 DEF DialFails, Kill, Mishap, Clean
<1>3. CASE SpawnFails
  BY <1>1, <1>3 DEF SpawnFails, Mishap, Clean, Plan, GoesDown
<1>4. CASE UNCHANGED vars
  BY <1>1, <1>4 DEF vars, Plan, Waits, GoesDown, IsFetched, HeaderSent
<1> QED
  BY <1>1, <1>2, <1>3, <1>4, StartKeepsPlan, EndKeepsPlan, AnswerKeepsPlan, FetchKeepsPlan
     DEF Next, Launcher, Shim

-----------------------------------------------------------------------------
(* Delivery.                                                               *)

\* Whatever goes wrong, an exit code that is passed on is the worker's or 1.
OwnCode ==
    starter # "jit" =>
        /\ starter = "none" => worker = "none"
        /\ finished # NoCode => worker \in {"exited", "closing"} /\ finished \in {code, Failed}
        /\ result \in {NoCode, Failed} \/ (result = code /\ finished # NoCode)
        /\ shim = "ended" => result # NoCode

\* A session that starts passes on nothing.
LEMMA InitCode == Init => OwnCode
BY DEF Init, OwnCode

\* Every step keeps the code that is passed on the worker's own.
LEMMA StepCode == TypeOK /\ OwnCode /\ [Next]_vars => OwnCode'
<1> SUFFICES ASSUME TypeOK, OwnCode, [Next]_vars, starter' # "jit" PROVE OwnCode'
  BY DEF OwnCode
<1>1. CASE Dial \/ WriteHeader \/ Accept
  BY <1>1 DEF TypeOK, OwnCode, Dial, WriteHeader, Accept
<1>2. CASE DialFails
  BY <1>2, WorkerSessionAssumption DEF TypeOK, OwnCode, DialFails
<1>3. CASE StartJIT
  BY <1>3 DEF StartJIT
<1>4. CASE Kill \/ Fetched \/ GraceOver \/ Grace
  BY <1>4 DEF TypeOK, OwnCode, Kill, Fetched, GraceOver, Grace
<1>5. CASE Spawn \/ CloseWorkerWrite
  BY <1>5 DEF TypeOK, OwnCode, Spawn, CloseWorkerWrite
<1>6. CASE SpawnFails
  BY <1>6, WorkerSessionAssumption DEF TypeOK, OwnCode, SpawnFails
<1>7. CASE WorkerExits
  BY <1>7 DEF TypeOK, OwnCode, WorkerExits
<1>8. CASE Collect \/ CopyOutEnds \/ CopyInEnds
  BY <1>8 DEF TypeOK, OwnCode, Collect, CopyOutEnds, CopyInEnds
<1>9. CASE Finish
  BY <1>9 DEF TypeOK, OwnCode, Finish
<1>10. ASSUME NEW k \in Attempts, Respond(k) PROVE OwnCode'
  BY <1>10 DEF TypeOK, OwnCode, Respond, Receive
<1>11. ASSUME NEW k \in Attempts, Signal(k) PROVE OwnCode'
  BY <1>11 DEF TypeOK, OwnCode, Signal
<1>12. CASE StreamEnds \/ Retry
  BY <1>12 DEF TypeOK, OwnCode, StreamEnds, Retry, Get
<1>13. CASE GetTimesOut \/ GetFails
  BY <1>13 DEF TypeOK, OwnCode, GetTimesOut, GetFails
<1>14. CASE GiveUp
  BY <1>14, WorkerSessionAssumption DEF TypeOK, OwnCode, GiveUp
<1>15. CASE UNCHANGED vars
  BY <1>15 DEF vars, OwnCode
<1> QED
  BY <1>1, <1>2, <1>3, <1>4, <1>5, <1>6, <1>7, <1>8, <1>9, <1>10, <1>11, <1>12, <1>13, <1>14, <1>15
     DEF Next, Launcher, Shim

\* A shim that ends passes on the exit code of its worker, or a failure of its own
\* if something went wrong: for every number of attempts and every mishap.
THEOREM DeliveryCorrect == Spec => []ExitCodeDelivered
<1> DEFINE IInv == TypeOK /\ PlanInv /\ OwnCode
<1>1. Init => IInv
  BY InitType, InitPlan, InitCode DEF PlanInv
<1>2. IInv /\ [Next]_vars => IInv'
  BY StepType, StepPlan, StepCode
<1>3. IInv => ExitCodeDelivered
  BY DEF PlanInv, Clean, Plan, IsFetched, OwnCode, ExitCodeDelivered
<1> QED
  BY <1>1, <1>2, <1>3, PTL DEF Spec
=============================================================================
