------------------------- MODULE StandaloneManager --------------------------
(***************************************************************************)
(* Standalone runners: the lifecycle table of BaseManager, the goroutine   *)
(* that launches a Runner.Listener, waits for it and retries, Stop and     *)
(* Halt, and the pauser that freezes idle listeners (SIGSTOP) when the     *)
(* orchestrator is at max_workers.                                         *)
(*                                                                         *)
(* External: the listener process, the orchestrator that registers and     *)
(* buries workers and evaluates the capacity, and the administrator, who   *)
(* starts a runner only when it is not live (UpdateRunner's check) and     *)
(* one request at a time.  Every action is one critical section of Mu, or  *)
(* one step of a process or a goroutine outside it.                        *)
(***************************************************************************)
EXTENDS Integers, FiniteSets
LOCAL INSTANCE Functions

CONSTANTS
  Runners,             \* names of standalone runners
  MaxWorkers,          \* max_workers of the orchestrator
  MaxListenerRetries,  \* maxListenerRetries
  JobBound,            \* bound: jobs of one runner at a time, and drift of its ActiveWorkers
  OtherBound,          \* bound: workers of scale sets
  Faults               \* which failures may happen, see FaultKinds

FaultKinds == {"env", "spawn", "exit"}

ASSUME RunnersAssumption == IsFiniteSet(Runners)
ASSUME LimitsAssumption ==
  /\ MaxWorkers \in Nat /\ MaxListenerRetries \in Nat
  /\ JobBound \in Nat /\ OtherBound \in Nat
  /\ Faults \subseteq FaultKinds

VARIABLES
  state,          \* ProcessState.State, "None" for a runner without an entry
  activeWorkers,  \* ProcessState.ActiveWorkers
  globalPaused,   \* StandaloneManager.globalPaused, equal to the orchestrator's isPaused
  cmd,            \* ListenerData.Cmd is set
  retryCancel,    \* ListenerData.retryCancel is set
  cancelled,      \* the channel of the current backoff is closed
  mon, target,    \* the goroutine of Start and startRunner: stage, state to move to
  attempt,        \* its retry count
  listener,       \* the process: "none", "running", "frozen" or "zombie" (exited, not waited for)
  cleanExit,      \* its exit status was zero
  stop,           \* the caller of Stop: "idle", "halt", "kill" (halt with force) or "poll"
  aimed,          \* the process that Halt captured is the one in listener
  asked,          \* a shim of this runner waits in AllocateWorker
  live, toMark,   \* registered workers, and those MarkBusy was not called for yet
  others,         \* registered workers of scale sets
  evalDue         \* an evaluateCapacity is due

tableVars    == <<state, activeWorkers, globalPaused>>
dataVars     == <<cmd, retryCancel, cancelled>>
monVars      == <<mon, target, attempt>>
processVars  == <<listener, cleanExit>>
stopVars     == <<stop, aimed>>
workerVars   == <<asked, live, toMark, others, evalDue>>
vars == <<tableVars, dataVars, monVars, processVars, stopVars, workerVars>>

States == {"Registering", "Online", "Busy", "Paused", "Draining", "Offline", "Failed"}
MonStages == {"off", "init", "spawn", "install", "mark", "wait", "exited", "offline", "clear",
              "retry", "arm", "backoff"}

validTransitions == [
  Registering |-> {"Online", "Failed", "Offline"},
  Online      |-> {"Busy", "Paused", "Draining", "Failed", "Offline"},
  Busy        |-> {"Online", "Draining", "Failed"},
  Paused      |-> {"Online", "Draining"},
  Draining    |-> {"Offline"},
  Offline     |-> {"Registering"},
  Failed      |-> {"Registering", "Offline"}]

\* Slip: the table is not asked.
TransitionUnchecked(r, to) == state' = [state EXCEPT ![r] = to]

\* Transition: the callers ignore the error, a rejected transition leaves the state.
Transition(r, to) ==
  state' = [state EXCEPT ![r] = IF to \in validTransitions[state[r]] THEN to ELSE state[r]]

Alive(r) == listener[r] \in {"running", "frozen"}

Init ==
  /\ state = [r \in Runners |-> "None"]
  /\ activeWorkers = [r \in Runners |-> 0] /\ globalPaused = FALSE
  /\ cmd = [r \in Runners |-> FALSE] /\ retryCancel = [r \in Runners |-> FALSE]
  /\ cancelled = [r \in Runners |-> FALSE]
  /\ mon = [r \in Runners |-> "off"] /\ target = [r \in Runners |-> "Online"]
  /\ attempt = [r \in Runners |-> 0]
  /\ listener = [r \in Runners |-> "none"] /\ cleanExit = [r \in Runners |-> FALSE]
  /\ stop = [r \in Runners |-> "idle"] /\ aimed = [r \in Runners |-> FALSE]
  /\ asked = [r \in Runners |-> FALSE]
  /\ live = [r \in Runners |-> 0] /\ toMark = [r \in Runners |-> 0]
  /\ others = 0 /\ evalDue = FALSE

-----------------------------------------------------------------------------
(* Start and Launch.                                                        *)

\* BaseManager.Start makes a new entry.  The goroutine of an earlier start is
\* past its last write to the table, and ListenerData is replaced by Launch.
Start(r) ==
  /\ state[r] \in {"None", "Offline", "Failed"} /\ mon[r] = "off"
  /\ state' = [state EXCEPT ![r] = "Registering"]
  /\ activeWorkers' = [activeWorkers EXCEPT ![r] = 0]
  /\ mon' = [mon EXCEPT ![r] = "init"]
  /\ attempt' = [attempt EXCEPT ![r] = 0]
  /\ UNCHANGED <<globalPaused, dataVars, target, processVars, stopVars, workerVars>>

\* Launch: InitializeEnvironment registers the runner, then the new ListenerData.
InitEnvironment(r) ==
  /\ mon[r] = "init"
  /\ mon' = [mon EXCEPT ![r] = "spawn"]
  /\ cmd' = [cmd EXCEPT ![r] = FALSE]
  /\ retryCancel' = [retryCancel EXCEPT ![r] = FALSE]
  /\ UNCHANGED <<tableVars, cancelled, target, attempt, processVars, stopVars, workerVars>>

\* Start writes Failed without a transition when Launch fails.
LaunchFails(r) ==
  /\ \/ "env" \in Faults /\ mon[r] = "init"
     \/ "spawn" \in Faults /\ mon[r] = "spawn" /\ attempt[r] = 0
  /\ state' = [state EXCEPT ![r] = "Failed"]
  /\ mon' = [mon EXCEPT ![r] = "off"]
  /\ UNCHANGED <<activeWorkers, globalPaused, dataVars, target, attempt, processVars, stopVars,
                 workerVars>>

\* launchListener: the process starts before the lock is taken.
Spawn(r) ==
  /\ mon[r] = "spawn"
  /\ mon' = [mon EXCEPT ![r] = "install"]
  /\ listener' = [listener EXCEPT ![r] = "running"]
  /\ UNCHANGED <<tableVars, dataVars, target, attempt, cleanExit, stopVars, workerVars>>

\* A retry that cannot start the process: Transition to Failed, then retryCancel.
RespawnFails(r) ==
  /\ "spawn" \in Faults /\ mon[r] = "spawn" /\ attempt[r] > 0
  /\ Transition(r, "Failed")
  /\ mon' = [mon EXCEPT ![r] = "clear"]
  /\ UNCHANGED <<activeWorkers, globalPaused, dataVars, target, attempt, processVars, stopVars,
                 workerVars>>

\* Slip: the process is not recorded when it is frozen at once.
InstallUnlessPaused(r) ==
  /\ mon[r] = "install"
  /\ mon' = [mon EXCEPT ![r] = "mark"]
  /\ cmd' = [cmd EXCEPT ![r] = ~globalPaused]
  /\ retryCancel' = [retryCancel EXCEPT ![r] = FALSE]
  /\ target' = [target EXCEPT ![r] = IF globalPaused THEN "Paused" ELSE "Online"]
  /\ listener' = [listener EXCEPT ![r] = IF globalPaused /\ Alive(r) THEN "frozen" ELSE @]
  /\ UNCHANGED <<tableVars, cancelled, attempt, cleanExit, stopVars, workerVars>>

\* The critical section of launchListener.  Its look at retryCancel never finds
\* a closed channel: Halt clears the field in the section that closes it.
Install(r) ==
  /\ mon[r] = "install"
  /\ mon' = [mon EXCEPT ![r] = "mark"]
  /\ cmd' = [cmd EXCEPT ![r] = TRUE]
  /\ retryCancel' = [retryCancel EXCEPT ![r] = FALSE]
  /\ IF globalPaused
     THEN /\ listener' = [listener EXCEPT ![r] = IF Alive(r) THEN "frozen" ELSE @]
          /\ target' = [target EXCEPT ![r] = "Paused"]
     ELSE /\ target' = [target EXCEPT ![r] = "Online"]
          /\ UNCHANGED listener
  /\ UNCHANGED <<tableVars, cancelled, attempt, cleanExit, stopVars, workerVars>>

\* The transition after the lock was released.
Mark(r) ==
  /\ mon[r] = "mark"
  /\ Transition(r, target[r])
  /\ mon' = [mon EXCEPT ![r] = "wait"]
  /\ UNCHANGED <<activeWorkers, globalPaused, dataVars, target, attempt, processVars, stopVars,
                 workerVars>>

-----------------------------------------------------------------------------
(* The goroutine that waits for the listener and retries.                   *)

Wait(r) ==
  /\ mon[r] = "wait" /\ listener[r] = "zombie"
  /\ listener' = [listener EXCEPT ![r] = "none"]
  /\ aimed' = [aimed EXCEPT ![r] = FALSE]
  /\ mon' = [mon EXCEPT ![r] = "exited"]
  /\ UNCHANGED <<tableVars, dataVars, target, attempt, cleanExit, stop, workerVars>>

\* Slip: one retry too many.
DecideOffByOne(r) ==
  /\ mon[r] = "exited"
  /\ \/ mon' = [mon EXCEPT ![r] = "offline"]
     \/ /\ state[r] # "Draining" /\ ~cleanExit[r] /\ attempt[r] =< MaxListenerRetries
        /\ mon' = [mon EXCEPT ![r] = "retry"]
  /\ UNCHANGED <<tableVars, dataVars, target, attempt, processVars, stopVars, workerVars>>

\* IsDraining is read here, and used in the steps that follow.
Decide(r) ==
  /\ mon[r] = "exited"
  /\ \/ mon' = [mon EXCEPT ![r] = "offline"]      \* intended, clean, slow, or out of retries
     \/ /\ state[r] # "Draining" /\ ~cleanExit[r] /\ attempt[r] < MaxListenerRetries
        /\ mon' = [mon EXCEPT ![r] = "retry"]
  /\ UNCHANGED <<tableVars, dataVars, target, attempt, processVars, stopVars, workerVars>>

GoOffline(r) ==
  /\ mon[r] = "offline"
  /\ Transition(r, "Offline")
  /\ mon' = [mon EXCEPT ![r] = "clear"]
  /\ UNCHANGED <<activeWorkers, globalPaused, dataVars, target, attempt, processVars, stopVars,
                 workerVars>>

Clear(r) ==
  /\ mon[r] = "clear"
  /\ cmd' = [cmd EXCEPT ![r] = FALSE]
  /\ retryCancel' = [retryCancel EXCEPT ![r] = FALSE]
  /\ mon' = [mon EXCEPT ![r] = "off"]
  /\ UNCHANGED <<tableVars, cancelled, target, attempt, processVars, stopVars, workerVars>>

Retry(r) ==
  /\ mon[r] = "retry"
  /\ Transition(r, "Registering")
  /\ mon' = [mon EXCEPT ![r] = "arm"]
  /\ UNCHANGED <<activeWorkers, globalPaused, dataVars, target, attempt, processVars, stopVars,
                 workerVars>>

Arm(r) ==
  /\ mon[r] = "arm"
  /\ cmd' = [cmd EXCEPT ![r] = FALSE]
  /\ retryCancel' = [retryCancel EXCEPT ![r] = TRUE]
  /\ cancelled' = [cancelled EXCEPT ![r] = FALSE]
  /\ mon' = [mon EXCEPT ![r] = "backoff"]
  /\ UNCHANGED <<tableVars, target, attempt, processVars, stopVars, workerVars>>

\* select: when the timer fired and the channel is closed, either is chosen.
BackoffOver(r) ==
  /\ mon[r] = "backoff"
  /\ mon' = [mon EXCEPT ![r] = "spawn"]
  /\ attempt' = [attempt EXCEPT ![r] = @ + 1]
  /\ UNCHANGED <<tableVars, dataVars, target, processVars, stopVars, workerVars>>

BackoffCancelled(r) ==
  /\ mon[r] = "backoff" /\ cancelled[r]
  /\ Transition(r, "Offline")
  /\ mon' = [mon EXCEPT ![r] = "clear"]
  /\ UNCHANGED <<activeWorkers, globalPaused, dataVars, target, attempt, processVars, stopVars,
                 workerVars>>

-----------------------------------------------------------------------------
(* Stop and Halt.                                                           *)

Stop(r) ==
  /\ stop[r] = "idle"
  /\ state[r] \notin {"None", "Offline", "Failed"}
  /\ state' = [state EXCEPT ![r] = "Draining"]
  /\ \E how \in {"halt", "kill"} : stop' = [stop EXCEPT ![r] = how]
  /\ UNCHANGED <<aimed, activeWorkers, globalPaused, dataVars, monVars, processVars, workerVars>>

\* Slip: without a process to signal the runner is taken for stopped.
HaltIdleAtOnce(r) ==
  /\ stop[r] \in {"halt", "kill"} /\ ~cmd[r]
  /\ Transition(r, "Offline")
  /\ cancelled' = [cancelled EXCEPT ![r] = @ \/ retryCancel[r]]
  /\ retryCancel' = [retryCancel EXCEPT ![r] = FALSE]
  /\ stop' = [stop EXCEPT ![r] = "idle"]
  /\ UNCHANGED <<aimed, activeWorkers, globalPaused, cmd, monVars, processVars, workerVars>>

\* No process to signal: cancel a backoff, or do nothing.
HaltIdle(r) ==
  /\ stop[r] \in {"halt", "kill"} /\ ~cmd[r]
  /\ cancelled' = [cancelled EXCEPT ![r] = @ \/ retryCancel[r]]
  /\ retryCancel' = [retryCancel EXCEPT ![r] = FALSE]
  /\ stop' = [stop EXCEPT ![r] = "idle"]
  /\ UNCHANGED <<aimed, tableVars, cmd, monVars, processVars, workerVars>>

Die(r, clean) ==
  /\ listener' = [listener EXCEPT ![r] = "zombie"]
  /\ cleanExit' = [cleanExit EXCEPT ![r] = clean]

Kill(r) == IF Alive(r) THEN Die(r, FALSE) ELSE UNCHANGED processVars

HaltKill(r) ==
  /\ stop[r] = "kill" /\ cmd[r]
  /\ Kill(r)
  /\ stop' = [stop EXCEPT ![r] = "idle"]
  /\ UNCHANGED <<aimed, tableVars, dataVars, monVars, workerVars>>

\* Graceful: SIGCONT to the group, SIGINT to the listener, then poll for Offline;
\* the signal to a process that was waited for fails and ends the call.  The
\* poll may outlast the process, and a new one may be started under it.
HaltInterrupt(r) ==
  /\ stop[r] = "halt" /\ cmd[r]
  /\ listener' = [listener EXCEPT ![r] = IF @ = "frozen" THEN "running" ELSE @]
  /\ stop' = [stop EXCEPT ![r] = IF listener[r] = "none" THEN "idle" ELSE "poll"]
  /\ aimed' = [aimed EXCEPT ![r] = listener[r] # "none"]
  /\ UNCHANGED <<tableVars, dataVars, monVars, cleanExit, workerVars>>

PollSeesOffline(r) ==
  /\ stop[r] = "poll" /\ state[r] = "Offline"
  /\ stop' = [stop EXCEPT ![r] = "idle"]
  /\ UNCHANGED <<aimed, tableVars, dataVars, monVars, processVars, workerVars>>

\* Slip: the poll ends and kills nobody.
PollGivesUp(r) ==
  /\ stop[r] = "poll" /\ state[r] # "Offline"
  /\ stop' = [stop EXCEPT ![r] = "idle"]
  /\ UNCHANGED <<aimed, tableVars, dataVars, monVars, processVars, workerVars>>

PollTimeout(r) ==
  /\ stop[r] = "poll" /\ state[r] # "Offline"
  /\ IF aimed[r] THEN Kill(r) ELSE UNCHANGED processVars
  /\ stop' = [stop EXCEPT ![r] = "idle"]
  /\ UNCHANGED <<aimed, tableVars, dataVars, monVars, workerVars>>

\* The listener exits: asked to by SIGINT, by itself, or with an error.
ListenerExits(r) ==
  /\ listener[r] = "running"
  /\ \/ stop[r] = "poll" /\ aimed[r] /\ \E clean \in BOOLEAN : Die(r, clean)
     \/ "exit" \in Faults /\ \E clean \in BOOLEAN : Die(r, clean)
  /\ UNCHANGED <<tableVars, dataVars, monVars, stopVars, workerVars>>

-----------------------------------------------------------------------------
(* The orchestrator's side: workers, the status reporter and the pauser.    *)

\* The listener receives a job and its shim asks for a worker.
JobArrives(r) ==
  /\ listener[r] = "running" /\ mon[r] \in {"mark", "wait"}
  /\ ~asked[r] /\ live[r] + toMark[r] < JobBound /\ activeWorkers[r] =< JobBound
  /\ asked' = [asked EXCEPT ![r] = TRUE]
  /\ UNCHANGED <<tableVars, dataVars, monVars, processVars, stopVars, live, toMark, others, evalDue>>

\* AllocateWorker registers the worker; the shim may have been frozen meanwhile.
Register(r) ==
  /\ asked[r]
  /\ asked' = [asked EXCEPT ![r] = FALSE]
  /\ live' = [live EXCEPT ![r] = @ + 1]
  /\ toMark' = [toMark EXCEPT ![r] = @ + 1]
  /\ UNCHANGED <<tableVars, dataVars, monVars, processVars, stopVars, others, evalDue>>

\* The shim dies with the listener's process group before it was answered.
Withdraw(r) ==
  /\ asked[r] /\ ~Alive(r)
  /\ asked' = [asked EXCEPT ![r] = FALSE]
  /\ UNCHANGED <<tableVars, dataVars, monVars, processVars, stopVars, live, toMark, others, evalDue>>

\* BaseManager.MarkBusy, after the orchestrator's mutex was released.
MarkBusy(r) ==
  /\ toMark[r] > 0
  /\ toMark' = [toMark EXCEPT ![r] = @ - 1]
  /\ evalDue' = TRUE
  /\ activeWorkers' = [activeWorkers EXCEPT ![r] = @ + 1]
  /\ state' = [state EXCEPT ![r] = IF @ \in {"Online", "Paused"} THEN "Busy" ELSE @]
  /\ UNCHANGED <<globalPaused, dataVars, monVars, processVars, stopVars, asked, live, others>>

\* A worker dies or is aborted: StandaloneManager.MarkIdle under the
\* orchestrator's mutex.
MarkIdle(r) ==
  LET left == IF activeWorkers[r] > 0 THEN activeWorkers[r] - 1 ELSE 0 IN
  /\ live[r] > 0
  /\ live' = [live EXCEPT ![r] = @ - 1]
  /\ evalDue' = TRUE
  /\ activeWorkers' = [activeWorkers EXCEPT ![r] = left]
  /\ state' = [state EXCEPT ![r] =
       IF left > 0 \/ @ # "Busy" THEN @ ELSE IF globalPaused THEN "Paused" ELSE "Online"]
  /\ UNCHANGED <<globalPaused, dataVars, monVars, processVars, stopVars, asked, toMark, others>>

\* Workers of scale sets come and go.
OthersChange ==
  /\ \E n \in 0 .. OtherBound : n # others /\ others' = n
  /\ evalDue' = TRUE
  /\ UNCHANGED <<tableVars, dataVars, monVars, processVars, stopVars, asked, live, toMark>>

\* LockOthers: freeze the listeners that are Online and have no worker.  The
\* PGID outlives the process: the signal fails once it was waited for.
LockOthers(active) ==
  LET hit == {r \in Runners : state[r] = "Online" /\ r \notin active /\ listener[r] # "none"} IN
  /\ globalPaused' = TRUE
  /\ state' = [r \in Runners |-> IF r \in hit THEN "Paused" ELSE state[r]]
  /\ listener' = [r \in Runners |-> IF r \in hit /\ Alive(r) THEN "frozen" ELSE listener[r]]

UnlockOthers ==
  LET hit == {r \in Runners : state[r] = "Paused" /\ listener[r] # "none"} IN
  /\ globalPaused' = FALSE
  /\ state' = [r \in Runners |-> IF r \in hit THEN "Online" ELSE state[r]]
  /\ listener' = [r \in Runners |-> IF r \in hit /\ Alive(r) THEN "running" ELSE listener[r]]

TotalAssigned == SumFunction(live) + others

\* The orchestrator's evaluateCapacity, with the runners that have workers.
EvaluateCapacity ==
  /\ evalDue
  /\ evalDue' = FALSE
  /\ \/ /\ TotalAssigned >= MaxWorkers /\ ~globalPaused
        /\ LockOthers({r \in Runners : live[r] > 0})
     \/ /\ TotalAssigned < MaxWorkers /\ globalPaused
        /\ UnlockOthers
     \/ /\ globalPaused = (TotalAssigned >= MaxWorkers)
        /\ UNCHANGED <<state, listener, globalPaused>>
  /\ UNCHANGED <<activeWorkers, dataVars, monVars, cleanExit, stopVars, asked, live, toMark, others>>

-----------------------------------------------------------------------------
MonStep(r) == \/ InitEnvironment(r) \/ Spawn(r) \/ Install(r) \/ Mark(r) \/ Wait(r) \/ Decide(r)
              \/ GoOffline(r) \/ Clear(r) \/ Retry(r) \/ Arm(r) \/ BackoffOver(r)
              \/ BackoffCancelled(r)
MonFails(r) == LaunchFails(r) \/ RespawnFails(r)
HaltStep(r) == HaltIdle(r) \/ HaltKill(r) \/ HaltInterrupt(r) \/ PollSeesOffline(r) \/ PollTimeout(r)
WorkerStep(r) == JobArrives(r) \/ Register(r) \/ Withdraw(r) \/ MarkBusy(r) \/ MarkIdle(r)

Next ==
  \/ \E r \in Runners : \/ Start(r) \/ MonStep(r) \/ MonFails(r) \/ Stop(r) \/ HaltStep(r)
                        \/ ListenerExits(r) \/ WorkerStep(r)
  \/ OthersChange \/ EvaluateCapacity

Spec == Init /\ [][Next]_vars

\* The goroutines run, a Stop gives up after 30 minutes and kills, and an
\* evaluation that is due happens.  Nothing is assumed of jobs or of listeners.
Fairness ==
  /\ \A r \in Runners : WF_vars(MonStep(r)) /\ WF_vars(HaltStep(r))
  /\ WF_vars(EvaluateCapacity)

FairSpec == Spec /\ Fairness

-----------------------------------------------------------------------------
(* Properties.                                                              *)

\* Every variable keeps its type.
TypeOK ==
  /\ state \in [Runners -> States \cup {"None"}]
  /\ activeWorkers \in [Runners -> Nat] /\ globalPaused \in BOOLEAN
  /\ cmd \in [Runners -> BOOLEAN] /\ retryCancel \in [Runners -> BOOLEAN]
  /\ cancelled \in [Runners -> BOOLEAN]
  /\ mon \in [Runners -> MonStages] /\ target \in [Runners -> {"Online", "Paused"}]
  /\ attempt \in [Runners -> 0 .. MaxListenerRetries]
  /\ listener \in [Runners -> {"none", "running", "frozen", "zombie"}]
  /\ cleanExit \in [Runners -> BOOLEAN]
  /\ stop \in [Runners -> {"idle", "halt", "kill", "poll"}] /\ aimed \in [Runners -> BOOLEAN]
  /\ asked \in [Runners -> BOOLEAN] /\ live \in [Runners -> Nat] /\ toMark \in [Runners -> Nat]
  /\ others \in 0 .. OtherBound /\ evalDue \in BOOLEAN

\* A runner shown Offline or Failed has no listener: what lets Start, and the
\* dashboard's edit, launch a new one.
OfflineMeansGone == \A r \in Runners : state[r] \in {"Offline", "Failed"} => listener[r] = "none"

\* A listener the goroutine waits for is one Halt finds in ListenerData.
LiveIsReachable == \A r \in Runners : mon[r] \in {"mark", "wait"} /\ Alive(r) => cmd[r]

\* A stop is not taken back: no mark, pause, retry or launch that races it moves
\* a draining runner anywhere but to its end.
DrainingIsFinal ==
  [][\A r \in Runners : state[r] = "Draining" => state'[r] \in {"Draining", "Offline", "Failed"}]_vars

\* A graceful Stop that reached the listener of a draining runner ends with the
\* runner Offline, even if the listener was frozen, ignores SIGINT, or exits
\* with an error that asks for a retry.
StopReachesOffline ==
  \A r \in Runners : stop[r] = "poll" /\ aimed[r] /\ state[r] = "Draining" ~> state[r] = "Offline"
=============================================================================
