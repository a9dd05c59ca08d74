----------------------------- MODULE WorkerPool -----------------------------
(***************************************************************************)
(* The orchestrator: the pool of pre-warmed worker containers, the callers *)
(* of AllocateWorker that wait for one, the goroutines that boot them, the *)
(* watcher of Docker's die events, and the capacity evaluation that pauses *)
(* the standalone listeners.  Docker is external: a container is created,  *)
(* runs, and once it stops it is gone (AutoRemove) and a die event waits   *)
(* for the watcher.  A call to Docker may fail: a list, a removal or the   *)
(* answer of a creation that is lost leaves containers nobody refers to,   *)
(* the strays.                                                             *)
(*                                                                         *)
(* Every action is one critical section of o.mutex, one call to Docker, or *)
(* one step of a caller outside the lock.  A caller that is "taken" or     *)
(* "vetted" holds a container that is in neither table.                    *)
(***************************************************************************)
EXTENDS Integers, FiniteSets, Functions

CONSTANTS
  Containers,    \* container IDs; an ID stands for a new container once nothing refers to it
  NoContainer,
  Runners,       \* names of registered runners
  NoRunner,
  Standalone,    \* the runners whose callers are worker shims; the others are scale sets
  Requests,      \* slots of concurrent AllocateWorker callers
  Settings,      \* pairs <<max_workers, warm_workers>> an administrator may set
  MaxCap,        \* no setting of max_workers exceeds it
  Faults,        \* which failures may happen, see FaultKinds
  MaxBackoff     \* bound: boot goroutines asleep after a failure

FaultKinds == {"crash", "inspect", "rename", "boot", "push", "cancel", "restart", "stream",
               "create", "remove", "list"}

ASSUME FiniteAssumption ==
  /\ IsFiniteSet(Containers)
  /\ IsFiniteSet(Runners)
  /\ IsFiniteSet(Requests)
ASSUME NamesAssumption ==
  /\ NoContainer \notin Containers
  /\ NoRunner \notin Runners
  /\ Standalone \subseteq Runners
ASSUME SettingsAssumption ==
  /\ MaxCap \in Nat
  /\ Settings \subseteq Int \X Int
  /\ Settings # {}
  /\ \A s \in Settings : s[1] =< MaxCap
ASSUME BoundsAssumption ==
  /\ Faults \subseteq FaultKinds
  /\ MaxBackoff \in Nat

VARIABLES
  docker,             \* Docker: "absent", "created" or "running"
  cname,              \* runner in the name active-<runner>-<id>, NoRunner for warm-<id>
  launched,           \* containers that run a job
  dieEvents,          \* die events the watcher has not received
  strays,             \* history: containers a failed call to Docker once left to nobody
  warmPool,           \* Orchestrator.warmPool
  activeWorkers,      \* Orchestrator.activeWorkers, NoRunner where there is no entry
  activeListeners,    \* Orchestrator.activeListeners
  maxWorkers, warmWorkersConfig, bootingCount, pendingAllocations, isPaused,
  poolAwake,          \* maintainPool: the channel it waits on is closed
  awake,              \* waiting callers whose channel is closed
  starting,           \* boot goroutines that have not created their container
  boot,               \* stage of the boot goroutine of a container
  backoff,            \* boot goroutines asleep after a failure
  watcher,            \* watchEvents: "recv", or "evaluate" after an active worker died
  pc, cand, caller,   \* AllocateWorker and its caller: stage, candidate, runner
  gone                \* callers whose context is done

dockerVars == <<docker, cname, launched, dieEvents, strays>>
tableVars  == <<warmPool, activeWorkers, activeListeners>>
configVars == <<maxWorkers, warmWorkersConfig>>
wakeVars   == <<poolAwake, awake>>
bootVars   == <<starting, boot, backoff, bootingCount>>
callerVars == <<pc, cand, caller, gone>>
vars == <<dockerVars, tableVars, configVars, wakeVars, bootVars, callerVars,
          pendingAllocations, isPaused, watcher>>

BootStages == {"none", "created", "started", "failed", "check", "reap", "evaluate", "announce"}
CallerStages == {"idle", "wait", "taken", "vetted", "rejected", "evaluate", "deliver",
                 "abort", "abortEval", "kill"}

Active  == {c \in Containers : activeWorkers[c] # NoRunner}
Booting == {c \in Containers : boot[c] \in {"created", "started", "failed"}}
Waiting == {q \in Requests : pc[q] = "wait"}
Existing == {c \in Containers : docker[c] # "absent"}

\* Containers a caller refers to, and those it took from the pool without an entry in activeWorkers yet.
Held  == {c \in Containers : \E q \in Requests : cand[q] = c}
Limbo == {c \in Containers : \E q \in Requests : cand[q] = c /\ pc[q] \in {"taken", "vetted", "rejected"}}

\* An ID nothing refers to any more: Docker may give it to a new container.
Fresh(c) ==
  /\ docker[c] = "absent" /\ c \notin dieEvents /\ boot[c] = "none"
  /\ c \notin warmPool \cup Active \cup Held

Init ==
  /\ docker = [c \in Containers |-> "absent"]
  /\ cname = [c \in Containers |-> NoRunner]
  /\ launched = {} /\ dieEvents = {} /\ strays = {}
  /\ warmPool = {}
  /\ activeWorkers = [c \in Containers |-> NoRunner]
  /\ activeListeners = [r \in Runners |-> 0]
  /\ \E s \in Settings : maxWorkers = s[1] /\ warmWorkersConfig = s[2]
  /\ bootingCount = 0 /\ pendingAllocations = 0 /\ isPaused = FALSE
  /\ poolAwake = TRUE /\ awake = {}
  /\ starting = 0 /\ boot = [c \in Containers |-> "none"] /\ backoff = 0
  /\ watcher = "recv"
  /\ pc = [q \in Requests |-> "idle"]
  /\ cand = [q \in Requests |-> NoContainer]
  /\ caller = [q \in Requests |-> NoRunner]
  /\ gone = {}

-----------------------------------------------------------------------------
(* Pieces that several handlers share.                                      *)

\* broadcast(): closes the channel every waiter captured and installs a new one.
Broadcast == poolAwake' = TRUE /\ awake' = Waiting

\* The critical section of evaluateCapacity; the pauser follows isPaused.
TotalAssigned == SumFunction(activeListeners)
EvaluateCapacity == isPaused' = (TotalAssigned >= maxWorkers)

\* Docker stops or removes c: a container that ran leaves a die event.
Vanish(c) ==
  /\ docker' = [docker EXCEPT ![c] = "absent"]
  /\ cname' = [cname EXCEPT ![c] = NoRunner]
  /\ dieEvents' = IF docker[c] = "running" THEN dieEvents \cup {c} ELSE dieEvents
  /\ launched' = launched \ {c}
  /\ strays' = strays \ {c}

\* ContainerRemove by force, whose error every caller ignores.
Remove(c) ==
  \/ Vanish(c)
  \/ /\ "remove" \in Faults /\ docker[c] # "absent"
     /\ strays' = strays \cup {c}
     /\ UNCHANGED <<docker, cname, launched, dieEvents>>

\* Slips: the counter is not kept; the container goes back to the pool.
DropActiveUncounted(c) ==
  /\ activeWorkers' = [activeWorkers EXCEPT ![c] = NoRunner]
  /\ UNCHANGED <<warmPool, activeListeners>>
DropActiveToPool(c) ==
  /\ activeWorkers' = [activeWorkers EXCEPT ![c] = NoRunner]
  /\ activeListeners' = [activeListeners EXCEPT ![activeWorkers[c]] = @ - 1]
  /\ warmPool' = warmPool \cup {c}

\* The entry of c leaves activeWorkers, as handleContainerDeath and AbortWorker do it.
DropActive(c) ==
  LET r == activeWorkers[c] IN
    /\ activeWorkers' = [activeWorkers EXCEPT ![c] = NoRunner]
    /\ activeListeners' = [activeListeners EXCEPT ![r] = @ - 1]
    /\ UNCHANGED warmPool

\* Slip: nobody is told that a slot is free.
BuryActiveSilently(c) == c \in Active /\ DropActive(c) /\ UNCHANGED wakeVars

\* The critical section of handleContainerDeath, by where c is found.
BuryActive(c) ==
  /\ c \in Active
  /\ DropActive(c)
  /\ Broadcast
BuryWarm(c) ==
  /\ c \in warmPool \ Active
  /\ warmPool' = warmPool \ {c}
  /\ Broadcast
  /\ UNCHANGED <<activeWorkers, activeListeners>>
BuryUnknown(c) ==
  /\ c \notin warmPool \cup Active
  /\ UNCHANGED <<tableVars, wakeVars>>
BuryOther(c) == BuryWarm(c) \/ BuryUnknown(c)

-----------------------------------------------------------------------------
(* maintainPool and the boot goroutines.                                    *)

\* Slip: workers that have jobs take no room.
RoomWithoutActive == maxWorkers - (Cardinality(warmPool) + bootingCount)

Shortfall == warmWorkersConfig + pendingAllocations - (Cardinality(warmPool) + bootingCount)
Room      == maxWorkers - (Cardinality(warmPool) + Cardinality(Active) + bootingCount)
ToSpawn   == LET n == IF Shortfall < Room THEN Shortfall ELSE Room
             IN  IF n > 0 THEN n ELSE 0

\* One turn of maintainPool: it holds the mutex until there is nothing to
\* spawn or no room, then waits on the channel it captured under the lock.
MaintainPool ==
  /\ poolAwake
  /\ poolAwake' = FALSE
  /\ starting' = starting + ToSpawn
  /\ bootingCount' = bootingCount + ToSpawn
  /\ UNCHANGED <<dockerVars, tableVars, configVars, awake, boot, backoff, callerVars,
                 pendingAllocations, isPaused, watcher>>

\* startContainer: ContainerCreate, then ContainerStart.
BootCreate(c) ==
  /\ starting > 0 /\ Fresh(c)
  /\ starting' = starting - 1
  /\ boot' = [boot EXCEPT ![c] = "created"]
  /\ docker' = [docker EXCEPT ![c] = "created"]
  /\ UNCHANGED <<cname, launched, dieEvents, strays, tableVars, configVars, wakeVars, backoff, bootingCount,
                 callerVars, pendingAllocations, isPaused, watcher>>

BootStart(c) ==
  /\ boot[c] = "created"
  /\ boot' = [boot EXCEPT ![c] = "started"]
  /\ docker' = [docker EXCEPT ![c] = "running"]
  /\ UNCHANGED <<cname, launched, dieEvents, strays, tableVars, configVars, wakeVars, starting,
                 backoff, bootingCount, callerVars, pendingAllocations, isPaused, watcher>>

\* ContainerCreate fails: bootingCount--, and five seconds of sleep before the broadcast.
BootRefused ==
  /\ "boot" \in Faults
  /\ backoff < MaxBackoff
  /\ backoff' = backoff + 1
  /\ starting > 0
  /\ starting' = starting - 1
  /\ bootingCount' = bootingCount - 1
  /\ UNCHANGED <<dockerVars, tableVars, configVars, wakeVars, boot, callerVars,
                 pendingAllocations, isPaused, watcher>>

\* The answer of ContainerCreate is lost: the container is there, and nothing is deferred.
BootLose(c) ==
  /\ "create" \in Faults
  /\ starting > 0 /\ Fresh(c)
  /\ starting' = starting - 1
  /\ boot' = [boot EXCEPT ![c] = "failed"]
  /\ docker' = [docker EXCEPT ![c] = "created"]
  /\ strays' = strays \cup {c}
  /\ UNCHANGED <<cname, launched, dieEvents, tableVars, configVars, wakeVars, backoff, bootingCount,
                 callerVars, pendingAllocations, isPaused, watcher>>

\* ContainerStart or the inspection that follows fails: the deferred removal.
BootAbandon(c) ==
  /\ boot[c] \in {"created", "started"}
  /\ "boot" \in Faults \/ docker[c] = "absent"   \* the inspection of a dead one fails
  /\ boot' = [boot EXCEPT ![c] = "failed"]
  /\ Remove(c)
  /\ UNCHANGED <<tableVars, configVars, wakeVars, starting, backoff, bootingCount, callerVars,
                 pendingAllocations, isPaused, watcher>>

\* startContainer returned the error of a container that was created.
BootFail(c) ==
  /\ boot[c] = "failed"
  /\ backoff < MaxBackoff
  /\ backoff' = backoff + 1
  /\ boot' = [boot EXCEPT ![c] = "none"]
  /\ bootingCount' = bootingCount - 1
  /\ UNCHANGED <<dockerVars, tableVars, configVars, wakeVars, starting, callerVars,
                 pendingAllocations, isPaused, watcher>>

BackoffOver ==
  /\ backoff > 0
  /\ backoff' = backoff - 1
  /\ Broadcast
  /\ UNCHANGED <<dockerVars, tableVars, configVars, starting, boot, bootingCount, callerVars,
                 pendingAllocations, isPaused, watcher>>

\* Slip: without the check that follows for a death nobody recorded.
EnterPoolUnchecked(c) ==
  /\ boot[c] = "started"
  /\ boot' = [boot EXCEPT ![c] = "announce"]
  /\ bootingCount' = bootingCount - 1
  /\ warmPool' = warmPool \cup {c}
  /\ UNCHANGED <<dockerVars, activeWorkers, activeListeners, configVars, wakeVars, starting,
                 backoff, callerVars, pendingAllocations, isPaused, watcher>>

\* startContainer returned: the container joins the pool, without a broadcast.
EnterPool(c) ==
  /\ boot[c] = "started"
  /\ boot' = [boot EXCEPT ![c] = "check"]
  /\ bootingCount' = bootingCount - 1
  /\ warmPool' = warmPool \cup {c}
  /\ UNCHANGED <<dockerVars, activeWorkers, activeListeners, configVars, wakeVars, starting,
                 backoff, callerVars, pendingAllocations, isPaused, watcher>>

\* checkContainerAlive: an error of the inspection counts as dead.
SeemsDead(c) == docker[c] = "absent" \/ "inspect" \in Faults

BootCheck(c) ==
  /\ boot[c] = "check"
  /\ \/ docker[c] = "running" /\ boot' = [boot EXCEPT ![c] = "announce"]
     \/ SeemsDead(c) /\ boot' = [boot EXCEPT ![c] = "reap"]
  /\ UNCHANGED <<dockerVars, tableVars, configVars, wakeVars, starting, backoff, bootingCount,
                 callerVars, pendingAllocations, isPaused, watcher>>

\* handleContainerDeath, called by the boot goroutine.
BootReap(c) ==
  /\ boot[c] = "reap"
  /\ \/ BuryActive(c) /\ boot' = [boot EXCEPT ![c] = "evaluate"]
     \/ BuryOther(c)  /\ boot' = [boot EXCEPT ![c] = "announce"]
  /\ UNCHANGED <<dockerVars, configVars, starting, backoff, bootingCount, callerVars,
                 pendingAllocations, isPaused, watcher>>

BootEvaluate(c) ==
  /\ boot[c] = "evaluate"
  /\ boot' = [boot EXCEPT ![c] = "announce"]
  /\ EvaluateCapacity
  /\ UNCHANGED <<dockerVars, tableVars, configVars, wakeVars, starting, backoff, bootingCount,
                 callerVars, pendingAllocations, watcher>>

BootAnnounce(c) ==
  /\ boot[c] = "announce"
  /\ boot' = [boot EXCEPT ![c] = "none"]
  /\ Broadcast
  /\ UNCHANGED <<dockerVars, tableVars, configVars, starting, backoff, bootingCount,
                 callerVars, pendingAllocations, isPaused, watcher>>

-----------------------------------------------------------------------------
(* AllocateWorker and what its caller does with the worker.                 *)

\* Slip: the candidate stays in the pool.
TakeOrWaitShared(q, pending) ==
  /\ UNCHANGED tableVars
  /\ \/ \E c \in warmPool :
          /\ cand' = [cand EXCEPT ![q] = c]
          /\ pc' = [pc EXCEPT ![q] = "taken"]
          /\ pendingAllocations' = pending - 1
     \/ /\ warmPool = {}
        /\ cand' = [cand EXCEPT ![q] = NoContainer]
        /\ pc' = [pc EXCEPT ![q] = "wait"]
        /\ pendingAllocations' = pending

\* The body of the loop, entered with the mutex held and the number of
\* waiting allocations in pending: take any warm worker, or capture the
\* channel and wait.
TakeOrWait(q, pending) ==
  /\ UNCHANGED <<activeWorkers, activeListeners>>
  /\ \/ \E c \in warmPool :
          /\ warmPool' = warmPool \ {c}
          /\ cand' = [cand EXCEPT ![q] = c]
          /\ pc' = [pc EXCEPT ![q] = "taken"]
          /\ pendingAllocations' = pending - 1
     \/ /\ warmPool = {}
        /\ cand' = [cand EXCEPT ![q] = NoContainer]
        /\ pc' = [pc EXCEPT ![q] = "wait"]
        /\ pendingAllocations' = pending
        /\ UNCHANGED warmPool

\* A shim or a scaler calls AllocateWorker for runner r.
Request(q, r) ==
  /\ pc[q] = "idle"
  /\ caller' = [caller EXCEPT ![q] = r]
  /\ Broadcast
  /\ TakeOrWait(q, pendingAllocations + 1)
  /\ UNCHANGED <<dockerVars, configVars, bootVars, gone, isPaused, watcher>>

\* The captured channel was closed: back to the top of the loop.
Wake(q) ==
  /\ q \in awake
  /\ awake' = awake \ {q}
  /\ TakeOrWait(q, pendingAllocations)
  /\ UNCHANGED <<dockerVars, configVars, bootVars, poolAwake, caller, gone,
                 isPaused, watcher>>

\* The shim died, or the scaler's deadline passed: the wait and the rename are
\* the only places that look at it, so elsewhere the deadline makes no difference.
Cancel(q) ==
  /\ "cancel" \in Faults
  /\ pc[q] \in {"wait", "taken"} \/ (pc[q] # "idle" /\ caller[q] \in Standalone)
  /\ q \notin gone
  /\ gone' = gone \cup {q}
  /\ UNCHANGED <<dockerVars, tableVars, configVars, wakeVars, bootVars, pc, cand, caller,
                 pendingAllocations, isPaused, watcher>>

\* The call of q ends.
Leave(q) ==
  /\ pc' = [pc EXCEPT ![q] = "idle"]
  /\ cand' = [cand EXCEPT ![q] = NoContainer]
  /\ caller' = [caller EXCEPT ![q] = NoRunner]
  /\ gone' = gone \ {q}

\* The wait ends when the context is done.
CancelWait(q) ==
  /\ pc[q] = "wait" /\ q \in gone
  /\ pendingAllocations' = pendingAllocations - 1
  /\ awake' = awake \ {q}
  /\ Leave(q)
  /\ UNCHANGED <<dockerVars, tableVars, configVars, poolAwake, bootVars, isPaused,
                 watcher>>

\* Slip: the container keeps the name of a warm one.
VetUnnamed(q) ==
  /\ pc[q] = "taken"
  /\ \/ docker[cand[q]] = "running" /\ pc' = [pc EXCEPT ![q] = "vetted"]
     \/ SeemsDead(cand[q]) /\ pc' = [pc EXCEPT ![q] = "rejected"]
  /\ UNCHANGED <<dockerVars, tableVars, configVars, wakeVars, bootVars, cand, caller, gone,
                 pendingAllocations, isPaused, watcher>>

\* Outside the lock: rename the candidate (a failure is only logged, and with
\* a context that is done it always fails), then ask Docker whether it runs.
Vet(q) ==
  LET c == cand[q] IN
  /\ pc[q] = "taken"
  /\ \/ docker[c] = "running" /\ q \notin gone /\ cname' = [cname EXCEPT ![c] = caller[q]]
     \/ (docker[c] = "absent" \/ q \in gone \/ "rename" \in Faults) /\ UNCHANGED cname
  /\ \/ docker[c] = "running" /\ pc' = [pc EXCEPT ![q] = "vetted"]
     \/ SeemsDead(c) /\ pc' = [pc EXCEPT ![q] = "rejected"]
  /\ UNCHANGED <<docker, launched, dieEvents, strays, tableVars, configVars, wakeVars, bootVars, cand,
                 caller, gone, pendingAllocations, isPaused, watcher>>

\* Remove the dead candidate and retry: pendingAllocations++, no broadcast.
Discard(q) ==
  /\ pc[q] = "rejected"
  /\ Remove(cand[q])
  /\ TakeOrWait(q, pendingAllocations + 1)
  /\ UNCHANGED <<configVars, wakeVars, bootVars, caller, gone, isPaused, watcher>>

Register(q) ==
  LET c == cand[q] r == caller[q] IN
  /\ pc[q] = "vetted"
  /\ pc' = [pc EXCEPT ![q] = "evaluate"]
  /\ activeWorkers' = [activeWorkers EXCEPT ![c] = r]
  /\ activeListeners' = [activeListeners EXCEPT ![r] = @ + 1]
  /\ Broadcast
  /\ UNCHANGED <<dockerVars, warmPool, configVars, bootVars, cand, caller, gone,
                 pendingAllocations, isPaused, watcher>>

\* After the mutex is released: evaluateCapacity.
Evaluate(q) ==
  /\ pc[q] = "evaluate"
  /\ pc' = [pc EXCEPT ![q] = "deliver"]
  /\ EvaluateCapacity
  /\ UNCHANGED <<dockerVars, tableVars, configVars, wakeVars, bootVars, cand, caller, gone,
                 pendingAllocations, watcher>>

\* A shim that is gone never reads the answer, and nobody aborts.
DeliverToNobody(q) ==
  /\ pc[q] = "deliver" /\ caller[q] \in Standalone /\ q \in gone
  /\ Leave(q)
  /\ UNCHANGED <<dockerVars, tableVars, configVars, wakeVars, bootVars,
                 pendingAllocations, isPaused, watcher>>

\* Slip: a push that failed is not aborted.
DeliverAndForget(q) ==
  /\ pc[q] = "deliver" /\ ~(caller[q] \in Standalone /\ q \in gone)
  /\ \/ docker[cand[q]] = "running" /\ launched' = launched \cup {cand[q]}
     \/ (docker[cand[q]] = "absent" \/ "push" \in Faults) /\ UNCHANGED launched
  /\ Leave(q)
  /\ UNCHANGED <<docker, cname, dieEvents, strays, tableVars, configVars, wakeVars, bootVars,
                 pendingAllocations, isPaused, watcher>>

\* The shim's dial and header, or the scaler's POST /start.  A POST that times
\* out is a failure to the scaler although the worker may have started.
Deliver(q) ==
  LET c == cand[q] IN
  /\ pc[q] = "deliver" /\ ~(caller[q] \in Standalone /\ q \in gone)
  /\ \/ /\ docker[c] = "running"
        /\ launched' = launched \cup {c}
        /\ Leave(q)
     \/ /\ docker[c] = "absent" \/ "push" \in Faults
        /\ \/ UNCHANGED launched
           \/ /\ docker[c] = "running" /\ caller[q] \notin Standalone
              /\ launched' = launched \cup {c}
        /\ pc' = [pc EXCEPT ![q] = "abort"]
        /\ UNCHANGED <<cand, caller, gone>>
  /\ UNCHANGED <<docker, cname, dieEvents, strays, tableVars, configVars, wakeVars, bootVars,
                 pendingAllocations, isPaused, watcher>>

\* AbortWorker: the entry goes without a broadcast and without a completed
\* job, then evaluateCapacity, then the container is killed.
Abort(q) ==
  /\ pc[q] = "abort"
  /\ pc' = [pc EXCEPT ![q] = "abortEval"]
  /\ \/ cand[q] \in Active /\ DropActive(cand[q])
     \/ cand[q] \notin Active /\ UNCHANGED <<tableVars>>
  /\ UNCHANGED <<dockerVars, configVars, wakeVars, bootVars, cand, caller, gone,
                 pendingAllocations, isPaused, watcher>>

AbortEvaluate(q) ==
  /\ pc[q] = "abortEval"
  /\ pc' = [pc EXCEPT ![q] = "kill"]
  /\ EvaluateCapacity
  /\ UNCHANGED <<dockerVars, tableVars, configVars, wakeVars, bootVars, cand, caller, gone,
                 pendingAllocations, watcher>>

\* Slip: the aborted container is not killed.
KillNobody(q) ==
  /\ pc[q] = "kill"
  /\ Leave(q)
  /\ UNCHANGED <<dockerVars, tableVars, configVars, wakeVars, bootVars, pendingAllocations,
                 isPaused, watcher>>

KillWorker(q) ==
  /\ pc[q] = "kill"
  /\ Remove(cand[q])
  /\ Leave(q)
  /\ UNCHANGED <<tableVars, configVars, wakeVars, bootVars, pendingAllocations,
                 isPaused, watcher>>

-----------------------------------------------------------------------------
(* Docker, the watcher of its events, the administrator and restarts.       *)

\* The job is over: worker-launcher exits and the container with it.
JobEnds(c) ==
  /\ docker[c] = "running" /\ c \in launched
  /\ Vanish(c)
  /\ UNCHANGED <<tableVars, configVars, wakeVars, bootVars, callerVars,
                 pendingAllocations, isPaused, watcher>>

\* A worker dies before it got a job.
WorkerDies(c) ==
  /\ "crash" \in Faults
  /\ docker[c] = "running" /\ c \notin launched
  /\ Vanish(c)
  /\ UNCHANGED <<tableVars, configVars, wakeVars, bootVars, callerVars,
                 pendingAllocations, isPaused, watcher>>

\* Slip: the capacity is not evaluated when a job ended.
WatchDeathOnly(c) ==
  /\ watcher = "recv" /\ c \in dieEvents
  /\ dieEvents' = dieEvents \ {c}
  /\ BuryActive(c) \/ BuryOther(c)
  /\ UNCHANGED <<docker, cname, launched, strays, configVars, bootVars, callerVars,
                 pendingAllocations, isPaused, watcher>>

\* watchEvents hands one event to handleContainerDeath, which evaluates the
\* capacity in a second critical section if the worker was active.
WatchDeath(c) ==
  /\ watcher = "recv" /\ c \in dieEvents
  /\ dieEvents' = dieEvents \ {c}
  /\ \/ BuryActive(c) /\ watcher' = "evaluate"
     \/ BuryOther(c)  /\ watcher' = "recv"
  /\ UNCHANGED <<docker, cname, launched, strays, configVars, bootVars, callerVars,
                 pendingAllocations, isPaused>>

WatchEvaluate ==
  /\ watcher = "evaluate"
  /\ watcher' = "recv"
  /\ EvaluateCapacity
  /\ UNCHANGED <<dockerVars, tableVars, configVars, wakeVars, bootVars, callerVars,
                 pendingAllocations>>

\* The event stream breaks: the watcher asks for events since now.
StreamBreak ==
  /\ "stream" \in Faults
  /\ watcher = "recv"
  /\ \E lost \in (SUBSET dieEvents) \ {{}} : dieEvents' = dieEvents \ lost
  /\ UNCHANGED <<docker, cname, launched, strays, tableVars, configVars, wakeVars, bootVars,
                 callerVars, pendingAllocations, isPaused, watcher>>

UpdateSettings(s) ==
  /\ maxWorkers' = s[1] /\ warmWorkersConfig' = s[2]
  /\ Broadcast
  /\ UNCHANGED <<dockerVars, tableVars, bootVars, callerVars, pendingAllocations,
                 isPaused, watcher>>

\* Slip: every container that runs is taken for a warm one.
RecoverAllWarm(running) ==
  /\ warmPool' = running
  /\ activeWorkers' = [c \in Containers |-> NoRunner]
  /\ activeListeners' = [r \in Runners |-> 0]

\* recoverState rebuilds the tables from the names of the running containers.
\* (Managed containers have no third kind of name: they are created as warm
\* and renamed to active, so nothing is skipped as unrecognized.)
RecoverState(running) ==
  /\ warmPool' = {c \in running : cname[c] = NoRunner}
  /\ activeWorkers' = [c \in Containers |-> IF c \in running THEN cname[c] ELSE NoRunner]
  /\ activeListeners' = [r \in Runners |-> Cardinality({c \in running : cname[c] = r})]

\* recoverState when Docker lists the containers: those that do not run are removed.
Recover ==
  LET running == {c \in Containers : docker[c] = "running"}
      created == {c \in Containers : docker[c] = "created"}
  IN  \E kept \in SUBSET created :
        /\ kept = {} \/ "remove" \in Faults
        /\ docker' = [c \in Containers |-> IF c \in created \ kept THEN "absent" ELSE docker[c]]
        /\ strays' = (strays \ created) \cup kept
        /\ RecoverState(running)

\* ContainerList fails: the error is logged, and the tables stay empty.
RecoverNothing ==
  /\ "list" \in Faults
  /\ strays' = Existing
  /\ UNCHANGED docker
  /\ warmPool' = {}
  /\ activeWorkers' = [c \in Containers |-> NoRunner]
  /\ activeListeners' = [r \in Runners |-> 0]

\* The process stops and starts again: shims and scalers are gone.  NewApp
\* clamps warm_workers, which UpdateSettings does not.
Restart ==
  /\ "restart" \in Faults
  /\ Recover \/ RecoverNothing
  /\ dieEvents' = {}
  /\ \E s \in Settings : /\ maxWorkers' = s[1]
                         /\ warmWorkersConfig' = IF s[2] > s[1] THEN s[1] ELSE s[2]
  /\ bootingCount' = 0 /\ pendingAllocations' = 0 /\ isPaused' = FALSE
  /\ poolAwake' = TRUE /\ awake' = {}
  /\ starting' = 0 /\ boot' = [c \in Containers |-> "none"] /\ backoff' = 0
  /\ watcher' = "recv"
  /\ pc' = [q \in Requests |-> "idle"]
  /\ cand' = [q \in Requests |-> NoContainer]
  /\ caller' = [q \in Requests |-> NoRunner]
  /\ gone' = {}
  /\ UNCHANGED <<cname, launched>>

-----------------------------------------------------------------------------
PoolStep == MaintainPool \/ BackoffOver \/ WatchEvaluate
BootStep(c) == \/ BootStart(c) \/ BootFail(c) \/ EnterPool(c) \/ BootCheck(c)
               \/ BootReap(c) \/ BootEvaluate(c) \/ BootAnnounce(c)
CallerStep(q) == \/ Wake(q) \/ Vet(q) \/ Discard(q) \/ Register(q) \/ Evaluate(q)
                 \/ DeliverToNobody(q) \/ Deliver(q) \/ Abort(q)
                 \/ AbortEvaluate(q) \/ KillWorker(q)

Next ==
  \/ PoolStep \/ BootRefused \/ StreamBreak \/ Restart
  \/ \E c \in Containers : \/ BootCreate(c) \/ BootLose(c) \/ BootAbandon(c) \/ BootStep(c)
                          \/ JobEnds(c) \/ WorkerDies(c) \/ WatchDeath(c)
  \/ \E q \in Requests : CallerStep(q) \/ Cancel(q) \/ CancelWait(q)
  \/ \E q \in Requests, r \in Runners : Request(q, r)
  \/ \E s \in Settings : UpdateSettings(s)

Spec == Init /\ [][Next]_vars

\* Goroutines that can run do, Docker delivers its events, jobs end.  A wait
\* whose context is done is left: select may keep choosing the channel, so
\* only weak fairness is assumed of CancelWait.
Fairness ==
  /\ WF_vars(MaintainPool) /\ WF_vars(BackoffOver) /\ WF_vars(WatchEvaluate)
  /\ WF_vars(\E c \in Containers : BootCreate(c))
  /\ \A c \in Containers : WF_vars(BootStep(c)) /\ WF_vars(WatchDeath(c)) /\ WF_vars(JobEnds(c))
  /\ \A q \in Requests : WF_vars(CallerStep(q)) /\ WF_vars(CancelWait(q))

FairSpec == Spec /\ Fairness

-----------------------------------------------------------------------------
(* Properties.                                                              *)

\* Every variable keeps its type.
TypeOK ==
  /\ docker \in [Containers -> {"absent", "created", "running"}]
  /\ cname \in [Containers -> Runners \cup {NoRunner}]
  /\ launched \subseteq Containers /\ dieEvents \subseteq Containers /\ strays \subseteq Containers
  /\ warmPool \subseteq Containers
  /\ activeWorkers \in [Containers -> Runners \cup {NoRunner}]
  /\ activeListeners \in [Runners -> Int]
  /\ maxWorkers \in Int /\ maxWorkers =< MaxCap /\ warmWorkersConfig \in Int
  /\ bootingCount \in Int /\ pendingAllocations \in Int /\ isPaused \in BOOLEAN
  /\ poolAwake \in BOOLEAN /\ awake \subseteq Waiting
  /\ starting \in Nat /\ boot \in [Containers -> BootStages] /\ backoff \in 0 .. MaxBackoff
  /\ watcher \in {"recv", "evaluate"}
  /\ pc \in [Requests -> CallerStages]
  /\ cand \in [Requests -> Containers \cup {NoContainer}]
  /\ caller \in [Requests -> Runners \cup {NoRunner}]
  /\ \A q \in Requests : /\ cand[q] = NoContainer <=> pc[q] \in {"idle", "wait"}
                         /\ caller[q] = NoRunner <=> pc[q] = "idle"
  /\ gone \subseteq Requests

\* The counters the handlers keep by hand agree with what they count, whoever
\* registers, buries, aborts, boots or waits, in whatever order.
CountersMatch ==
  /\ \A r \in Runners : activeListeners[r] = Cardinality({c \in Containers : activeWorkers[c] = r})
  /\ bootingCount = starting + Cardinality(Booting)
  /\ pendingAllocations = Cardinality(Waiting)

\* A container is offered, reserved by one caller, or registered: never two of
\* these, and never with two callers (README.md:14, "brand new, isolated").
HandedOutOnce ==
  /\ warmPool \cap Active = {}
  /\ Limbo \cap (warmPool \cup Active) = {}
  /\ \A p, q \in Requests : cand[p] = cand[q] /\ cand[p] # NoContainer => p = q

\* Whatever Docker holds is in a table, or in the hands of a boot goroutine or
\* of a caller, unless a call to Docker that failed has left it behind (the
\* errors that pool.go:133, pool.go:172, allocate.go:45 and
\* orchestrator.go:86 let pass): no order of steps loses a container.
NoLeak ==
  \A c \in Existing : c \in warmPool \cup Active \cup Booting \cup Held \cup strays

\* Strays apart, max_workers is exceeded by no more than the callers that hold a
\* container outside the tables: what maintainPool, which counts the tables
\* only, ensures, also across restarts that can list the containers.  After one
\* that cannot, all that existed are strays, and max_workers more are booted.
LiveContainersBounded ==
  Cardinality(Existing \ strays) + starting =< MaxCap + Cardinality(Requests)

\* A dead worker does not keep its entry: a die event, the boot goroutine's
\* check or a caller that will abort is still to come.  (A shim that is gone
\* does not abort, so the entries of standalone runners are left out.)
DeadAreReaped ==
  \A c \in Containers :
    /\ docker[c] = "absent"
    /\ c \in warmPool \/ (c \in Active /\ activeWorkers[c] \notin Standalone)
    => \/ c \in dieEvents \/ boot[c] \in {"check", "reap"}
       \/ \E q \in Requests : cand[q] = c /\ pc[q] \in {"evaluate", "deliver", "abort"}

\* A registered worker of a scale set that runs no job is one a scaler still
\* has in hand, to push the job to it or to abort it.
ActiveAreOwned ==
  \A c \in Active :
    docker[c] = "running" /\ c \notin launched /\ activeWorkers[c] \notin Standalone => c \in Held

\* A job that runs keeps its slot of the capacity until its container stops,
\* also across a restart that can list the containers; only AbortWorker takes
\* it, on its way to kill it.  The exceptions are the strays: the jobs whose
\* kill failed, and those a failed recovery leaves to a "fresh start".
JobsHoldSlots ==
  \A c \in launched : docker[c] = "running" =>
    \/ c \in Active \cup strays
    \/ \E q \in Requests : cand[q] = c /\ pc[q] \in {"abortEval", "kill"}

\* A container that received a job is not offered again while it runs.
NeverReoffered ==
  \A c \in launched : docker[c] = "running" => c \notin warmPool \cup Limbo

\* The listeners are paused exactly when the assigned workers reach
\* max_workers, or an evaluation that will correct it is due.
PauseAgreement ==
  \/ isPaused = (TotalAssigned >= maxWorkers)
  \/ watcher = "evaluate" \/ \E c \in Containers : boot[c] = "evaluate"
  \/ \E q \in Requests : pc[q] \in {"evaluate", "abortEval"}

\* The pool at rest: maintainPool and the callers that wait are asleep, and no
\* boot goroutine or other caller is on its way.  Jobs may run, events may wait.
AtRest ==
  /\ ~poolAwake /\ awake = {}
  /\ starting = 0 /\ backoff = 0 /\ \A c \in Containers : boot[c] = "none"
  /\ \A q \in Requests : pc[q] \in {"idle", "wait"}

\* README.md:13, "jobs remain pending until capacity frees up": nobody is left
\* waiting at rest unless max_workers workers have jobs.  Both maintainPool and
\* the callers sleep on channels, so one broadcast too few leaves a job pending
\* although a worker is idle or could be booted.
PendingMeansFull == AtRest /\ Waiting # {} => Cardinality(Active) >= maxWorkers

\* README.md:13: while somebody waits for a worker, somebody gets one.
NoStall == Waiting # {} ~> \E q \in Requests : pc[q] = "taken"

-----------------------------------------------------------------------------
(* The pool implements the lease of every container.  A boot goroutine's    *)
(* container is new until it enters the pool; a container that left both    *)
(* tables is spent until nothing refers to it.                              *)

CallerOf(c) == caller[CHOOSE q \in Requests : cand[q] = c]

LeaseOf(c) ==
  CASE c \in Active             -> activeWorkers[c]
    [] c \in Limbo              -> CallerOf(c)
    [] c \in warmPool           -> "offered"
    [] c \in Booting \/ Fresh(c) -> "new"
    [] OTHER                    -> "spent"

Lease == INSTANCE WorkerLease WITH
  New <- "new", Offered <- "offered", Spent <- "spent",
  lease <- [c \in Containers |-> LeaseOf(c)]

\* README.md:14: every job gets a container that no job had before, and every
\* lease ends.  Whatever dies, is aborted or loses a race, a step of the pool is
\* a step of the lifetimes of WorkerLease, or leaves them all alone.
LeaseLifetime == Lease!FairSpec
=============================================================================
