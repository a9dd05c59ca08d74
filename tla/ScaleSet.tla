------------------------------ MODULE ScaleSet ------------------------------
(***************************************************************************)
(* One scale set: its entry in BaseManager, the Launch that polls it, the  *)
(* goroutine that holds the message session with GitHub, Stop and Halt,    *)
(* and the scaler that starts workers.                                     *)
(*                                                                         *)
(* A launch is one call of Start with its goroutine, its context and its   *)
(* Scaler; launches of one name follow each other and may overlap.  A      *)
(* worker is one call of startWorker and the entry it gets in the          *)
(* orchestrator.  External: GitHub and the orchestrator's tables.          *)
(***************************************************************************)
EXTENDS Integers, FiniteSets

CONSTANTS
  Launches,     \* an element stands for a new launch once nothing refers to it
  NoLaunch,
  Workers,      \* an element stands for a new worker once nothing refers to it
  Counts,       \* runner counts GitHub may ask for
  MaxRunners,   \* listenerMaxRunners
  MaxRetries,   \* maxRetries of runListener
  Faults        \* which failures may happen, see FaultKinds

FaultKinds == {"github", "lost", "worker", "push"}

ASSUME SetsAssumption ==
  /\ IsFiniteSet(Launches) /\ IsFiniteSet(Workers)
  /\ NoLaunch \notin Launches /\ "stale" \notin Launches \cup {NoLaunch}
ASSUME LimitsAssumption ==
  /\ Counts \subseteq Nat /\ MaxRunners \in Nat
  /\ MaxRetries \in Nat \ {0}
  /\ Faults \subseteq FaultKinds

VARIABLES
  state,          \* ProcessState.State of the entry, "None" without one
  current,        \* the launch whose Start made the entry
  cancels,        \* ScaleSetManager.cancels: the launch whose context it cancels
  call,           \* the caller in Start and Launch
  session,        \* the goroutine of Launch, which runs runListener
  attempt,        \* its attempts to create the message session
  outcome,        \* what runListener returned: "error" or "canceled"
  cancelled,      \* launches whose context is cancelled
  remote,         \* who holds the message session at GitHub: a launch, "stale" or NoLaunch
  stop, aim,      \* the caller of Stop, and the launch whose cancel it holds
  task,           \* startWorker: stage
  owner,          \* the launch whose Scaler it belongs to, NoLaunch for recovered workers
  alive,          \* workers registered in the orchestrator for this scale set
  pendingCount    \* Scaler.pendingCount

entryVars   == <<state, current>>
sessionVars == <<session, attempt, outcome, remote>>
stopVars    == <<stop, aim>>
scalerVars  == <<task, owner, alive, pendingCount>>
vars == <<entryVars, cancels, call, sessionVars, cancelled, stopVars, scalerVars>>

States == {"Registering", "Online", "Busy", "Paused", "Draining", "Offline", "Failed"}
CallStages == {"idle", "entered", "poll", "failed"}
SessionStages == {"none", "setup", "connect", "sleep", "announce", "run", "close", "exited",
                  "fail", "offline", "delete"}
TaskStages == {"none", "queued", "mark", "push", "abort", "return"}

\* Stages in which the goroutine still talks to GitHub, or is about to.
Talking == {"setup", "connect", "sleep", "announce", "run", "close"}

validTransitions == [
  Registering |-> {"Online", "Failed", "Offline"},
  Online      |-> {"Busy", "Paused", "Draining", "Failed", "Offline"},
  Busy        |-> {"Online", "Draining", "Failed"},
  Paused      |-> {"Online", "Draining"},
  Draining    |-> {"Offline"},
  Offline     |-> {"Registering"},
  Failed      |-> {"Registering", "Offline"}]

\* Slip: the table is not asked.
TransitionUnchecked(to) == state' = to

\* Transition: a rejected one leaves the state, and the callers ignore the error.
Transition(to) == state' = IF to \in validTransitions[state] THEN to ELSE state

\* The calls of startWorker that have not returned, and what a new one may use.
Tasks(l) == {w \in Workers : owner[w] = l /\ task[w] # "none"}
Free     == {w \in Workers : task[w] = "none" /\ w \notin alive}

\* Workers recovered from an earlier process may run, and its session may be open.
Init ==
  /\ state = "None" /\ current = NoLaunch
  /\ cancels = NoLaunch
  /\ call = [l \in Launches |-> "idle"]
  /\ session = [l \in Launches |-> "none"]
  /\ attempt = [l \in Launches |-> 0]
  /\ outcome = [l \in Launches |-> "error"]
  /\ cancelled = {}
  /\ remote \in {NoLaunch, "stale"}
  /\ stop = "idle" /\ aim = NoLaunch
  /\ task = [w \in Workers |-> "none"] /\ owner = [w \in Workers |-> NoLaunch]
  /\ alive \in SUBSET Workers
  /\ pendingCount = [l \in Launches |-> 0]

-----------------------------------------------------------------------------
(* Start and Launch.                                                        *)

Unused(l) ==
  /\ call[l] = "idle" /\ session[l] = "none" /\ Tasks(l) = {}
  /\ l \notin {cancels, aim, remote}

\* BaseManager.Start makes a new entry.  The workers of an earlier launch that
\* l stood for keep running.
Start(l) ==
  /\ Unused(l)
  /\ state \in {"None", "Offline", "Failed", "Registering"}
  /\ state' = "Registering" /\ current' = l
  /\ call' = [call EXCEPT ![l] = "entered"]
  /\ owner' = [w \in Workers |-> IF owner[w] = l THEN NoLaunch ELSE owner[w]]
  /\ UNCHANGED <<cancels, sessionVars, cancelled, stopVars, task, alive, pendingCount>>

\* Launch: the new context replaces whatever the map holds; the goroutine starts.
Launch(l) ==
  /\ call[l] = "entered"
  /\ call' = [call EXCEPT ![l] = "poll"]
  /\ cancels' = l
  /\ session' = [session EXCEPT ![l] = "setup"]
  /\ UNCHANGED <<entryVars, attempt, outcome, remote, cancelled, stopVars, scalerVars>>

\* It waits until the entry of the name, whoever made it, is Online or Failed,
\* or for 60 seconds.
Poll(l) ==
  /\ call[l] = "poll"
  /\ \/ call' = [call EXCEPT ![l] = "idle"]        \* Online, or the time is over
     \/ state = "Failed" /\ call' = [call EXCEPT ![l] = "failed"]
  /\ UNCHANGED <<entryVars, cancels, sessionVars, cancelled, stopVars, scalerVars>>

\* Start writes Failed to the entry that it made.
LaunchFailed(l) ==
  /\ call[l] = "failed"
  /\ call' = [call EXCEPT ![l] = "idle"]
  /\ state' = IF current = l THEN "Failed" ELSE state
  /\ UNCHANGED <<current, cancels, sessionVars, cancelled, stopVars, scalerVars>>

-----------------------------------------------------------------------------
(* The goroutine: runListener, and what follows it.                         *)

Goto(l, stage) == session' = [session EXCEPT ![l] = stage]

\* What a call with the context of l may fail with.
Errors(l) == (IF l \in cancelled THEN {"canceled"} ELSE {})
             \cup (IF "github" \in Faults THEN {"error"} ELSE {})

FailTo(l, stage) ==
  /\ Goto(l, stage)
  /\ \E e \in Errors(l) : outcome' = [outcome EXCEPT ![l] = e]

\* The client, the runner group and the scale set, found or created.
Setup(l) ==
  /\ session[l] = "setup"
  /\ \/ l \notin cancelled /\ Goto(l, "connect") /\ UNCHANGED outcome
     \/ FailTo(l, "exited")
  /\ UNCHANGED <<entryVars, cancels, call, attempt, remote, cancelled, stopVars, scalerVars>>

\* The loop of runListener ends with this attempt.
LastAttempt(l) == attempt[l] = MaxRetries - 1

\* MessageSessionClient.  GitHub refuses a second session; a call that fails
\* here may have succeeded there.
Connect(l) ==
  /\ session[l] = "connect"
  /\ \/ /\ remote = NoLaunch /\ l \notin cancelled
        /\ remote' = l
        /\ Goto(l, "announce") /\ UNCHANGED <<attempt, outcome>>
     \/ /\ remote # NoLaunch /\ ~LastAttempt(l)
        /\ Goto(l, "sleep") /\ UNCHANGED <<attempt, outcome, remote>>
     \/ /\ remote # NoLaunch /\ LastAttempt(l)
        /\ Goto(l, "exited")
        /\ outcome' = [outcome EXCEPT ![l] = "error"]
        /\ UNCHANGED <<attempt, remote>>
     \/ /\ FailTo(l, "exited")
        /\ \/ UNCHANGED remote
           \/ "lost" \in Faults /\ remote = NoLaunch /\ remote' = "stale"
        /\ UNCHANGED attempt
  /\ UNCHANGED <<entryVars, cancels, call, cancelled, stopVars, scalerVars>>

\* time.Sleep: not interrupted by the context.
SleepOver(l) ==
  /\ session[l] = "sleep"
  /\ Goto(l, "connect")
  /\ attempt' = [attempt EXCEPT ![l] = @ + 1]
  /\ UNCHANGED <<entryVars, cancels, call, outcome, remote, cancelled, stopVars, scalerVars>>

\* The new Scaler, and the transition to Online.
Announce(l) ==
  /\ session[l] = "announce"
  /\ \/ /\ Goto(l, "run")
        /\ pendingCount' = [pendingCount EXCEPT ![l] = 0]
        /\ Transition("Online")
        /\ UNCHANGED outcome
     \/ /\ "github" \in Faults
        /\ Goto(l, "close")
        /\ outcome' = [outcome EXCEPT ![l] = "error"]
        /\ UNCHANGED <<state, pendingCount>>
  /\ UNCHANGED <<current, cancels, call, attempt, remote, cancelled, stopVars,
                 task, owner, alive>>

\* Slip: the session is not closed.
RunEndsUnclosed(l) ==
  /\ session[l] = "run"
  /\ FailTo(l, "exited")
  /\ UNCHANGED <<entryVars, cancels, call, attempt, remote, cancelled, stopVars, scalerVars>>

\* The listener of the session returns.
RunEnds(l) ==
  /\ session[l] = "run"
  /\ FailTo(l, "close")
  /\ UNCHANGED <<entryVars, cancels, call, attempt, remote, cancelled, stopVars, scalerVars>>

\* The deferred close of the session, before runListener returns.
Close(l) ==
  /\ session[l] = "close"
  /\ Goto(l, "exited")
  /\ \/ remote' = NoLaunch
     \/ "lost" \in Faults /\ remote' = "stale"
  /\ UNCHANGED <<entryVars, cancels, call, attempt, outcome, cancelled, stopVars, scalerVars>>

\* IsDraining is read here and used in the next step.
Decide(l) ==
  /\ session[l] = "exited"
  /\ IF outcome[l] = "error" /\ state # "Draining" THEN Goto(l, "fail") ELSE Goto(l, "offline")
  /\ UNCHANGED <<entryVars, cancels, call, attempt, outcome, remote, cancelled, stopVars,
                 scalerVars>>

Verdict(l) ==
  /\ \/ session[l] = "fail"    /\ Transition("Failed")
     \/ session[l] = "offline" /\ Transition("Offline")
  /\ Goto(l, "delete")
  /\ UNCHANGED <<current, cancels, call, attempt, outcome, remote, cancelled,
                 stopVars, scalerVars>>

\* delete(m.cancels, name), whichever launch put the function there.  Nobody
\* reads the goroutine's variables and its context any more.
Delete(l) ==
  /\ session[l] = "delete"
  /\ Goto(l, "none")
  /\ cancels' = NoLaunch
  /\ attempt' = [attempt EXCEPT ![l] = 0] /\ outcome' = [outcome EXCEPT ![l] = "error"]
  /\ cancelled' = cancelled \ {l}
  /\ UNCHANGED <<entryVars, call, remote, stopVars, scalerVars>>

\* GitHub drops a session that nobody closes.
Expire ==
  /\ remote = "stale"
  /\ remote' = NoLaunch
  /\ UNCHANGED <<entryVars, cancels, call, session, attempt, outcome, cancelled, stopVars, scalerVars>>

-----------------------------------------------------------------------------
(* Stop and Halt.                                                           *)

Stop ==
  /\ stop = "idle"
  /\ state \notin {"None", "Offline", "Failed"}
  /\ state' = "Draining"
  /\ stop' = "halt"
  /\ UNCHANGED <<current, cancels, call, sessionVars, cancelled, aim, scalerVars>>

\* Halt looks the function up under the lock and calls it after.
Halt ==
  /\ stop = "halt"
  /\ aim' = cancels
  /\ stop' = IF cancels = NoLaunch THEN "idle" ELSE "cancel"
  /\ UNCHANGED <<entryVars, cancels, call, sessionVars, cancelled, scalerVars>>

Cancel ==
  /\ stop = "cancel"
  /\ cancelled' = IF session[aim] = "none" THEN cancelled ELSE cancelled \cup {aim}
  /\ stop' = "idle" /\ aim' = NoLaunch
  /\ UNCHANGED <<entryVars, cancels, call, sessionVars, scalerVars>>

-----------------------------------------------------------------------------
(* The scaler and its workers.                                              *)

\* Slip: workers that are on their way are not counted.
ScaleUpByActive(l, count) ==
  LET target == IF count < MaxRunners THEN count ELSE MaxRunners
      n == target - Cardinality(alive) IN
  /\ session[l] = "run" /\ n > 0
  /\ \E W \in SUBSET Free :
       /\ Cardinality(W) = n
       /\ task' = [w \in Workers |-> IF w \in W THEN "queued" ELSE task[w]]
       /\ owner' = [w \in Workers |-> IF w \in W THEN l ELSE owner[w]]
  /\ pendingCount' = [pendingCount EXCEPT ![l] = @ + n]
  /\ UNCHANGED <<entryVars, cancels, call, sessionVars, cancelled, stopVars, alive>>

\* HandleDesiredRunnerCount, when it starts workers.  It holds the scaler's
\* mutex, so pendingCount does not change until the active ones are counted.
ScaleUp(l, count) ==
  LET target == IF count < MaxRunners THEN count ELSE MaxRunners
      n == target - (Cardinality(alive) + pendingCount[l]) IN
  /\ session[l] = "run" /\ n > 0
  /\ \E W \in SUBSET Free :
       /\ Cardinality(W) = n
       /\ task' = [w \in Workers |-> IF w \in W THEN "queued" ELSE task[w]]
       /\ owner' = [w \in Workers |-> IF w \in W THEN l ELSE owner[w]]
  /\ pendingCount' = [pendingCount EXCEPT ![l] = @ + n]
  /\ UNCHANGED <<entryVars, cancels, call, sessionVars, cancelled, stopVars, alive>>

Step(w, from, to) == task[w] = from /\ task' = [task EXCEPT ![w] = to]

\* startWorker returns, with its deferred decrement.
Finish(w, from) ==
  /\ Step(w, from, "none")
  /\ pendingCount' = [pendingCount EXCEPT ![owner[w]] = @ - 1]
  /\ owner' = IF w \in alive THEN owner ELSE [owner EXCEPT ![w] = NoLaunch]

\* The JIT configuration or the allocation fails, or its time is over.
StartFails(w) ==
  /\ "worker" \in Faults
  /\ Finish(w, "queued")
  /\ UNCHANGED <<entryVars, cancels, call, sessionVars, cancelled, stopVars, alive>>

\* AllocateWorker registers the worker, whatever became of the session.
Register(w) ==
  /\ Step(w, "queued", "mark")
  /\ alive' = alive \cup {w}
  /\ UNCHANGED <<entryVars, cancels, call, sessionVars, cancelled, stopVars, owner, pendingCount>>

\* BaseManager.MarkBusy, after the orchestrator's mutex was released.
MarkBusy(w) ==
  /\ Step(w, "mark", "push")
  /\ state' = IF state \in {"Online", "Paused"} THEN "Busy" ELSE state
  /\ UNCHANGED <<current, cancels, call, sessionVars, cancelled, stopVars, owner, alive,
                 pendingCount>>

\* The POST to /start.
Push(w) ==
  /\ \/ Finish(w, "push")
     \/ /\ "push" \in Faults \/ w \notin alive
        /\ Step(w, "push", "abort")
        /\ UNCHANGED <<owner, pendingCount>>
  /\ UNCHANGED <<entryVars, cancels, call, sessionVars, cancelled, stopVars, alive>>

\* MarkIdle of the scale set, under the orchestrator's mutex.  ActiveWorkers is
\* left out: a report may or may not be the one that brings it to zero.
MarkIdle == (state' = state) \/ (state = "Busy" /\ state' = "Online")

\* AbortWorker.
Abort(w) ==
  /\ Step(w, "abort", "return")
  /\ \/ w \in alive /\ alive' = alive \ {w} /\ MarkIdle
     \/ w \notin alive /\ UNCHANGED <<alive, state>>
  /\ UNCHANGED <<current, cancels, call, sessionVars, cancelled, stopVars, owner, pendingCount>>

Return(w) ==
  /\ Finish(w, "return")
  /\ UNCHANGED <<entryVars, cancels, call, sessionVars, cancelled, stopVars, alive>>

\* The job is over, or the worker dies.
WorkerEnds(w) ==
  /\ w \in alive
  /\ alive' = alive \ {w}
  /\ owner' = IF task[w] # "none" THEN owner ELSE [owner EXCEPT ![w] = NoLaunch]
  /\ MarkIdle
  /\ UNCHANGED <<current, cancels, call, sessionVars, cancelled, stopVars, task, pendingCount>>

-----------------------------------------------------------------------------
CallStep(l) == Launch(l) \/ Poll(l) \/ LaunchFailed(l)
SessionStep(l) == \/ Setup(l) \/ Connect(l) \/ SleepOver(l) \/ Announce(l) \/ RunEnds(l)
                  \/ Close(l) \/ Decide(l) \/ Verdict(l) \/ Delete(l)
StopStep == Halt \/ Cancel
WorkerStep(w) == \/ StartFails(w) \/ Register(w) \/ MarkBusy(w) \/ Push(w) \/ Abort(w)
                 \/ Return(w) \/ WorkerEnds(w)

\* The dashboard starts a runner only when it is not live.  Start itself accepts
\* one that is Registering, which a second caller could find: not modelled.
Next ==
  \/ \E l \in Launches : \/ state # "Registering" /\ Start(l)
                         \/ CallStep(l) \/ SessionStep(l)
                         \/ \E count \in Counts : ScaleUp(l, count)
  \/ Stop \/ StopStep \/ Expire
  \/ \E w \in Workers : WorkerStep(w)

Spec == Init /\ [][Next]_vars

\* Goroutines run and the library notices that its context is done.  Nothing
\* is assumed of GitHub, of the workers or of the administrator.
Fairness ==
  /\ \A l \in Launches : WF_vars(CallStep(l)) /\ WF_vars(SessionStep(l))
  /\ WF_vars(StopStep)

FairSpec == Spec /\ Fairness

-----------------------------------------------------------------------------
(* Properties.                                                              *)

\* Every variable keeps its type.
TypeOK ==
  /\ state \in States \cup {"None"}
  /\ current \in Launches \cup {NoLaunch} /\ cancels \in Launches \cup {NoLaunch}
  /\ call \in [Launches -> CallStages] /\ session \in [Launches -> SessionStages]
  /\ attempt \in [Launches -> 0 .. MaxRetries - 1]
  /\ outcome \in [Launches -> {"error", "canceled"}]
  /\ cancelled \subseteq Launches
  /\ remote \in Launches \cup {NoLaunch, "stale"}
  /\ stop \in {"idle", "halt", "cancel"} /\ aim \in Launches \cup {NoLaunch}
  /\ stop = "cancel" <=> aim # NoLaunch
  /\ task \in [Workers -> TaskStages] /\ owner \in [Workers -> Launches \cup {NoLaunch}]
  /\ alive \subseteq Workers
  /\ pendingCount \in [Launches -> Int]

\* The workers a scaler has started, registered or on their way, never exceed
\* max_runners, although the two counts it adds are read apart from the
\* registrations, and however often GitHub repeats its wish.
StartedBy(l) == {w \in Workers : owner[w] = l /\ (w \in alive \/ task[w] = "queued")}
WithinMax == \A l \in Launches : Cardinality(StartedBy(l)) =< MaxRunners

\* A scale set shown Offline or Failed has no session, and one shown otherwise
\* has at most one: what lets the dashboard start it again, and what makes a
\* 409 the sign of a stale session of an earlier process ("Session conflict
\* (stale session from previous run?)", listener.go:86).
SessionIsSole ==
  /\ state \in {"Offline", "Failed"} => \A l \in Launches : session[l] \notin Talking
  /\ \A l, m \in Launches : session[l] \in Talking /\ session[m] \in Talking => l = m
  /\ \A l \in Launches : remote = l => session[l] \in Talking

\* A stop is not taken back: no launch, verdict or report of a worker moves a
\* draining scale set anywhere but to Offline.
DrainingIsFinal == [][state = "Draining" => state' \in {"Draining", "Offline"}]_vars

\* "Halt stops the runner process.  Called after state is set to Draining."
\* (pkg/mux/base_manager.go:17): whatever is stopped ends Offline.
StopEnds == state = "Draining" ~> state = "Offline"
=============================================================================
