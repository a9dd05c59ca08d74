# github-action-runners-mux: models, checks and proofs

TLA+ modules for the orchestrator, the runner managers, the dashboard's service,
the worker session and the console of github-action-runners-mux, the TLC
configurations that check them on small instances, and TLAPS proofs for every
size. Paths are relative to the repository (`src/`). `PROJECT.json` maps every
definition to the lines it stands for.

## 1. The system and its parts

One process multiplexes many GitHub runners over a few worker containers. A
*standalone* runner is a `Runner.Listener` process whose worker is replaced by a
shim; a *scale set* is a session with GitHub that asks for a number of workers.
Both obtain a container from the orchestrator, which keeps a pool of warm ones,
hands each to one job, and removes it afterwards. Administrators create, edit and
remove the runners in a web console.

```
 web console ── handlers ── service ── DB      worker-shim ─┐ unix socket, /allocate-worker
                   │           │                            ▼
                   │      multiplexer ──► StandaloneManager ◄── Orchestrator ──► Docker
                   │           └────────► ScaleSetManager ──► Scaler ──┘  ▲          │
                   └── UpdateSettings ────────────────────────────────────┘   die events
                        worker-shim, Scaler ──► worker-launcher (in the container)
```

| Component | State | Operations | Interacts with | Hard behaviour | Correct when |
|---|---|---|---|---|---|
| **Orchestrator** `orchestrator/` | `warmPool`, `activeWorkers`, `activeListeners`, `bootingCount`, `pendingAllocations`, settings, `isPaused`, the broadcast channel | `AllocateWorker`, `AbortWorker`, `maintainPool`, boot goroutines, `watchEvents`/`handleContainerDeath`, `evaluateCapacity`, `UpdateSettings`, `recoverState` | Docker; status reporter and pauser of the managers; shims and scalers | the mutex is released around every call to Docker; deaths seen from three places; broadcasts that wake or do not wake; restarts | a container serves one job; counters agree; nothing leaks; dead entries go; a waiting caller is served; paused exactly when full |
| **BaseManager** `pkg/mux/base_manager.go`, `state.go` | `Processes`: state, ActiveWorkers, error | `Start`, `Stop`, `Transition`, `MarkBusy`, `MarkIdle` | hooks `Launch`, `Halt`, `Cleanup` | rejected transitions are ignored; start, stop and reports race | a stop is not taken back; the shown state agrees with the process |
| **StandaloneManager** `pkg/standalone/` | `ListenerData` (command, retryCancel), `globalPaused` | `Launch`, `launchListener`, retry loop, `Halt`, `LockOthers`, `UnlockOthers`, `MarkIdle`, `Cleanup` | listener processes (signals), orchestrator | SIGSTOP/SIGCONT against launch and halt; backoff against stop; half an hour of polling | an offline runner has no listener; a stop ends; Halt finds what runs |
| **ScaleSetManager, Scaler** `pkg/scaleset/` | `cancels`, `pendingCount` | `Launch`, `Halt`, `HandleDesiredRunnerCount`, `startWorker`, session loop with retries | GitHub, orchestrator, worker-launcher (`/start`) | counts read apart; a push that times out; a restart under a running session | not more workers than `max_runners`; a failed push gives the worker back; one session |
| **worker-shim, worker-launcher** `cmd/` | a session: connection, copies, exit code, handlers | allocate, dial, header, bridge; `/start`, `/wait`, TCP accept | each other, orchestrator | two ways to start one job; the exit code must be fetched before the container goes; copies that block | the exit code arrives; both sides end |
| **Runner service, multiplexer** `pkg/dashboard/service.go`, `handlers_runner.go`, `pkg/mux/multiplexer.go` | rows, the entries of the managers | create, update with restart, delete with a second stop after two seconds; the staggered start of the process | managers, DB, GitHub | check-then-act; requests that interleave; one name used again | an update changes the row it read; a deleted runner ends |
| **Settings** `pkg/dashboard/handlers_settings.go`, `app.go`, `web/src/pages/Settings.tsx` | rows, limits of the orchestrator, fields of the page | fetch, edit, save in three steps, restart | orchestrator, DB | errors that are ignored; saves that cross | a restart finds the limits in force |
| **Form that adds runners** `AddRunner.tsx` | hooks of the form, copy of the list, POSTs under way | select, set the mode, type tokens, submit, answers | service, other administrators | late answers, several scopes, lists that are out of date | tokens go to their scope; the button is free again |
| **Selector dialog, name** `repo-selector-dialog.tsx`, `AddRunner.tsx` | draft, cache, name | open, fetch, tick, move, confirm; type, fix, reset | form | objects that are fetched again; a name kept over selections | no scope twice; every posted name is valid |
| **Page of a runner, session** `RunnerDetail.tsx`, `App.tsx`, `Callback.tsx`, `handlers_auth.go` | copies of the runners, hooks of the form, cookies, the guard's answer | visit, poll, edit, submit, remove, sign in and out | service, other tabs, other administrators | forms that outlive a visit, answers that outlive the form | a value reaches the runner it was typed for |
| **Theme** `theme-provider.tsx` | localStorage, theme and drawing of each tab | choose, toggle, storage event, media query | other tabs | effects that run later, events that cross | drawn as chosen; tabs agree |
| GitHub client, database queries, API types, environment set-up, widgets | none that is shared | I/O, presentation | – | – | not modelled, see section 8 |

The hazards of this code (steps of two actors nobody wrote a test for, values
used after an unlock, lost events, restarts between two steps, ...) are listed in
`PROJECT.json` with their line and the properties that cover them.

## 2. Plan

| Order | Module | Abstract specification | Proved |
|---|---|---|---|
| 1 | `WorkerPool`: orchestrator with Docker, boot goroutines and callers | `WorkerLease`: the lifetime of one container | types, all safety invariants of the runs, the safety part of the refinement |
| 2 | `StandaloneManager`: `BaseManager` with the standalone hooks | | types, three safety properties |
| 3 | `ScaleSet`: `BaseManager` with the scale-set hooks, the session with GitHub, the scaler | | types, three safety properties |
| 4 | `RunnerService`: requests on one runner, over the entry of its manager | | types, both properties |
| 5 | `WorkerSession`: one job between shim and launcher | | types, delivery of the exit code |
| 6 | `AddRunner`; `RepoSelector` with `RunnerName` | `ScopeSelection`: what the form relies on | types, all safety and action properties, the refinement, what `SanitizeName` returns |
| 7 | `RunnerDetail` with `Session` | | types, all three properties |
| 8 | `Settings`, `Theme` | | types, both properties of each |

All of it is written, checked and proved as the last column says: every invariant
and every action property that a run checks is a theorem too, and what is left to
TLC alone is liveness.

Every module is written without RECURSIVE operators, with named assumptions on
its constants and one action per critical section, request or event, so that TLC
and TLAPS work on the same definitions.

## 3. The modules and the code

**`WorkerPool`** – every action is one critical section of `o.mutex`, one call to
Docker, or one step of a caller between two of them.

| Actions | Code |
|---|---|
| `MaintainPool`, `BootCreate`, `BootStart`, `BootRefused`, `BootLose`, `BootAbandon`, `BootFail`, `BackoffOver`, `EnterPool`, `BootCheck`, `BootReap`, `BootEvaluate`, `BootAnnounce` | `maintainPool`, its goroutines and `startContainer` (`orchestrator/pool.go`) |
| `Request`, `Wake`, `CancelWait`, `Vet`, `Discard`, `Register`, `Evaluate` | `AllocateWorker` (`orchestrator/allocate.go`) |
| `Deliver`, `DeliverToNobody`, `Cancel` | what the caller does with the answer: `handlers_standalone.go` and `cmd/worker-shim/main.go`, or `startWorker` in `pkg/scaleset/scaler.go` |
| `Abort`, `AbortEvaluate`, `KillWorker` | `AbortWorker` (`orchestrator/orchestrator.go`) |
| `WatchDeath`, `WatchEvaluate`, `StreamBreak`, `Restart` | `watchEvents`, `handleContainerDeath`, `evaluateCapacity`, `recoverState` (`orchestrator/events.go`) |
| `UpdateSettings` | `orchestrator.go`, called by `pkg/dashboard/handlers_settings.go` |
| `JobEnds`, `WorkerDies`, `Vanish` | external: Docker and the worker in the container |

A container is a model value and stands for a new one as soon as nothing refers
to it (`Fresh`). `docker` says what Docker has, `cname` whether the name is
`warm-…` or `active-<runner>-…`, `launched` who received a job. The broadcast
channel is what its waiters see: `poolAwake` and `awake` say whose captured
channel is closed. `pc`, `cand` and `caller` are the stage, the candidate and
the runner of each call of `AllocateWorker`. The `Faults` of a run choose which
failures may happen.

Four calls to Docker may fail and nobody acts on it: a removal (`Remove`, the fault
"remove"), a creation whose answer is lost (`BootLose`, "create"), the list of
containers at a start (`RecoverNothing`, "list"), and an inspection ("inspect"). The
first three leave containers to nobody; the history variable `strays` remembers
them until they are gone or a restart removes them, and the properties on leaks, limits and
slots except them by name.

**`WorkerLease`** – what the pool promises, in forty lines: a container is offered
once, leased to one runner, and is then spent; a caller whose container died may
trade it for an offered one; every lease ends. `WorkerPool` implements it with
`lease <- [c \in Containers |-> LeaseOf(c)]`.

**`StandaloneManager`** – the table of `BaseManager` (`Transition` with
`validTransitions`, whose rejections are ignored as the callers ignore them),
`Start`, the goroutine of `Start`/`startRunner` with its retry loop (`mon`), `Stop`
and `Halt` (`stop`), the pauser, and the reports of the orchestrator. The listener
is a process that runs, is frozen, or is a zombie until it is waited for. `live`,
`toMark`, `others` and `evalDue` are the orchestrator as this module needs it: how
many workers are registered, which reports are due, whether an evaluation is due.

**`ScaleSet`** – one entry of `BaseManager` with the hooks of `ScaleSetManager`. A
launch is one call of `Start` with its goroutine, its context and its `Scaler`;
launches of one name overlap, because a goroutine that gave its verdict has still
to delete the cancel function.

| Actions | Code |
|---|---|
| `Start`, `Launch`, `Poll`, `LaunchFailed` | the caller: `Start` (`pkg/mux/base_manager.go`) and `Launch` (`pkg/scaleset/manager.go`) |
| `Setup`, `Connect`, `SleepOver`, `Announce`, `RunEnds`, `Close` | `runListener` (`pkg/scaleset/listener.go`), with the retries on a conflict and the deferred close |
| `Decide`, `Verdict`, `Delete` | the rest of the goroutine in `Launch`: three critical sections |
| `Stop`, `Halt`, `Cancel` | `Stop`, and `Halt` with the lookup and the call of the cancel function apart |
| `ScaleUp`, `StartFails`, `Register`, `MarkBusy`, `Push`, `Abort`, `Return` | `HandleDesiredRunnerCount` and `startWorker` (`pkg/scaleset/scaler.go`); `Register`, `MarkBusy`, `Abort` are what the orchestrator does for them |
| `WorkerEnds`, `Expire` | external: a worker is gone, GitHub drops a session |

`remote` is GitHub's view of the message session: a launch that knows it, `"stale"`
when nobody does (an earlier process, an answer that was lost), or none. A second
session is refused, which is the 409 of the code. `cancels` and `aim` hold the
launch that a cancel function cancels. `ActiveWorkers` is left out: a worker that
goes may or may not be the one that ends Busy. The allocation itself, which may
wait or fail, is in `WorkerPool`; here it registers the worker or fails.

**`RunnerService`** – the requests on one runner, each a record in `reqs` with the
step it has reached. Nothing is locked across the steps of one.

| Actions | Code |
|---|---|
| `Insert` | `createRunner` (`pkg/dashboard/service.go`) |
| `Check`, `Write` | `UpdateRunner`: the checks, then the columns that were given, of the row with the id that was read |
| `ListRows` | `App.Start` (`app.go`): the request "boot" holds the row it has listed and starts it when its turn comes, whatever became of the row |
| `Start`, `LaunchFails`, `LaunchStandalone`, `Exit` | `Multiplexer.AddRunner`, `BaseManager.Start` and as much of the standalone hooks as the service sees |
| `LaunchScaleSet`, `GoesOnline`, `Decide`, `Verdict`, `DeleteCancel` | `Launch` of `pkg/scaleset/manager.go`: the cancel function, and the critical sections of the goroutine; the wait for its start changes nothing but the answer |
| `DeleteStops`, `DeleteHalts`, `DeleteRow`, `StopAgain`, `Deregister` | `DeleteRunner`: `Stop`, the hook `Halt`, the row, and the goroutine that stops again after two seconds and cleans up |
| `Send`, `Refuse` | `handlers_runner.go` |

What the managers do inside is the business of the modules above: `state`
"Online" stands for Online, Busy and Paused. `listener` is the process of a standalone
runner; `session` has the stage of each goroutine of a scale set, `cancels` the launch whose
cancel function is stored under the name, and `told` those that were cancelled.
`overlapped` remembers that a start replaced an entry that was Registering, `stale`
the launches that the start of the process made from a row that was gone.

**`WorkerSession`** – one container and the shim it was allocated to. `Dial` to
`WriteHeader` and `StreamEnds` to `GiveUp` are `cmd/worker-shim/main.go`; `Accept`,
`StartJIT`, `Spawn` to `Finish` are `server.go` and `standalone.go` of
`cmd/worker-launcher`; `Grace`, `Fetched`, `GraceOver` its `main.go`; `Respond` and
`Signal` its handlers of `/wait`, one per attempt, which outlive the attempt.
`mishaps` remembers what went wrong, so that a property can say that nothing else
excuses a wrong exit code. A worker that leaves its input unread blocks one of
the copies: nobody closes the read end of that pipe, and the session ends only
when the garbage collector closes the file (`Collect`).

**`AddRunner`** – the form, the table of runners, and another administrator. `list` is
the browser's copy of the table; `SingleModes`, `EffectiveMode`, `IgnoredScopes`,
`SubmitScopes` and `PatInputs` are what the form derives from it. `pats` is the one map
that keeps the tokens of both kinds: it holds the kind that was typed under each
key. `Submit` sends one call per scope; `Create` and `Refuse` answer one, in any order
and late; `Settle` is the code after `Promise.allSettled`.

**`RepoSelector`**, **`RunnerName`**, **`ScopeSelection`** – the dialog with its draft,
debounce and cache, where every fetch makes new objects (`fetch` tells two in a row
apart), and `Kept`, what is left of a list that entries go from; the name with `SanitizeName`, `IsValidName` and `GenerateName` on characters
of four kinds; and the three lines `AddRunner` relies on, which the dialog
implements (`SelectionPromise`).

**`RunnerDetail`** and **`Session`** – the page of a runner in one tab behind the
guard. The value of a field is the name of the runner it was entered for. A form
is kept as long as its key is the same (`Kept`), and every step ends in a rendering
(`Render`). `Session` has the cookies, which other tabs change too, and the answer
the guard decides on.

**`Settings`** – the page, the handler with its two queries per answer (`FetchSettings`,
`FillFields`), its two upserts and its call of the orchestrator as three steps per save, and what a start makes of the rows.

**`Theme`** – the tabs of one browser: `Choose` stores and sets, `Draw` is the effect,
`HandleStorage` and `HandleChange` are the listeners, with the events under way in
`mail` and `due`.

**`MCWorkerPool`, `MCStandaloneManager`, `MCScaleSet`, `MCRunnerService`,
`MCWorkerSession`, `MCAddRunner`, `MCRunnerDetail`** – instances for TLC: settings, hosts
and symmetry. **`MCConsole`** puts three parts that share nothing side by side: the
variable `part` names the one that moves in a behaviour, so that TLC adds their
states instead of multiplying them.

Operators commented "Slip" are plausible mistakes in the code beside them; no
specification uses them. Each property is violated when the slip replaces the
definition it stands before, which shows that the property depends on that code.

## 4. The runs

| Run | Instance | Shows |
|---|---|---|
| `pool_safety` | two scalers, two containers, settings that change, crashes, failed boots, pushes, removals and creations | the hand-kept counters agree (`CountersMatch`); no container is offered, reserved or registered twice (`HandedOutOnce`); all that Docker runs is known, or was left behind by a failed call (`NoLeak`); dead workers lose their entries (`DeadAreReaped`); a registered worker without a job is in a scaler's hands (`ActiveAreOwned`) |
| `pool_live` | two shims share one slot, no failures | the pause follows the capacity (`PauseAgreement`); a waiting caller is served (`NoStall`) |
| `pool_lease` | one scaler at a time, two containers, crashes, failed boots, pushes and removals | `LeaseLifetime`: the pool implements `WorkerLease`, and every lease ends |
| `pool_restart` | two shims, three containers; restarts that may not list the containers, dead shims, failed removals, lost events | strays apart, jobs keep their slot over a restart (`JobsHoldSlots`), and the containers that exist stay within `max_workers` plus one per caller (`LiveContainersBounded`); containers with a job are not offered again (`NeverReoffered`), and a pool at rest leaves nobody waiting below `max_workers` (`PendingMeansFull`) |
| `standalone_lifecycle` | one runner, every failure | `TypeOK`; offline means gone (`OfflineMeansGone`); Halt finds the listener (`LiveIsReachable`); a stop is not taken back (`DrainingIsFinal`); it ends (`StopReachesOffline`) |
| `scaleset` | one scale set, two launches, two workers, `max_runners` 1 and a wish for 2 at any time, every failure | a scaler's workers, registered or on their way, stay within `max_runners` (`WithinMax`); one session, and none when shown Offline or Failed (`SessionIsSole`); a stop is not taken back (`DrainingIsFinal`) |
| `runner_service` | the start of the process and requests, three at a time, on one name in both modes; two creations | an update changes the row it read, never its successor (`EditsAreOwn`); a scale set that was deleted ends, three cases of the code excepted (`RemovedIsStopped`) |
| `worker_session` | one shim, two exit codes, five attempts, every mishap | the worker's code arrives, and only a mishap is an excuse (`ExitCodeDelivered`); nothing waits for ever (`SessionEnds`) |
| `console_add` | an organization and one of its repositories, two submissions, two rows | the token is the scope's own and of the chosen kind (`CredentialsMatch`); nothing is asked for that the list shows (`NoKnownTwin`); the button waits for its own answers (`LoadingIsOwn`) and is released (`LoadingEnds`) |
| `console_parts` | `MCConsole`: two scopes; two saves; two tabs | no scope is selected twice (`DistinctSelection`), names are valid when sent (`NamesServable`), the dialog implements `ScopeSelection` (`SelectionPromise`); a restart finds the limits in force (`LimitsSurviveRestart`), the page never sets 0 (`MaxIsNeverZero`); a tab at rest is drawn in its theme (`DrawnIsTheme`), tabs agree (`TabsAgree`) |
| `console_page` | a standalone runner and a scale set, one request at a time | what is stored for a runner was entered for it, and tokens stay (`ValuesAreOwn`); a button waits for its own request (`BlockedByOwn`); the guard notices that one signed out (`SignedOutIsNoticed`) |

Deadlock is checked in all of them except `worker_session`, where the session
really ends: in the other systems some process can always take a step.

`scaleset_stop` checks one statement of the repository and finds that the code
does something else: "Halt stops the runner process" (`base_manager.go:17`). A stop
between the goroutine's `IsDraining` and its transition to Failed makes that
transition invalid; it is ignored, the cancel function is deleted, and the scale
set stays Draining, where neither Start nor Stop has an effect. A launch whose
cancel function is deleted by the goroutine of the launch before it ends the
same way, and so does a Busy scale set whose session is ended by the late
cancel of an earlier Halt: Busy to Offline is not a valid transition either.

Other statements of the repository that the models contradict have no run of
their own; each shows when the formula is added to the run named:

| Statement | Formula | Run | What happens |
|---|---|---|---|
| "strict global limits" (`README.md:13`) | `Cardinality(Active) =< maxWorkers`, invariant | `pool_live` | A container between `warmPool` and `activeWorkers` is counted nowhere, so a replacement is booted and handed out. `LiveContainersBounded` is what holds. |
| "jobs remain pending until capacity frees up" (`README.md:13`) | `PendingMeansFull`, invariant | `pool_restart` with `Standalone` empty and `Faults = {"push"}` | `AbortWorker` frees the slot without a broadcast, and the die event that follows finds no entry and broadcasts nothing either. |
| "no more orphaned workers" (`README.md:10`) | `\A c \in Active : docker[c] = "running" /\ c \notin launched => c \in Held`, invariant | `pool_restart` | The rename precedes the delivery; a restart in between recovers an active worker without a job. |
| "CAPACITY FREED. Unfreezing listeners" (`events.go:162`) | `\A r \in Runners : ~globalPaused /\ ~evalDue /\ mon[r] = "wait" => listener[r] # "frozen"`, invariant | `standalone_lifecycle` | A listener launched while paused is stopped, but Registering to Paused is not a valid transition, so `UnlockOthers` does not find it. |
| "If Halt() was called exactly when we were launching ... We must check if it was cancelled" (`listener.go:55`) | `\A r \in Runners : mon[r] = "wait" /\ cancelled[r] => ~Alive(r)`, invariant | `standalone_lifecycle` | Halt closes the channel and clears the field in one critical section, so the check finds nothing. |
| "the Orchestrator instantly recovers state from existing containers—no more orphaned workers or lost jobs" (`README.md:10`) | `\A c \in launched : docker[c] = "running" => c \in Active`, invariant | `pool_restart` | `ContainerList` fails at a start (`events.go:23`): it is logged as a "fresh start" (`orchestrator.go:87`), and the jobs that run hold no slot. |
| "strict global limits" (`README.md:13`) | `Cardinality(Existing) + starting =< MaxCap + Cardinality(Requests)`, invariant | `pool_restart` | After such a start `max_workers` more are booted beside the containers that run, and again after the next; containers whose removal failed add to them. |
| "KillWorker forcibly removes a container" (`pool.go:169`) | `\A c \in Existing : c \in warmPool \cup Active \cup Booting \cup Held`, invariant | `pool_safety` | The errors of `ContainerRemove` are ignored (`pool.go:172`, `pool.go:133`, `allocate.go:45`), and after a lost answer of `ContainerCreate` nothing is deferred. |
| "Halt stops the runner process" (`base_manager.go:17`) | `RemovedIsStopped` without `cancels # l`, invariant | `runner_service` | The goroutine of a launch that has failed deletes the cancel function of the start that follows (`manager.go:71`): the deletion of the runner finds nothing to cancel. |
| "Tell mux to stop it" (`service.go:204`) | `RemovedIsStopped` without `l \in stale`, invariant | `runner_service` | The runner is deleted while the start of the process waits for its turn (`app.go:157`), and is started from the old list. |
| a runner is edited only while it is stopped (`service.go:145`) | `[][row # NoRow /\ row' # NoRow /\ row' # row => state \notin LiveStates]_vars` | `runner_service` | The check and the write are apart; another request starts the runner in between. |

## 5. Bounds, and why they are enough

- `Containers`: two let a container be handed out while another is offered or
  booting; three (`pool_restart`) let the surplus of two callers show, which
  `LiveContainersBounded` needs. An ID returns when nothing refers to it, so the
  behaviours are unbounded in the number of containers over time.
- `Requests` of the pool: two concurrent callers, each of which calls again and
  again. All the races found are between two callers or between a caller and a
  goroutine. `pool_lease` uses one: the liveness part of the refinement is per
  container.
- `Settings` of the pool: pairs of `max_workers` and `warm_workers`; `Resizing` moves
  between `<<1, 1>>` and `<<2, 0>>`. `MaxCap` is the greatest `max_workers`.
- `MaxBackoff`: boot goroutines that sleep after a failure at the same time.
- `Runners`: one per run, a shim or a scaler. The counters are per runner and the
  handlers treat runners alike; the proofs are for any set of them.
- One standalone runner: runners interact only through `globalPaused` and the
  total of assigned workers, and `others` (0..`OtherBound`) changes that total as
  any number of other runners would. The proofs are for any set of runners.
- `MaxListenerRetries` is 1 instead of 3 and `JobBound` is 1: one retry, one
  failure beyond it, one job.
- `Launches`: two, as a launch is used again when nothing refers to it; three
  overlap only if two goroutines have given their verdict and not yet taken the
  lock. `Workers`: two, one more than `MaxRunners`, so that a scaler could start
  too many. `Counts` is the wish of GitHub, repeated at any time. `MaxRetries` is 2
  instead of 3: one conflict that is retried and one that is not. One caller of
  Stop at a time.
- `RunnerService`: three requests at a time, with the start of the process and the
  removals that go on in the background, so that a creation and an update meet a
  removal; each slot is used again and again. `Launches` 2: one that runs and one
  that has still to delete a cancel function. `MaxCreated` 2: a row and its
  successor. The proofs are for any number of each.
- `MaxAttempts` is 5 as in the shim; `Codes` has a success and a failure, and
  `Failed` (1) is kept apart from the worker's own codes.
- `AddRunner`: an organization and one of its repositories, whose classic tokens
  differ and whose fine-grained token is the same; `MaxSubmissions` 2, so that one
  form is open while another's answers are outstanding; `MaxRows` 2 bounds rows and
  requests together.
- `RepoSelector`: the same two scopes and three texts of the search field, which
  match both, one and none. `Typed` has the empty name, a valid core with a dash
  to trim, one with every character that is replaced, and one that cleans to
  nothing.
- `RunnerDetail`: a standalone runner and a scale set; `Fields` are the token, which
  is never read back, and the labels, which are; one request of the tab at a time,
  repeated. The proofs are for any names, fields and number of requests.
- `Settings`: two saves at a time; `Numbers` has one below zero, zero and two.
  `Theme`: two tabs, two events under way to each.
- Symmetry is used only in runs without liveness: of containers, callers, launches
  and workers, and of the slots of requests.

## 6. Fairness and timing

Goroutines that can run do (weak fairness of every step of the pool, of each
boot goroutine and of each caller). Docker delivers its events and jobs end:
`WF(WatchDeath)`, `WF(JobEnds)` - the promise "jobs remain pending until capacity
frees up" presumes that capacity frees up. A wait whose context is done is left
(`CancelWait`, weak only: `select` may prefer a channel that is closed at the same
time). Nothing is assumed of failures, requests or settings.

For standalone runners: the goroutine and the callers of Stop run (Halt polls for
half an hour at most, then kills: its timeout is a step that comes), and an
evaluation that is due happens. Nothing is assumed of listeners and jobs:
`StopReachesOffline` holds even for a listener that ignores SIGINT, because Halt
kills it. For scale sets (`scaleset_stop`): the callers and the goroutine run, and
the library notices that its context is done.

For the session of a worker: the goroutines of the launcher and the shim go on,
and the job ends. Nobody is assumed to dial, and nothing is assumed of mishaps. For
the form (`LoadingEnds`): a request is answered in the end or the browser gives up
on it.

Three assumptions are about time, which the modules do not count:

- `StopAgain`: the two seconds a removal waits are longer than a request that was
  under way needs from its check to its launch.
- `WorkerSession`: the shim's three seconds and the launcher's five pass only when
  what they wait for is not about to happen; the fault "slow" lifts this.
- A scale set's `Close` and the shim's retries need no bound: every order of
  their steps is explored.

## 7. What is proved

For all values of the constants under the assumptions named in the modules
(finite sets of containers, runners, callers and scopes, names distinct from the null
values, `max_workers` at most `MaxCap`, natural bounds, texts that are sequences of
characters):

- `WorkerPoolProofs!TypeCorrect`, `CountersCorrect`, `HandedOutOnceCorrect`: the
  inductive invariant is `CountInv`, the conjunction of `TypeOK`, `Exclusive`
  (a container is offered, held or registered, and held by one caller, by stage),
  and one conjunct per counter: `ListenersMatch`, `BootingMatch`, `WaitingMatch`.
  `HandedOutOnce` is not inductive by itself: that a boot goroutine's container
  is in nobody's hands before it enters the pool must be known, and a
  counter agrees after a death only if the entry that goes is the only one.
- `NoLeakCorrect`, `LimitCorrect`: with `TrackInv`, which adds `Tracked` (where a
  container that exists can be, strays included), under the assumption that inspections answer
  (`"inspect" \notin Faults`): an inspection that fails makes the pool forget a
  container that runs, so the assumption is needed. Failed removals, lost creations and
  restarts that cannot list the containers are not assumed away: what they leave
  is in `strays`, which both properties except. The bound combines the counters with the at most one container per caller.
- `JobsHoldSlotsCorrect`, `NeverReofferedCorrect`: from `JobInv`. `Slotted` says that a
  container with a job runs and has its entry, or its caller is aborting it, or it is a
  stray; a restart that can list the containers keeps that only for containers that carry the runner's name, and `Named` says that
  those with a job do. So besides `"inspect" \notin Faults` they assume `NamesKept`: if
  the process restarts, renames succeed, and no request is cancelled unless all
  runners are standalone. The runs show the case of a restart with cancelled requests
  of standalone runners.
- `OwnedCorrect` (no restarts), `ReapedCorrect` (no lost die events): with `Agreed`,
  which says that the entry of a container whose caller has registered it is the
  caller's own or gone, and that a container that was not started yet is in the hands
  of its boot goroutine.
- `PauseCorrect`: `PauseAgreement`, for one positive value of `max_workers` and
  without restarts: neither `UpdateSettings` nor a restart evaluates the capacity, and
  with a limit of 0 the listeners should be paused before the first evaluation.
  `StepPause` is the step; `NothingAssigned`, that the sum of no assigned workers is 0,
  is an induction over the subsets of the runners, by the least one with another sum.
- `PendingCorrect`: `PendingMeansFull`, the safety side of `NoStall`, and for more
  failures: boots that fail, cancelled waits, lost events, restarts and changes of the
  settings. It says that no broadcast is missing. `WaitInv` has three parts for it: a
  warm worker that was announced has woken who waits (`NoIdleWorker`, under every
  failure); what is missing in the pool is booting, slept on or about to be looked at,
  unless there is no room or a caller will announce the worker it took (`Demanded`);
  and containers on their way to a job run and have none (`Sound`), so no caller
  comes to a retry or an abort. At rest the pool is then empty and nothing boots, the
  caller that waits makes `Shortfall` positive, and only `Room` can be 0. The
  assumptions are `NamesKept` and `Announced`: no failed pushes, crashes or inspections,
  after each of which TLC finds a pool at rest that has room, and no negative
  `warm_workers`, which would hide the callers from `Shortfall`.
- `LeaseRefined`: the pool implements `WorkerLease!Spec`. `Exact` computes the lease of a
  container without the choice of its caller, from exclusive ownership; then every
  step turns one lease as `WorkerLease` allows, or is the trade of a dead candidate for
  an offered container. It assumes no restarts (one step that changes many leases,
  and takes back a candidate that had not received its job yet: it may be offered
  again) and no lost events (which free several names in one step).
- `StandaloneManagerProofs!TypeCorrect`, `OfflineCorrect`, `ReachableCorrect`: with
  `IInv`, which ties the process, the state, the recorded command and the retry
  count to the stage of the goroutine (`StageInv`). `DrainingCorrect` proves the
  action property from the types and the row of `validTransitions` for Draining.
- `ScaleSetProofs!TypeCorrect`, `SoleCorrect`, `DrainingCorrect`, `WithinMaxCorrect`:
  for any number of launches and workers and under every failure. `LaunchInv` is
  the key to the first three: a goroutine that has not given its verdict belongs
  to the entry that is shown, and that entry is live; so no start can come before
  the session is closed, and a late failure finds its own entry as it was.
  `WithinMax` needs `PendingInv`: `pendingCount` is the number of calls that have not
  returned, and a launch that has no `Scaler` yet has none, so the two numbers that
  `HandleDesiredRunnerCount` adds cover every worker of the scaler.
- `RunnerServiceProofs!TypeCorrect`, `UpdatesStayOwn`, `RemovedScaleSetStops`: the
  last one from `StopInv`. While starts have not overlapped, a goroutine that has
  not given its verdict is alone and shown as live (`PendingIsLive`), so no second
  launch begins beside it; there is one launch at a time (`LaunchIsAlone`); and
  without a row, whatever runs with its cancel function in place, or may come to
  run, is awaited by a removal that sleeps or is about to halt it (`RemovalAwaits`).
  The start of the process is told of no removal while it waits (`BootIsPunctual`), so
  its launch without a row is `stale`. `CreationsAreFull` is what the types need
  besides.
- `WorkerSessionProofs!TypeCorrect`, `DeliveryCorrect`: from two invariants. `PlanInv`
  says that without a mishap the session goes by the plan: the worker is not seen
  before it is started (`Waits`), the bridge goes down by the end of the worker only
  and the code is known after that (`GoesDown`), and the shim's first attempt is
  answered before the container ends (`IsFetched`). `OwnCode` holds under every
  mishap: a code that is passed on is the worker's or 1.
- `RunnerDetailProofs!TypeCorrect`, `ValuesStayOwn`, `OnlyOwnRequestsBlock`,
  `SigningOutIsNoticed`: rows, copies, requests and the form hold own values only
  together (`Own`): a request carries what the form had, an answer refills a copy,
  a copy fills a form, so none of the four is inductive alone. The key of the
  form (`Kept`) is what carries the step. For signing out, `Noticed` says
  that the guard knows or has been told to ask, and `AtCallback` that nobody signs out
  of a tab that is waiting for the exchange of its code.
- `AddRunnerProofs!TypeCorrect`, `CredentialsCorrect`, `NoTwinCorrect`,
  `LoadingCorrect`: here the properties are inductive with the types.
  What carries them is said once about the operators the form derives its requests
  with: a single scope is sent in the mode it lacks, and every pair `SubmitScopes`
  and `EffectiveMode` give is not in the list on display (`SubmitsUnlisted`); a
  submission has at least one call (`SubmitsSomething`), so the button that it blocks is
  released by an answer (`AnswerReleases`); the field of a key never holds a token of
  the other kind (`FieldsAreOwn`), because keys of the two kinds differ (`KeysDiffer`) as
  no owner is called like a kind of scope.
- `ConsoleProofs!DistinctCorrect`, `SelectionCorrect`: from `SelectorInv`. That nothing is
  on the right twice is not inductive alone: what moves there must have one object
  per key, which holds of every list that is fetched, and must be new there, which is
  decided by keys and not by objects; what leaves is a subsequence (`KeptIsSubsequence`).
  The refinement adds that draft and selection are among the keys that were fetched.
- `ConsoleProofs!SanitizeCorrect`, `RunnerNameTypeCorrect`, `NamesCorrect`: of a run of
  dashes `Kept` leaves the first, so no two are adjacent, and that is why one dash at
  either end is all there is to trim. With `NameInv` (a name that was not edited is
  empty) every posted name is generated or was accepted.
- `ConsoleProofs!KeptIsSubsequence`: the library's induction theorems cannot be used, and
  are not needed: `UpTo` proves a set of positions full by its least missing element,
  `Recursion` gives a recursive definition its solution, and `KeptUnfolds` makes
  the LET of `Kept` that solution.
- `ConsoleProofs!SettingsTypeCorrect`, `SurvivalCorrect`, `NeverZeroCorrect`:
  `SoundInv` says how far the rows have followed a save that is alone, in range and
  stored so far; `NoZeroInv` that no 0 is stored, shown or on its way. The last
  theorem assumes that queries answer (`"read" \notin Faults`); it needs that.
- `ConsoleProofs!ThemeTypeCorrect`, `DrawnCorrect`, `TabsCorrect`: `DrawInv` says that a
  tab shows what its last effect drew, unless a change of the preference is still
  due; `MailInv` that after a change that crossed nothing each tab has the stored
  theme or the one event that brings it.

The type invariants of `WorkerPool`, `AddRunner`, `ScaleSet`, `RunnerService`, `WorkerSession`,
`RunnerDetail`, `Settings` and `Theme` are proved, so the runs do not evaluate them.

Model-checked only: liveness (`NoStall`, `LeaseLifetime`, `StopReachesOffline`,
`SessionEnds`, `LoadingEnds`), which needs fairness and ENABLED and is beyond the
prover. Of `LeaseLifetime` the safety part is proved (`LeaseRefined`).

## 8. Limits

Stated where they matter:

- `PauseAgreement` is checked with settings that do not change: `UpdateSettings`
  does not evaluate the capacity, so after a change the pause is late.
- `NeverReoffered` is checked with shims, which are dead when their context is
  done. A scaler whose deadline passes before the rename leaves a container with
  the name `warm-…` that gets a job; after a restart it is offered again.
- `NoStall` and `PendingMeansFull` are checked without crashes and failed pushes;
  section 4 says what a failed push does, and a candidate that died has the same
  effect. They do not catch these missing broadcasts, they would be violated by them. A negative `warm_workers`, which the API hands to the pool although it does
  not store it, is left out as well: it hides as many callers from `maintainPool`.
- `DeadAreReaped` and `ActiveAreOwned` are stated for scale sets: a shim that died
  while it waited neither connects nor aborts.
- In `StandaloneManager` a runner is started only when it is not live, and
  `SessionIsSole` is about scale sets whose starts do not meet. That the check and
  the start are not atomic, and that `Start` accepts a runner that is Registering,
  is in `RunnerService`: after an overlap the cancel function of the first session
  is lost, and `RemovedIsStopped` excludes that case. It excludes a launch that lost
  its cancel function to an earlier goroutine, and a launch by the start of the process
  from a row that was gone, which section 4 shows, too.
- The strays of `NoLeak`, `LiveContainersBounded` and `JobsHoldSlots` are containers
  that a failed call to Docker left to nobody; what happens to them is outside
  the three properties, and section 4 shows that it is a leak.
- `LiveIsReachable` and `StopReachesOffline` allow a listener that is launched after its
  retry was cancelled; `DrainingIsFinal` of the standalone manager allows a late
  failure to write Failed over Draining, as the table of transitions and `Start` do.
- `activeWorkers` of an entry may drift when `MarkIdle` overtakes `MarkBusy`: the model
  keeps both orders, and no property excludes the drift.
- `CredentialsMatch` assumes that no owner is called "organization" or "repository":
  the field of its fine-grained token would be that of the classic tokens of
  its host.
- `RemovedIsStopped` is about scale sets. A standalone launch registers the runner
  with `config.sh` before there is a process to stop, which may take longer than
  two seconds; its listener then comes up without a row.
- A name that is created again keeps its mode in `RunnerService`. With the other
  mode both managers have an entry, and the multiplexer shows the first it finds.
- `WithinMax` is per launch: the workers that the scaler of an earlier launch has on
  their way are not in the `pendingCount` of a later one.
- `ExitCodeDelivered` excludes a shim that reaches a container which `/start` has
  started already; it ends with an error of its own, and with no wrong job. After
  a mishap it accepts the code 1: an early end that a handler of an abandoned
  attempt causes is excused, as attempts are abandoned after mishaps only.
- `LimitsSurviveRestart` says nothing after saves that crossed, an upsert that
  failed, or numbers below zero: the fields accept them, and the orchestrator
  takes them as they are while the rows do not. `MaxIsNeverZero` is checked without the fault
  "read": a query that fails is answered with 0, which the page may then save.
- `TabsAgree` says nothing after changes that crossed, or that met a tab which had
  read the store and did not listen yet; the next change that does not cross
  brings the tabs together.
- The form of a runner's page is filled once: a field another administrator
  changed meanwhile is written back with its old value. No property excludes it.
- The `jobs_completed` counter, error texts, listings and logging are left out.

Not modelled:

- The GitHub client and the API types: HTTP calls and records without state of
  their own. GitHub's answers are choices of the modules that ask.
- The generated database queries: their rows are state of `RunnerService`,
  `RunnerDetail`, `AddRunner` and `Settings`, where a query is what it does to them.
- The set-up of a standalone runner's directory: files and `config.sh`, of which
  only success or failure matters to the modules.
- The rights of administrators and managers: a check without state before the
  request; a refusal is a refusal to the modules.
- Log streams of a scale set's worker, and the shutdown of the application.
- The overview with its filter, groups and cards, widgets, the guide for tokens and
  the navigation bar, which only display.
