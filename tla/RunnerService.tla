---------------------------- MODULE RunnerService ----------------------------
(***************************************************************************)
(* What creating, updating and removing ONE runner does on the server:     *)
(* pkg/dashboard/handlers_runner.go and service.go, on top of              *)
(* pkg/mux/multiplexer.go and base_manager.go.  Requests of several        *)
(* operators interleave: nothing is locked across the steps of one, and a  *)
(* removal goes on in the background after its answer.  The start of the   *)
(* process (app.go) is one more request: it lists the rows once and starts *)
(* them one after the other while the dashboard already serves.            *)
(*                                                                         *)
(* What the managers do inside (retries, pauses, sessions) is the business *)
(* of StandaloneManager and ScaleSet.  Here a manager is its entry in the  *)
(* table of processes and what runs behind it: the listener of a           *)
(* standalone runner, or the goroutines and the cancel function of a scale *)
(* set.  "Online" stands for Online, Busy and Paused.  The runner keeps    *)
(* its mode when it is recreated.                                          *)
(***************************************************************************)
EXTENDS Naturals, FiniteSets

CONSTANTS
    Modes,          \* the modes considered, a subset of {"standalone", "scaleset"}
    Configs,        \* what the edited columns of a row may hold
    NoConfig,       \* an update whose fields are all empty
    NoRow,
    Requests,       \* bound: requests, with the removals that go on in the background
    Launches,       \* bound: goroutines of scale sets that have not ended
    NoLaunch,
    MaxCreated      \* bound: rows inserted, one after the other

VARIABLES
    mode,
    row,         \* the row of the runner, or NoRow
    created,     \* rows inserted so far; the last one has this id
    creds,       \* the runner's directory holds .credentials
    state,       \* the entry in Processes, "None" before the first start
    listener,    \* standalone: "down", "up" (retries included), or "told" to stop
    session,     \* scale set: how far the goroutine of a launch is
    cancels,     \* scale set: the launch whose cancel function is stored under the name
    told,        \* launches that were cancelled
    stale,       \* history: launches of a row the start of the process had listed, made without one
    overlapped,  \* history: a start replaced an entry that was Registering
    reqs

launchVars == <<session, cancels, told, stale>>
rowVars    == <<mode, row, created, creds>>
vars == <<rowVars, state, listener, launchVars, overlapped, reqs>>

LiveStates == {"Online", "Registering", "Draining"}
States     == LiveStates \cup {"None", "Offline", "Failed"}
Rows       == [id : 1..MaxCreated, cfg : Configs]

ASSUME RunnerServiceAssumption ==
    /\ Modes \subseteq {"standalone", "scaleset"}
    /\ NoConfig \notin Configs /\ NoRow \notin Rows /\ NoLaunch \notin Launches
    /\ MaxCreated \in Nat

Steps == {"sent", "checked", "written", "launching",
          "halting", "stopped", "asleep", "rehalting", "deregister"}

\* runListener runs; the verdict is chosen; the cancel function is still to be deleted.
Stages == {"none", "run", "fail", "end", "delete"}

\* seen (the id of the row) and registered are what an update read; late marks
\* a request that was under way when the row was deleted.
Request == [id : Requests, kind : {"create", "update", "delete", "boot"}, at : Steps,
            cfg : Configs \cup {NoConfig}, seen : 0..MaxCreated,
            registered : BOOLEAN, late : BOOLEAN]

TypeOK ==
    /\ mode \in Modes
    /\ row \in Rows \cup {NoRow}
    /\ created \in 0..MaxCreated
    /\ row # NoRow => row.id = created
    /\ creds \in BOOLEAN
    /\ state \in States
    /\ listener \in {"down", "up", "told"}
    /\ session \in [Launches -> Stages]
    /\ cancels \in Launches \cup {NoLaunch}
    /\ told \subseteq Launches /\ stale \subseteq Launches
    /\ overlapped \in BOOLEAN
    /\ reqs \subseteq Request
    /\ \A r, q \in reqs : r.id = q.id => r = q

\* A request that has just arrived.
Arrived(i, k, c) == [id |-> i, kind |-> k, at |-> "sent", cfg |-> c, seen |-> 0,
                     registered |-> FALSE, late |-> FALSE]

\* The process starts, with or without a row on record.
Init ==
    /\ mode \in Modes
    /\ \/ row = NoRow /\ created = 0 /\ creds = FALSE
       \/ row \in Rows /\ row.id = 1 /\ created = 1
          /\ creds \in {FALSE, mode = "standalone"}
    /\ state = "None" /\ listener = "down" /\ overlapped = FALSE
    /\ session = [l \in Launches |-> "none"] /\ cancels = NoLaunch /\ told = {} /\ stale = {}
    /\ \E i \in Requests : reqs = {Arrived(i, "boot", NoConfig)}

-----------------------------------------------------------------------------
(* Requests.                                                               *)

Advance(r, to) == reqs' = (reqs \ {r}) \cup {to}
Finish(r)      == reqs' = reqs \ {r}
At(r, step)    == Advance(r, [r EXCEPT !.at = step])

\* The row is written: what was given and read is not needed any more.
Written(r) == [r EXCEPT !.at = "written", !.cfg = NoConfig, !.seen = 0, !.registered = FALSE]

\* A request arrives.  Only an update may leave the configuration empty.
Send ==
    /\ \E i \in Requests, k \in {"create", "update", "delete"}, c \in Configs \cup {NoConfig} :
          /\ \A r \in reqs : r.id # i
          /\ k = "create" => c \in Configs
          /\ k = "delete" => c = NoConfig
          /\ reqs' = reqs \cup {Arrived(i, k, c)}
    /\ UNCHANGED <<rowVars, state, listener, launchVars, overlapped>>

\* The answer before anything was changed: no row, no permission, no
\* registration token, the name is taken, an error of the database.
Refuse(r) ==
    /\ r.at = "sent"
    /\ Finish(r)
    /\ UNCHANGED <<rowVars, state, listener, launchVars, overlapped>>

\* The start of the process lists the rows.
ListRows(r) ==
    /\ r.kind = "boot" /\ r.at = "sent" /\ row # NoRow
    /\ Advance(r, Written(r))
    /\ UNCHANGED <<rowVars, state, listener, launchVars, overlapped>>

\* createRunner, up to the row.  Names are unique.
Insert(r) ==
    /\ r.kind = "create" /\ r.at = "sent"
    /\ row = NoRow /\ created < MaxCreated
    /\ row' = [id |-> created + 1, cfg |-> r.cfg] /\ created' = created + 1
    /\ Advance(r, Written(r))
    /\ UNCHANGED <<mode, creds, state, listener, launchVars, overlapped>>

\* UpdateRunner reads the row, the status and the directory: a runner that is
\* live is not edited (Refuse).
Check(r) ==
    /\ r.kind = "update" /\ r.at = "sent"
    /\ row # NoRow /\ state \notin LiveStates
    /\ Advance(r, [r EXCEPT !.at = "checked", !.seen = row.id,
                            !.registered = mode = "standalone" /\ creds])
    /\ UNCHANGED <<rowVars, state, listener, launchVars, overlapped>>

\* Slip: the row is found by its name.
WriteByName(r) ==
    LET bare == r.registered /\ r.cfg = NoConfig
        new  == [row EXCEPT !.cfg = IF r.cfg = NoConfig THEN @ ELSE r.cfg]
    IN  /\ r.at = "checked"
        /\ row' = IF bare \/ row = NoRow THEN row ELSE new
        /\ IF bare \/ row # NoRow THEN Advance(r, Written(r)) ELSE Finish(r)
        /\ UNCHANGED <<mode, created, creds, state, listener, launchVars, overlapped>>

\* The update proper, of the row with the id that was read: COALESCE keeps the
\* columns that were not given.  A bare retry of a registered runner writes
\* nothing; an update of a row that is gone fails.
Write(r) ==
    LET bare == r.registered /\ r.cfg = NoConfig
        hit  == row # NoRow /\ row.id = r.seen
        new  == [row EXCEPT !.cfg = IF r.cfg = NoConfig THEN @ ELSE r.cfg]
    IN  /\ r.at = "checked"
        /\ row' = IF hit /\ ~bare THEN new ELSE row
        /\ IF bare \/ hit THEN Advance(r, Written(r)) ELSE Finish(r)
        /\ UNCHANGED <<mode, created, creds, state, listener, launchVars, overlapped>>

-----------------------------------------------------------------------------
(* Multiplexer.AddRunner: BaseManager.Start and the hook Launch.           *)

\* Transition(name, to), whose error is ignored: Busy rejects Offline and
\* Paused both, Draining rejects Failed.
Transition(to) ==
    \/ /\ \/ state \in {"Registering", "Online"}
          \/ state \in {"Draining", "Failed"} /\ to = "Offline"
       /\ state' = to
    \/ /\ \/ state \in {"None", "Offline"}
          \/ state \in {"Draining", "Failed"} /\ to = "Failed"
          \/ state = "Online" /\ (to = "Offline" \/ mode = "standalone")
       /\ UNCHANGED state

\* A runner that is Online or Draining is not started: the request fails.
Start(r) ==
    /\ r.at = "written"
    /\ IF state \in {"Online", "Draining"}
       THEN Finish(r) /\ UNCHANGED <<state, overlapped>>
       ELSE /\ state' = "Registering"
            /\ overlapped' = (overlapped \/ state = "Registering")
            /\ At(r, "launching")
    /\ UNCHANGED <<rowVars, listener, launchVars>>

\* Start marks its own entry, whatever state it is in by then; another start
\* may have replaced it.
LaunchFails(r) ==
    /\ mode = "standalone" /\ r.at = "launching"
    /\ \/ state' = "Failed"
       \/ \E q \in reqs \ {r} : q.at = "launching" /\ state' = state
    /\ creds' \in {creds, TRUE}
    /\ Finish(r)
    /\ UNCHANGED <<mode, row, created, listener, launchVars, overlapped>>

\* config.sh registers the runner if need be, and the listener is started,
\* whatever became of the runner meanwhile.
LaunchStandalone(r) ==
    /\ mode = "standalone" /\ r.at = "launching"
    /\ creds' = TRUE
    /\ listener' = "up"
    /\ state' = IF state = "Registering" THEN "Online" ELSE state
    /\ Finish(r)
    /\ UNCHANGED <<mode, row, created, launchVars, overlapped>>

\* The listener of a standalone runner ends for good: it was stopped, it left,
\* or it could not be started again.
Exit ==
    /\ listener # "down"
    /\ listener' = "down"
    /\ Transition("Offline") \/ Transition("Failed")
    /\ UNCHANGED <<rowVars, launchVars, overlapped, reqs>>

\* The scale set's cancel function takes its place under the name, and its
\* goroutine starts.  The request waits a minute at most for Online or Failed, which
\* changes its answer only: the entry it would mark as Failed is Failed already.
LaunchScaleSet(r) ==
    /\ mode = "scaleset" /\ r.at = "launching"
    /\ \E l \in Launches :
          /\ session[l] = "none"
          /\ session' = [session EXCEPT ![l] = "run"]
          /\ cancels' = l
          /\ stale' = IF r.kind = "boot" /\ row = NoRow /\ ~r.late THEN stale \cup {l} ELSE stale
    /\ Finish(r)
    /\ UNCHANGED <<rowVars, state, listener, told, overlapped>>

\* runListener has its session.
GoesOnline(l) ==
    /\ session[l] = "run" /\ state = "Registering"
    /\ state' = "Online"
    /\ UNCHANGED <<rowVars, listener, launchVars, overlapped, reqs>>

\* runListener returns, cancelled or not; what was cancelled, or finds the
\* runner Draining, is no failure.
Decide(l) ==
    /\ session[l] = "run"
    /\ \/ session' = [session EXCEPT ![l] = "end"]
       \/ state # "Draining" /\ session' = [session EXCEPT ![l] = "fail"]
    /\ UNCHANGED <<rowVars, state, listener, cancels, told, stale, overlapped, reqs>>

\* The verdict, by name and under a lock of its own.
Verdict(l) ==
    /\ \/ session[l] = "fail" /\ Transition("Failed")
       \/ session[l] = "end"  /\ Transition("Offline")
    /\ session' = [session EXCEPT ![l] = "delete"]
    /\ UNCHANGED <<rowVars, listener, cancels, told, stale, overlapped, reqs>>

\* The goroutine deletes the cancel function stored under the name, be it the
\* one of a later launch, and ends.
DeleteCancel(l) ==
    /\ session[l] = "delete"
    /\ session' = [session EXCEPT ![l] = "none"]
    /\ cancels' = NoLaunch
    /\ told' = told \ {l} /\ stale' = stale \ {l}
    /\ UNCHANGED <<rowVars, state, listener, overlapped, reqs>>

-----------------------------------------------------------------------------
(* DeleteRunner.  A graceful and a forced stop differ in what becomes of   *)
(* the job, and in how long the request takes: Halt waits for a listener   *)
(* that drains, half an hour at most.                                      *)

\* BaseManager.Stop: what is not running is not halted, and the request goes on.
Stop(r, halted, otherwise) ==
    IF state \in {"None", "Offline", "Failed"}
    THEN At(r, otherwise) /\ UNCHANGED state
    ELSE At(r, halted) /\ state' = "Draining"

\* The hook Halt: it finds nothing to stop before the listener of a standalone
\* runner or the cancel function of a scale set is stored, or after the latter
\* was deleted.
Halt ==
    /\ listener' = IF listener = "up" THEN "told" ELSE listener
    /\ told' = told \cup ({cancels} \cap Launches)

DeleteStops(r) ==
    /\ r.kind = "delete" /\ r.at = "sent" /\ row # NoRow
    /\ Stop(r, "halting", "stopped")
    /\ UNCHANGED <<rowVars, listener, launchVars, overlapped>>

DeleteHalts(r) ==
    /\ \/ r.at = "halting" /\ At(r, "stopped")
       \/ r.at = "rehalting" /\ At(r, "deregister")
    /\ Halt
    /\ UNCHANGED <<rowVars, state, session, cancels, stale, overlapped>>

\* Between the check of a request and the moment its listener can be stopped.
\* The start of the process may take its time to come to a row it has listed.
Early(r) ==
    \/ r.at \in {"checked", "written"} /\ r.kind # "boot"
    \/ mode = "scaleset" /\ r.at = "launching"

\* The row goes by its name, be it another one by now; the answer is sent and a
\* goroutine sleeps for two seconds.  If the database fails, the row stays.
DeleteRow(r) ==
    /\ r.at = "stopped"
    /\ \/ /\ row' = NoRow
          /\ reqs' = {[q EXCEPT !.late = @ \/ Early(q)] : q \in reqs \ {r}}
                        \cup {[r EXCEPT !.at = "asleep"]}
       \/ Finish(r) /\ UNCHANGED row
    /\ UNCHANGED <<mode, created, creds, state, listener, launchVars, overlapped>>

\* Slip: nothing is stopped again.
StopNothing(r) ==
    /\ r.at = "asleep"
    /\ ~\E q \in reqs : q.late /\ Early(q)
    /\ At(r, "deregister")
    /\ UNCHANGED <<rowVars, state, listener, launchVars, overlapped>>

\* The goroutine stops the runner once more.  Two seconds are longer than a
\* request that was under way needs to get from its check to its launch.
StopAgain(r) ==
    /\ r.at = "asleep"
    /\ ~\E q \in reqs : q.late /\ Early(q)
    /\ Stop(r, "rehalting", "deregister")
    /\ UNCHANGED <<rowVars, listener, launchVars, overlapped>>

\* The hook Cleanup: the directory goes, or the scale set on GitHub.
Deregister(r) ==
    /\ r.at = "deregister"
    /\ creds' = FALSE
    /\ Finish(r)
    /\ UNCHANGED <<mode, row, created, state, listener, launchVars, overlapped>>

-----------------------------------------------------------------------------
Next ==
    \/ Send \/ Exit
    \/ \E r \in reqs :
          \/ Refuse(r) \/ ListRows(r) \/ Insert(r) \/ Check(r) \/ Write(r)
          \/ Start(r) \/ LaunchFails(r) \/ LaunchStandalone(r) \/ LaunchScaleSet(r)
          \/ DeleteStops(r) \/ DeleteHalts(r) \/ DeleteRow(r) \/ StopAgain(r) \/ Deregister(r)
    \/ \E l \in Launches : GoesOnline(l) \/ Decide(l) \/ Verdict(l) \/ DeleteCancel(l)

Spec == Init /\ [][Next]_vars
-----------------------------------------------------------------------------
(* Properties.                                                             *)

Quiet == reqs = {}

\* A scale set that was removed does not run on: when all requests and removals
\* have ended, a launch that still runs and was not cancelled has a row, although
\* updates, removals and creations interleave at every step.  The exceptions are
\* those of the code: the launch has lost its cancel function to the goroutine of
\* an earlier one (manager.go:71), the start of the process launched it from a
\* row that was gone (app.go:155), or two starts overlapped (base_manager.go:83).
RemovedIsStopped ==
    mode = "scaleset" /\ Quiet /\ ~overlapped =>
        \A l \in Launches : session[l] = "run" /\ l \notin told =>
            row # NoRow \/ cancels # l \/ l \in stale

\* An update changes the row it has read, never its successor of the same name.
EditsAreOwn ==
    [][row # NoRow /\ row' # NoRow /\ row' # row =>
          \E r \in reqs : r.at = "checked" /\ r.seen = row'.id]_vars
=============================================================================
