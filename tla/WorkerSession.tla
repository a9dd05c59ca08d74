---------------------------- MODULE WorkerSession ----------------------------
(***************************************************************************)
(* One worker container and the shim it was allocated to                   *)
(* (cmd/worker-launcher and cmd/worker-shim): who starts the worker, how   *)
(* the bridge between the listener and the worker is taken down, and how   *)
(* the exit code travels back.  The launcher's processes are its main      *)
(* goroutine, the worker's, the two copies of the bridge and one handler   *)
(* per GET /wait; the data on the bridge is left out.                      *)
(*                                                                         *)
(* Timers fire only when what they wait for is not about to happen, unless *)
(* the host is slow.                                                       *)
(***************************************************************************)
EXTENDS Naturals

CONSTANTS
    Codes,         \* exit codes of the worker
    Failed,        \* exit code 1 of the shim or the launcher, on an error of its own
    NoCode,
    MaxAttempts,   \* the shim's attempts to fetch the exit code: 5
    Faults         \* which mishaps may happen

MishapKinds == {"dial", "spawn", "listener", "unread", "slow", "kill"}

ASSUME WorkerSessionAssumption ==
    /\ Failed \notin Codes /\ NoCode \notin Codes \cup {Failed}
    /\ MaxAttempts \in Nat \ {0}
    /\ Faults \subseteq MishapKinds

VARIABLES
    starter,    \* startOnce: the mode that started the worker
    worker,     \* "closing" once the launcher's end of the worker's output is closed
    code,       \* the exit code of the worker
    conn,       \* the TCP connection; "queued" until it is accepted
    copyIn, copyOut,   \* the copies of the bridge run
    stuck,      \* copyIn blocks: the worker exited without reading its input
    finished,   \* exitCode and finished of the launcher
    main,
    fetched,    \* waitFetched holds a signal
    handler,    \* of each attempt
    shim, attempt, result,
    mishaps     \* history: the faults that happened

bridge == <<conn, copyIn, copyOut, stuck>>
wait   == <<finished, main, fetched, handler>>
host   == <<shim, attempt, result>>
vars   == <<starter, worker, code, bridge, wait, host, mishaps>>

Attempts == 1..MaxAttempts

TypeOK ==
    /\ starter \in {"none", "tcp", "jit"}
    /\ worker \in {"none", "header", "running", "exited", "closing"}
    /\ code \in Codes \cup {NoCode} /\ result \in Codes \cup {Failed, NoCode}
    /\ conn \in {"none", "queued", "open", "shut"}
    /\ copyIn \in BOOLEAN /\ copyOut \in BOOLEAN /\ stuck \in BOOLEAN
    /\ finished \in Codes \cup {Failed, NoCode}
    /\ main \in {"waiting", "grace", "exited"}
    /\ fetched \in BOOLEAN
    /\ handler \in [Attempts -> {"none", "blocked", "flushed", "done"}]
    /\ shim \in {"away", "dialed", "bridge", "get", "sleep", "ended"}
    /\ attempt \in 0..MaxAttempts
    /\ mishaps \subseteq Faults

Init ==
    /\ starter = "none" /\ worker = "none" /\ code = NoCode
    /\ conn = "none" /\ copyIn = FALSE /\ copyOut = FALSE /\ stuck = FALSE
    /\ finished = NoCode /\ main = "waiting" /\ fetched = FALSE
    /\ handler = [k \in Attempts |-> "none"]
    /\ shim = "away" /\ attempt = 0 /\ result = NoCode
    /\ mishaps = {}

Mishap(f) == f \in Faults /\ mishaps' = mishaps \cup {f}
AsPlanned == UNCHANGED mishaps

\* The container ends: its connections break.
Exit == main' = "exited" /\ conn' = IF conn = "none" THEN conn ELSE "shut"

-----------------------------------------------------------------------------
(* The shim, allocated a worker, up to the bridge.                         *)

Dial ==
    /\ shim = "away" /\ main # "exited"
    /\ shim' = "dialed" /\ conn' = "queued"
    /\ UNCHANGED <<starter, worker, code, copyIn, copyOut, stuck, wait, attempt, result, mishaps>>

\* The connection or the header fails: the shim asks the orchestrator to abort
\* the worker, which may not be heard.
DialFails ==
    /\ shim \in {"away", "dialed"}
    /\ Mishap("dial")
    /\ shim' = "ended" /\ result' = Failed
    /\ \/ Exit
       \/ main' = main /\ conn' = IF conn = "none" THEN conn ELSE "shut"
    /\ UNCHANGED <<starter, worker, code, copyIn, copyOut, stuck, finished, fetched, handler, attempt>>

WriteHeader ==
    /\ shim = "dialed"
    /\ shim' = "bridge"
    /\ UNCHANGED <<starter, worker, code, bridge, wait, attempt, result, mishaps>>

HeaderSent == shim = "bridge" \/ attempt > 0

-----------------------------------------------------------------------------
(* The launcher.                                                           *)

\* The first of the two modes starts the worker; a connection that comes later
\* is closed.
Accept ==
    /\ conn = "queued" /\ main # "exited"
    /\ IF starter = "none"
       THEN starter' = "tcp" /\ worker' = "header" /\ conn' = "open"
       ELSE conn' = "shut" /\ UNCHANGED <<starter, worker>>
    /\ UNCHANGED <<code, copyIn, copyOut, stuck, wait, host, mishaps>>

\* POST /start of a scaler.
StartJIT ==
    /\ starter = "none" /\ main # "exited"
    /\ starter' = "jit" /\ worker' = "running"
    /\ UNCHANGED <<code, bridge, wait, host, mishaps>>

Spawn ==
    /\ worker = "header" /\ HeaderSent /\ main # "exited"
    /\ worker' = "running" /\ copyIn' = TRUE /\ copyOut' = TRUE
    /\ UNCHANGED <<starter, code, conn, stuck, wait, host, mishaps>>

\* The header does not come, or the files, the pipes or the process fail.  The
\* connection stays open.
SpawnFails ==
    /\ worker = "header" /\ main # "exited"
    /\ IF HeaderSent THEN Mishap("spawn") ELSE conn = "shut" /\ AsPlanned
    /\ worker' = "exited" /\ finished' = Failed
    /\ UNCHANGED <<starter, code, bridge, main, fetched, handler, host>>

\* Nobody else closes the read end of the worker's input: input it has not read
\* may block the copy for good.
WorkerExits ==
    /\ worker = "running" /\ main # "exited"
    /\ \E c \in Codes : code' = c
    /\ worker' = "exited"
    /\ \/ AsPlanned /\ UNCHANGED stuck
       \/ starter = "tcp" /\ copyIn /\ Mishap("unread") /\ stuck' = TRUE
    /\ UNCHANGED <<starter, conn, copyIn, copyOut, wait, host>>

CloseWorkerWrite ==
    /\ worker = "exited" /\ starter = "tcp" /\ finished = NoCode /\ main # "exited"
    /\ worker' = "closing"
    /\ UNCHANGED <<starter, code, bridge, wait, host, mishaps>>

\* The file of that read end is unreachable now: the garbage collector closes it.
Collect ==
    /\ stuck /\ worker = "closing" /\ main # "exited"
    /\ stuck' = FALSE
    /\ UNCHANGED <<starter, worker, code, conn, copyIn, copyOut, wait, host, mishaps>>

\* Slip: the connection is left to the other copy.
CopyOutEndsOpen ==
    /\ copyOut /\ worker = "closing" /\ main # "exited"
    /\ copyOut' = FALSE
    /\ UNCHANGED <<starter, worker, code, conn, copyIn, stuck, wait, host, mishaps>>

\* io.Copy(conn, shimRead) and the Close that follows.
CopyOutEnds ==
    /\ copyOut /\ (worker = "closing" \/ conn = "shut") /\ main # "exited"
    /\ copyOut' = FALSE /\ conn' = "shut"
    /\ UNCHANGED <<starter, worker, code, copyIn, stuck, wait, host, mishaps>>

CopyInEnds ==
    /\ copyIn /\ conn = "shut" /\ ~stuck /\ main # "exited"
    /\ copyIn' = FALSE
    /\ UNCHANGED <<starter, worker, code, conn, copyOut, stuck, wait, host, mishaps>>

\* The exit code is known and, in standalone mode, the bridge is flushed.
Finish ==
    /\ finished = NoCode /\ main # "exited"
    /\ \/ starter = "jit" /\ worker = "exited"
       \/ worker = "closing" /\ ~copyIn /\ ~copyOut
    /\ finished' = code
    /\ UNCHANGED <<starter, worker, code, bridge, main, fetched, handler, host, mishaps>>

Grace ==
    /\ main = "waiting" /\ finished # NoCode
    /\ main' = "grace"
    /\ UNCHANGED <<starter, worker, code, bridge, finished, fetched, handler, host, mishaps>>

Fetched ==
    /\ main = "grace" /\ fetched
    /\ Exit
    /\ UNCHANGED <<starter, worker, code, copyIn, copyOut, stuck, finished, fetched, handler, host, mishaps>>

\* Five seconds without a signal.
GraceOver ==
    /\ main = "grace"
    /\ IF shim \in {"get", "sleep"} \/ (shim = "bridge" /\ conn = "shut")
       THEN Mishap("slow") ELSE AsPlanned
    /\ Exit
    /\ UNCHANGED <<starter, worker, code, copyIn, copyOut, stuck, finished, fetched, handler, host>>

\* The shim receives the answer to its attempt k, if it still waits for it.
Receive(k) ==
    IF shim = "get" /\ attempt = k
    THEN shim' = "ended" /\ result' = finished
    ELSE UNCHANGED <<shim, result>>

\* Slip: the handler signals before it has flushed.
RespondSignalled(k) ==
    /\ handler[k] = "blocked" /\ finished # NoCode /\ main # "exited"
    /\ \/ fetched /\ handler' = [handler EXCEPT ![k] = "done"] /\ Receive(k) /\ UNCHANGED fetched
       \/ ~fetched /\ fetched' = TRUE /\ UNCHANGED <<handler, shim, result>>
    /\ UNCHANGED <<starter, worker, code, bridge, finished, main, attempt, mishaps>>

\* handleWait, up to the flush.
Respond(k) ==
    /\ handler[k] = "blocked" /\ finished # NoCode /\ main # "exited"
    /\ handler' = [handler EXCEPT ![k] = "flushed"]
    /\ Receive(k)
    /\ UNCHANGED <<starter, worker, code, bridge, finished, main, fetched, attempt, mishaps>>

Signal(k) ==
    /\ handler[k] = "flushed" /\ main # "exited"
    /\ handler' = [handler EXCEPT ![k] = "done"] /\ fetched' = TRUE
    /\ UNCHANGED <<starter, worker, code, bridge, finished, main, host, mishaps>>

\* The orchestrator removes the container, or it crashes.
Kill ==
    /\ main # "exited" /\ starter # "none"
    /\ Mishap("kill")
    /\ Exit
    /\ UNCHANGED <<starter, worker, code, copyIn, copyOut, stuck, finished, fetched, handler, host>>

-----------------------------------------------------------------------------
(* The shim, from the end of the bridge on.                                *)

Get(k) ==
    /\ shim' = "get" /\ attempt' = k
    /\ handler' = [handler EXCEPT ![k] = IF main = "exited" THEN "none" ELSE "blocked"]

\* One of the two streams ends: the connection is closed, or the listener
\* closes its pipe first.
StreamEnds ==
    /\ shim = "bridge"
    /\ IF conn = "shut" THEN AsPlanned ELSE Mishap("listener")
    /\ Get(1)
    /\ UNCHANGED <<starter, worker, code, bridge, finished, main, fetched, result>>

\* Three seconds without an answer; the handler waits on.
GetTimesOut ==
    /\ shim = "get" /\ main # "exited"
    /\ IF finished = NoCode /\ (worker = "running" \/ stuck) THEN AsPlanned ELSE Mishap("slow")
    /\ shim' = "sleep"
    /\ UNCHANGED <<starter, worker, code, bridge, wait, attempt, result>>

\* The container is gone.
GetFails ==
    /\ shim = "get" /\ main = "exited"
    /\ shim' = "sleep"
    /\ UNCHANGED <<starter, worker, code, bridge, wait, attempt, result, mishaps>>

Retry ==
    /\ shim = "sleep" /\ attempt < MaxAttempts
    /\ Get(attempt + 1)
    /\ UNCHANGED <<starter, worker, code, bridge, finished, main, fetched, result, mishaps>>

GiveUp ==
    /\ shim = "sleep" /\ attempt = MaxAttempts
    /\ shim' = "ended" /\ result' = Failed
    /\ UNCHANGED <<starter, worker, code, bridge, wait, attempt, mishaps>>

-----------------------------------------------------------------------------
Launcher ==
    \/ Accept \/ Spawn \/ SpawnFails \/ WorkerExits \/ CloseWorkerWrite \/ Collect
    \/ CopyOutEnds \/ CopyInEnds \/ Finish \/ Grace \/ Fetched \/ GraceOver
    \/ \E k \in Attempts : Respond(k) \/ Signal(k)

Shim == WriteHeader \/ StreamEnds \/ GetTimesOut \/ GetFails \/ Retry \/ GiveUp

Next == Dial \/ DialFails \/ StartJIT \/ Kill \/ Launcher \/ Shim

Spec == Init /\ [][Next]_vars

\* The goroutines and the two processes go on; a job ends.
FairSpec ==
    /\ Spec
    /\ WF_vars(WriteHeader \/ GetTimesOut \/ GetFails \/ Retry \/ GiveUp)
    /\ WF_vars(conn = "shut" /\ StreamEnds)
    /\ WF_vars(Accept) /\ WF_vars(Spawn \/ (~HeaderSent /\ SpawnFails))
    /\ WF_vars(WorkerExits) /\ WF_vars(CloseWorkerWrite) /\ WF_vars(Collect)
    /\ WF_vars(CopyOutEnds) /\ WF_vars(CopyInEnds) /\ WF_vars(Finish) /\ WF_vars(Grace)
    /\ WF_vars(Fetched \/ GraceOver)
    /\ \A k \in Attempts : WF_vars(Respond(k)) /\ WF_vars(Signal(k))
-----------------------------------------------------------------------------
(* Properties.                                                             *)

\* A shim whose connection started the worker ends with the exit code of that
\* worker; it reports a failure of its own only if something went wrong on the
\* way, although the container ends as soon as one handler has answered, and
\* handlers of attempts that were given up answer too.
ExitCodeDelivered ==
    shim = "ended" /\ starter # "jit" =>
        result = code \/ (result = Failed /\ mishaps # {})

\* Nothing waits for ever on the bridge, the handlers or each other: a started
\* worker's container ends, and so does a shim that is connected.
SessionEnds ==
    /\ starter # "none" ~> main = "exited"
    /\ shim = "bridge" ~> shim = "ended"
=============================================================================
