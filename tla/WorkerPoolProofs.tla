-------------------------- MODULE WorkerPoolProofs --------------------------
(***************************************************************************)
(* What TLAPS proves of the orchestrator's pool, for all containers,       *)
(* runners, callers and settings.  Under every failure: TypeOK, the three  *)
(* counters (CountersMatch) and exclusive ownership (HandedOutOnce).       *)
(* While Docker answers inspections: NoLeak and the bound on containers,   *)
(* both but for the strays, the containers that a failed list, removal or  *)
(* creation left to nobody; if renames succeed too, a job that is no stray *)
(* keeps its slot, and no job's container is offered again.  Without       *)
(* restarts, ActiveAreOwned; with one max_workers also PauseAgreement.     *)
(* Without lost events, DeadAreReaped; without both, the pool implements   *)
(* WorkerLease.  Without crashes and failed pushes, a pool at rest leaves  *)
(* nobody waiting below max_workers.  The inductive invariants are         *)
(* CountInv, TrackInv, JobInv, Agreed and WaitInv.                         *)
(***************************************************************************)
EXTENDS WorkerPool, FiniteSetTheorems, TLAPS

USE DEF dockerVars, tableVars, configVars, wakeVars, bootVars, callerVars

\* Sets of containers are finite and have a size.
LEMMA SubsetCount == \A S \in SUBSET Containers : IsFiniteSet(S) /\ Cardinality(S) \in Nat
  BY FiniteAssumption, FS_Subset, FS_CardinalityType

\* maintainPool's loop spawns a natural number of goroutines.
LEMMA SpawnType == TypeOK => ToSpawn \in Nat
<1> SUFFICES ASSUME TypeOK PROVE ToSpawn \in Nat
  OBVIOUS
<1>1. Cardinality(warmPool) \in Nat /\ Cardinality(Active) \in Nat
  BY SubsetCount DEF TypeOK, Active
<1>2. Shortfall \in Int /\ Room \in Int
  BY <1>1 DEF TypeOK, Shortfall, Room
<1> QED
  BY <1>2 DEF ToSpawn

\* The critical section of handleContainerDeath keeps the types of the tables.
LEMMA BuryType ==
  ASSUME TypeOK, NEW c \in Containers, BuryActive(c) \/ BuryOther(c), UNCHANGED pc
  PROVE  /\ warmPool' \subseteq Containers
         /\ activeWorkers' \in [Containers -> Runners \cup {NoRunner}]
         /\ activeListeners' \in [Runners -> Int]
         /\ poolAwake' \in BOOLEAN /\ awake' \subseteq Waiting'
<1>1. CASE BuryActive(c)
  <2>1. activeWorkers[c] \in Runners
    BY <1>1 DEF TypeOK, BuryActive, Active
  <2>2. poolAwake' = TRUE /\ awake' = Waiting'
    BY <1>1 DEF BuryActive, Broadcast, Waiting
  <2> QED
    BY <1>1, <2>1, <2>2 DEF TypeOK, BuryActive, DropActive
<1>2. CASE BuryWarm(c)
  <2>1. poolAwake' = TRUE /\ awake' = Waiting'
    BY <1>2 DEF BuryWarm, Broadcast, Waiting
  <2> QED
    BY <1>2, <2>1 DEF TypeOK, BuryWarm
<1>3. CASE BuryUnknown(c)
  BY <1>3 DEF TypeOK, BuryUnknown, Waiting
<1> QED
  BY <1>1, <1>2, <1>3 DEF BuryOther

\* The initial states are typed.
LEMMA InitType == Init => TypeOK
<1> SUFFICES ASSUME Init PROVE TypeOK
  OBVIOUS
<1> USE NamesAssumption, SettingsAssumption, BoundsAssumption DEF Init
<1>1. docker \in [Containers -> {"absent", "created", "running"}]
  OBVIOUS
<1>2. cname \in [Containers -> Runners \cup {NoRunner}]
  OBVIOUS
<1>3. activeListeners \in [Runners -> Int]
  OBVIOUS
<1>4. maxWorkers \in Int /\ maxWorkers =< MaxCap /\ warmWorkersConfig \in Int
  OBVIOUS
<1>5. isPaused \in BOOLEAN /\ poolAwake \in BOOLEAN
  OBVIOUS
<1>6. boot \in [Containers -> BootStages] /\ pc \in [Requests -> CallerStages]
  BY DEF BootStages, CallerStages
<1>7. bootingCount \in Int /\ pendingAllocations \in Int /\ starting \in Nat /\ backoff \in 0 .. MaxBackoff
  OBVIOUS
<1>8. cand \in [Requests -> Containers \cup {NoContainer}] /\ caller \in [Requests -> Runners \cup {NoRunner}]
  OBVIOUS
<1> QED
  BY <1>1, <1>2, <1>3, <1>4, <1>5, <1>6, <1>7, <1>8 DEF TypeOK, Waiting

\* Every step keeps the types, one case for each action.
LEMMA StepType == TypeOK /\ [Next]_vars => TypeOK'
<1> SUFFICES ASSUME TypeOK, [Next]_vars PROVE TypeOK'
  OBVIOUS
<1>1. CASE MaintainPool
  <2>1. ToSpawn \in Nat
    BY SpawnType
  <2>2. starting' \in Nat /\ bootingCount' \in Int
    BY <1>1, <2>1 DEF TypeOK, MaintainPool
  <2>3. poolAwake' \in BOOLEAN /\ awake' \subseteq Waiting'
    BY <1>1 DEF TypeOK, MaintainPool, Waiting
  <2> QED
    BY <1>1, <2>2, <2>3 DEF TypeOK, MaintainPool
<1>2. CASE BackoffOver
  <2>1. backoff' \in 0 .. MaxBackoff
    BY <1>2, BoundsAssumption DEF TypeOK, BackoffOver
  <2>2. poolAwake' \in BOOLEAN /\ awake' = Waiting'
    BY <1>2 DEF BackoffOver, Broadcast, Waiting
  <2> QED
    BY <1>2, <2>1, <2>2 DEF TypeOK, BackoffOver
<1>3. CASE WatchEvaluate
  BY <1>3, NamesAssumption, SettingsAssumption DEF TypeOK, Waiting, BootStages, CallerStages, WatchEvaluate, EvaluateCapacity
<1>4. CASE BootRefused
  <2>1. backoff' \in 0 .. MaxBackoff /\ bootingCount' \in Int /\ starting' \in Nat
    BY <1>4, BoundsAssumption DEF TypeOK, BootRefused
  <2> QED
    BY <1>4, <2>1 DEF TypeOK, BootRefused, Waiting
<1>5. CASE StreamBreak
  BY <1>5, NamesAssumption, SettingsAssumption DEF TypeOK, Waiting, BootStages, CallerStages, StreamBreak
<1>6. CASE Restart
  <2>1. /\ docker' \in [Containers -> {"absent", "created", "running"}] /\ strays' \subseteq Containers
        /\ warmPool' \subseteq Containers /\ activeWorkers' \in [Containers -> Runners \cup {NoRunner}]
    <3>1. CASE Recover
      BY <3>1 DEF TypeOK, Recover, RecoverState
    <3>2. CASE RecoverNothing
      BY <3>2 DEF TypeOK, RecoverNothing, Existing
    <3> QED
      BY <1>6, <3>1, <3>2 DEF Restart
  <2>2. dieEvents' = {} /\ UNCHANGED <<cname, launched>>
    BY <1>6 DEF Restart
  <2>3. activeListeners' \in [Runners -> Int]
    <3>1. \A r \in Runners : Cardinality({c \in {d \in Containers : docker[d] = "running"} : cname[c] = r}) \in Int
      BY SubsetCount
    <3>2. CASE Recover
      BY <3>1, <3>2 DEF Recover, RecoverState
    <3>3. CASE RecoverNothing
      BY <3>3 DEF RecoverNothing
    <3> QED
      BY <1>6, <3>2, <3>3 DEF Restart
  <2>4. maxWorkers' \in Int /\ maxWorkers' =< MaxCap /\ warmWorkersConfig' \in Int
    BY <1>6, SettingsAssumption DEF Restart
  <2>5. bootingCount' = 0 /\ pendingAllocations' = 0 /\ starting' = 0 /\ backoff' = 0
        /\ awake' = {} /\ watcher' = "recv" /\ gone' = {}
    BY <1>6 DEF Restart
  <2>6. isPaused' \in BOOLEAN /\ poolAwake' \in BOOLEAN
    BY <1>6 DEF Restart
  <2>7. boot' \in [Containers -> BootStages] /\ pc' \in [Requests -> CallerStages]
    BY <1>6 DEF Restart, BootStages, CallerStages
  <2>8. cand' \in [Requests -> Containers \cup {NoContainer}]
        /\ caller' \in [Requests -> Runners \cup {NoRunner}]
    BY <1>6 DEF Restart
  <2>9. \A q \in Requests : pc'[q] = "idle" /\ cand'[q] = NoContainer /\ caller'[q] = NoRunner
    BY <1>6 DEF Restart
  <2> QED
    BY <2>1, <2>2, <2>3, <2>4, <2>5, <2>6, <2>7, <2>8, <2>9, BoundsAssumption DEF TypeOK, Waiting
<1>7. ASSUME NEW c \in Containers, BootCreate(c) PROVE TypeOK'
  BY <1>7, NamesAssumption, SettingsAssumption DEF TypeOK, Waiting, BootStages, CallerStages, BootCreate
<1>8. ASSUME NEW c \in Containers, BootStart(c) PROVE TypeOK'
  BY <1>8, NamesAssumption, SettingsAssumption DEF TypeOK, Waiting, BootStages, CallerStages, BootStart
<1>9. ASSUME NEW c \in Containers, EnterPool(c) PROVE TypeOK'
  BY <1>9, NamesAssumption, SettingsAssumption DEF TypeOK, Waiting, BootStages, CallerStages, EnterPool
<1>10. ASSUME NEW c \in Containers, BootCheck(c) PROVE TypeOK'
  BY <1>10, NamesAssumption, SettingsAssumption DEF TypeOK, Waiting, BootStages, CallerStages, BootCheck, SeemsDead
<1>11. ASSUME NEW c \in Containers, BootReap(c) PROVE TypeOK'
  <2>1. boot' \in [Containers -> BootStages]
    BY <1>11 DEF TypeOK, BootReap, BootStages
  <2>2. BuryActive(c) \/ BuryOther(c)
    BY <1>11 DEF BootReap
  <2> QED
    BY <1>11, <2>1, <2>2, BuryType DEF TypeOK, BootReap, Waiting
<1>12. ASSUME NEW c \in Containers, BootEvaluate(c) PROVE TypeOK'
  BY <1>12, NamesAssumption, SettingsAssumption DEF TypeOK, Waiting, BootStages, CallerStages, BootEvaluate, EvaluateCapacity
<1>13. ASSUME NEW c \in Containers, BootAnnounce(c) PROVE TypeOK'
  BY <1>13, NamesAssumption, SettingsAssumption DEF TypeOK, Waiting, BootStages, CallerStages, BootAnnounce, Broadcast
<1>14. ASSUME NEW c \in Containers, JobEnds(c) PROVE TypeOK'
  BY <1>14, NamesAssumption, SettingsAssumption DEF TypeOK, Waiting, BootStages, CallerStages, JobEnds, Vanish
<1>15. ASSUME NEW c \in Containers, WorkerDies(c) PROVE TypeOK'
  BY <1>15, NamesAssumption, SettingsAssumption DEF TypeOK, Waiting, BootStages, CallerStages, WorkerDies, Vanish
<1>16. ASSUME NEW c \in Containers, WatchDeath(c) PROVE TypeOK'
  <2>1. watcher' \in {"recv", "evaluate"} /\ dieEvents' \subseteq Containers
    BY <1>16 DEF TypeOK, WatchDeath
  <2>2. BuryActive(c) \/ BuryOther(c)
    BY <1>16 DEF WatchDeath
  <2> QED
    BY <1>16, <2>1, <2>2, BuryType DEF TypeOK, WatchDeath, Waiting
<1>17. ASSUME NEW q \in Requests, Wake(q) PROVE TypeOK'
  BY <1>17, NamesAssumption, SettingsAssumption DEF TypeOK, Waiting, BootStages, CallerStages, Wake, TakeOrWait
<1>18. ASSUME NEW q \in Requests, Vet(q) PROVE TypeOK'
  BY <1>18, NamesAssumption, SettingsAssumption DEF TypeOK, Waiting, BootStages, CallerStages, Vet, SeemsDead
<1>19. ASSUME NEW q \in Requests, Discard(q) PROVE TypeOK'
  BY <1>19, NamesAssumption, SettingsAssumption DEF TypeOK, Waiting, BootStages, CallerStages, Discard, TakeOrWait, Remove, Vanish
<1>20. ASSUME NEW q \in Requests, Register(q) PROVE TypeOK'
  BY <1>20, NamesAssumption, SettingsAssumption DEF TypeOK, Waiting, BootStages, CallerStages, Register, Broadcast
<1>21. ASSUME NEW q \in Requests, Evaluate(q) PROVE TypeOK'
  BY <1>21, NamesAssumption, SettingsAssumption DEF TypeOK, Waiting, BootStages, CallerStages, Evaluate, EvaluateCapacity
<1>22. ASSUME NEW q \in Requests, DeliverToNobody(q) PROVE TypeOK'
  BY <1>22, NamesAssumption, SettingsAssumption DEF TypeOK, Waiting, BootStages, CallerStages, DeliverToNobody, Leave
<1>23. ASSUME NEW q \in Requests, Deliver(q) PROVE TypeOK'
  BY <1>23, NamesAssumption, SettingsAssumption DEF TypeOK, Waiting, BootStages, CallerStages, Deliver, Leave
<1>24. ASSUME NEW q \in Requests, Abort(q) PROVE TypeOK'
  BY <1>24, NamesAssumption, SettingsAssumption DEF TypeOK, Waiting, BootStages, CallerStages, Abort, DropActive, Active
<1>25. ASSUME NEW q \in Requests, AbortEvaluate(q) PROVE TypeOK'
  BY <1>25, NamesAssumption, SettingsAssumption DEF TypeOK, Waiting, BootStages, CallerStages, AbortEvaluate, EvaluateCapacity
<1>26. ASSUME NEW q \in Requests, KillWorker(q) PROVE TypeOK'
  BY <1>26, NamesAssumption, SettingsAssumption DEF TypeOK, Waiting, BootStages, CallerStages, KillWorker, Remove, Vanish, Leave
<1>27. ASSUME NEW q \in Requests, Cancel(q) PROVE TypeOK'
  BY <1>27, NamesAssumption, SettingsAssumption DEF TypeOK, Waiting, BootStages, CallerStages, Cancel
<1>28. ASSUME NEW q \in Requests, CancelWait(q) PROVE TypeOK'
  BY <1>28, NamesAssumption, SettingsAssumption DEF TypeOK, Waiting, BootStages, CallerStages, CancelWait, Leave
<1>29. ASSUME NEW q \in Requests, NEW r \in Runners, Request(q, r) PROVE TypeOK'
  BY <1>29, NamesAssumption, SettingsAssumption DEF TypeOK, Waiting, BootStages, CallerStages, Request, Broadcast, TakeOrWait
<1>30. ASSUME NEW s \in Settings, UpdateSettings(s) PROVE TypeOK'
  BY <1>30, NamesAssumption, SettingsAssumption DEF TypeOK, Waiting, BootStages, CallerStages, UpdateSettings, Broadcast
<1>31. CASE UNCHANGED vars
  BY <1>31 DEF TypeOK, Waiting, vars
<1>32. ASSUME NEW c \in Containers, BootLose(c) PROVE TypeOK'
  BY <1>32, NamesAssumption, SettingsAssumption DEF TypeOK, Waiting, BootStages, CallerStages, BootLose, Fresh, Held, Active
<1>33. ASSUME NEW c \in Containers, BootAbandon(c) PROVE TypeOK'
  BY <1>33, NamesAssumption, SettingsAssumption DEF TypeOK, Waiting, BootStages, CallerStages, BootAbandon, Remove, Vanish
<1>34. ASSUME NEW c \in Containers, BootFail(c) PROVE TypeOK'
  <2>1. backoff' \in 0 .. MaxBackoff
    BY <1>34, BoundsAssumption DEF TypeOK, BootFail
  <2> QED
    BY <1>34, <2>1 DEF TypeOK, Waiting, BootStages, BootFail
<1> QED
  BY <1>1, <1>2, <1>3, <1>4, <1>5, <1>6, <1>7, <1>8, <1>9, <1>10, <1>11, <1>12, <1>13, <1>14, <1>15, <1>16, <1>17, <1>18, <1>19, <1>20, <1>21, <1>22, <1>23, <1>24, <1>25, <1>26, <1>27, <1>28, <1>29, <1>30, <1>31, <1>32, <1>33, <1>34 DEF Next, PoolStep, BootStep, CallerStep

\* Every reachable state of the pool is typed: no counter, table, stage or
\* candidate leaves its range, whatever fails.
THEOREM TypeCorrect == Spec => []TypeOK
<1>1. Init => TypeOK
  BY InitType
<1>2. TypeOK /\ [Next]_vars => TypeOK'
  BY StepType
<1> QED
  BY <1>1, <1>2, PTL DEF Spec

-----------------------------------------------------------------------------
(* Sharing: a warm container is nobody's candidate, and one that boots or   *)
(* is still being vetted has no entry in activeWorkers.                     *)

Exclusive ==
  /\ \A c \in warmPool : /\ activeWorkers[c] = NoRunner
                         /\ boot[c] \notin {"created", "started", "failed"}
                         /\ \A q \in Requests : cand[q] # c
  /\ \A c \in Containers : boot[c] \in {"created", "started", "failed"} =>
       /\ activeWorkers[c] = NoRunner
       /\ \A q \in Requests : cand[q] # c
  /\ \A q \in Requests : pc[q] \in {"taken", "vetted", "rejected"} =>
       activeWorkers[cand[q]] = NoRunner
  /\ \A p, q \in Requests : cand[p] = cand[q] /\ cand[p] # NoContainer => p = q

\* Every step keeps the ownership exclusive.
LEMMA StepExclusive == TypeOK /\ TypeOK' /\ Exclusive /\ [Next]_vars => Exclusive'
<1> SUFFICES ASSUME TypeOK, TypeOK', Exclusive, [Next]_vars PROVE Exclusive'
  OBVIOUS
<1>1. CASE MaintainPool
  BY <1>1, NamesAssumption DEF TypeOK, Exclusive, MaintainPool
<1>2. CASE BackoffOver
  BY <1>2, NamesAssumption DEF TypeOK, Exclusive, BackoffOver, Broadcast
<1>3. CASE WatchEvaluate
  BY <1>3, NamesAssumption DEF TypeOK, Exclusive, WatchEvaluate, EvaluateCapacity
<1>4. CASE BootRefused
  BY <1>4, NamesAssumption DEF TypeOK, Exclusive, BootRefused
<1>5. CASE StreamBreak
  BY <1>5, NamesAssumption DEF TypeOK, Exclusive, StreamBreak
<1>6. CASE Restart
  BY <1>6, NamesAssumption DEF TypeOK, Exclusive, Restart, Recover, RecoverNothing, RecoverState
<1>7. ASSUME NEW c \in Containers, BootCreate(c) PROVE Exclusive'
  BY <1>7, NamesAssumption DEF TypeOK, Exclusive, BootCreate, Fresh, Active, Held
<1>8. ASSUME NEW c \in Containers, BootStart(c) PROVE Exclusive'
  BY <1>8, NamesAssumption DEF TypeOK, Exclusive, BootStart
<1>9. ASSUME NEW c \in Containers, EnterPool(c) PROVE Exclusive'
  BY <1>9, NamesAssumption DEF TypeOK, Exclusive, EnterPool
<1>10. ASSUME NEW c \in Containers, BootCheck(c) PROVE Exclusive'
  BY <1>10, NamesAssumption DEF TypeOK, Exclusive, BootCheck, SeemsDead
<1>11. ASSUME NEW c \in Containers, BootReap(c) PROVE Exclusive'
  BY <1>11, NamesAssumption DEF TypeOK, Exclusive, BootReap, BuryActive, BuryOther, BuryWarm, BuryUnknown, DropActive, Broadcast, Active
<1>12. ASSUME NEW c \in Containers, BootEvaluate(c) PROVE Exclusive'
  BY <1>12, NamesAssumption DEF TypeOK, Exclusive, BootEvaluate, EvaluateCapacity
<1>13. ASSUME NEW c \in Containers, BootAnnounce(c) PROVE Exclusive'
  BY <1>13, NamesAssumption DEF TypeOK, Exclusive, BootAnnounce, Broadcast
<1>14. ASSUME NEW c \in Containers, JobEnds(c) PROVE Exclusive'
  BY <1>14, NamesAssumption DEF TypeOK, Exclusive, JobEnds, Vanish
<1>15. ASSUME NEW c \in Containers, WorkerDies(c) PROVE Exclusive'
  BY <1>15, NamesAssumption DEF TypeOK, Exclusive, WorkerDies, Vanish
<1>16. ASSUME NEW c \in Containers, WatchDeath(c) PROVE Exclusive'
  BY <1>16, NamesAssumption DEF TypeOK, Exclusive, WatchDeath, BuryActive, BuryOther, BuryWarm, BuryUnknown, DropActive, Broadcast, Active
<1>17. ASSUME NEW q \in Requests, Wake(q) PROVE Exclusive'
  BY <1>17, NamesAssumption DEF TypeOK, Exclusive, Wake, TakeOrWait
<1>18. ASSUME NEW q \in Requests, Vet(q) PROVE Exclusive'
  BY <1>18, NamesAssumption DEF TypeOK, Exclusive, Vet, SeemsDead
<1>19. ASSUME NEW q \in Requests, Discard(q) PROVE Exclusive'
  BY <1>19, NamesAssumption DEF TypeOK, Exclusive, Discard, TakeOrWait, Remove, Vanish
<1>20. ASSUME NEW q \in Requests, Register(q) PROVE Exclusive'
  BY <1>20, NamesAssumption DEF TypeOK, Exclusive, Register, Broadcast
<1>21. ASSUME NEW q \in Requests, Evaluate(q) PROVE Exclusive'
  BY <1>21, NamesAssumption DEF TypeOK, Exclusive, Evaluate, EvaluateCapacity
<1>22. ASSUME NEW q \in Requests, DeliverToNobody(q) PROVE Exclusive'
  BY <1>22, NamesAssumption DEF TypeOK, Exclusive, DeliverToNobody, Leave
<1>23. ASSUME NEW q \in Requests, Deliver(q) PROVE Exclusive'
  BY <1>23, NamesAssumption DEF TypeOK, Exclusive, Deliver, Leave
<1>24. ASSUME NEW q \in Requests, Abort(q) PROVE Exclusive'
  BY <1>24, NamesAssumption DEF TypeOK, Exclusive, Abort, DropActive, Active
<1>25. ASSUME NEW q \in Requests, AbortEvaluate(q) PROVE Exclusive'
  BY <1>25, NamesAssumption DEF TypeOK, Exclusive, AbortEvaluate, EvaluateCapacity
<1>26. ASSUME NEW q \in Requests, KillWorker(q) PROVE Exclusive'
  BY <1>26, NamesAssumption DEF TypeOK, Exclusive, KillWorker, Remove, Vanish, Leave
<1>27. ASSUME NEW q \in Requests, Cancel(q) PROVE Exclusive'
  BY <1>27, NamesAssumption DEF TypeOK, Exclusive, Cancel
<1>28. ASSUME NEW q \in Requests, CancelWait(q) PROVE Exclusive'
  BY <1>28, NamesAssumption DEF TypeOK, Exclusive, CancelWait, Leave
<1>29. ASSUME NEW q \in Requests, NEW r \in Runners, Request(q, r) PROVE Exclusive'
  BY <1>29, NamesAssumption DEF TypeOK, Exclusive, Request, Broadcast, TakeOrWait
<1>30. ASSUME NEW s \in Settings, UpdateSettings(s) PROVE Exclusive'
  BY <1>30, NamesAssumption DEF TypeOK, Exclusive, UpdateSettings, Broadcast
<1>31. CASE UNCHANGED vars
  BY <1>31 DEF TypeOK, Exclusive, vars
<1>32. ASSUME NEW c \in Containers, BootLose(c) PROVE Exclusive'
  BY <1>32, NamesAssumption DEF TypeOK, Exclusive, BootLose, Fresh, Held, Active
<1>33. ASSUME NEW c \in Containers, BootAbandon(c) PROVE Exclusive'
  BY <1>33, NamesAssumption DEF TypeOK, Exclusive, BootAbandon, Remove, Vanish
<1>34. ASSUME NEW c \in Containers, BootFail(c) PROVE Exclusive'
  BY <1>34, NamesAssumption DEF TypeOK, Exclusive, BootFail
<1> QED
  BY <1>1, <1>2, <1>3, <1>4, <1>5, <1>6, <1>7, <1>8, <1>9, <1>10, <1>11, <1>12, <1>13, <1>14, <1>15, <1>16, <1>17, <1>18, <1>19, <1>20, <1>21, <1>22, <1>23, <1>24, <1>25, <1>26, <1>27, <1>28, <1>29, <1>30, <1>31, <1>32, <1>33, <1>34 DEF Next, PoolStep, BootStep, CallerStep

\* A container leaves or joins the workers of one runner.
AssignedTo(r) == {c \in Containers : activeWorkers[c] = r}

ListenersMatch == \A r \in Runners : activeListeners[r] = Cardinality(AssignedTo(r))
BootingMatch   == bootingCount = starting + Cardinality(Booting)
WaitingMatch   == pendingAllocations = Cardinality(Waiting)

\* Burying or aborting a worker takes it from the count of its runner.
LEMMA DropMatches ==
  ASSUME TypeOK, ListenersMatch, NEW c \in Active, DropActive(c)
  PROVE  ListenersMatch'
<1> DEFINE r == activeWorkers[c]
<1>1. r \in Runners /\ r # NoRunner
  BY NamesAssumption DEF TypeOK, Active
<1> SUFFICES ASSUME NEW x \in Runners PROVE activeListeners'[x] = Cardinality(AssignedTo(x)')
  BY DEF ListenersMatch
<1>2. CASE x = r
  <2>1. AssignedTo(x)' = AssignedTo(x) \ {c} /\ c \in AssignedTo(x)
    BY <1>1, <1>2, NamesAssumption DEF TypeOK, DropActive, AssignedTo, Active
  <2>2. Cardinality(AssignedTo(x)') = Cardinality(AssignedTo(x)) - 1
    BY <2>1, SubsetCount, FS_RemoveElement DEF AssignedTo
  <2> QED
    BY <1>1, <1>2, <2>2 DEF TypeOK, DropActive, ListenersMatch
<1>3. CASE x # r
  <2>1. AssignedTo(x)' = AssignedTo(x)
    BY <1>1, <1>3, NamesAssumption DEF TypeOK, DropActive, AssignedTo, Active
  <2> QED
    BY <1>1, <1>3, <2>1 DEF TypeOK, DropActive, ListenersMatch
<1> QED
  BY <1>2, <1>3

\* Registering a worker adds it to the count of its runner.
LEMMA RegisterMatches ==
  ASSUME TypeOK, Exclusive, ListenersMatch, NEW q \in Requests, Register(q)
  PROVE  ListenersMatch'
<1> DEFINE c == cand[q]  r == caller[q]
<1>1. c \in Containers /\ r \in Runners /\ activeWorkers[c] = NoRunner
  BY NamesAssumption DEF TypeOK, Exclusive, Register
<1> SUFFICES ASSUME NEW x \in Runners PROVE activeListeners'[x] = Cardinality(AssignedTo(x)')
  BY DEF ListenersMatch
<1>2. CASE x = r
  <2>1. AssignedTo(x)' = AssignedTo(x) \cup {c} /\ c \notin AssignedTo(x)
    BY <1>1, <1>2, NamesAssumption DEF TypeOK, Register, AssignedTo
  <2>2. Cardinality(AssignedTo(x)') = Cardinality(AssignedTo(x)) + 1
    BY <2>1, SubsetCount, FS_AddElement DEF AssignedTo
  <2> QED
    BY <1>1, <1>2, <2>2 DEF TypeOK, Register, ListenersMatch
<1>3. CASE x # r
  <2>1. AssignedTo(x)' = AssignedTo(x)
    BY <1>1, <1>3, NamesAssumption DEF TypeOK, Register, AssignedTo
  <2> QED
    BY <1>1, <1>3, <2>1 DEF TypeOK, Register, ListenersMatch
<1> QED
  BY <1>2, <1>3

\* activeListeners counts the registered workers of each runner.
LEMMA StepListeners == TypeOK /\ Exclusive /\ ListenersMatch /\ [Next]_vars => ListenersMatch'
<1> SUFFICES ASSUME TypeOK, Exclusive, ListenersMatch, [Next]_vars PROVE ListenersMatch'
  OBVIOUS
<1>1. CASE UNCHANGED <<activeWorkers, activeListeners>>
  BY <1>1 DEF ListenersMatch, AssignedTo
<1>2. ASSUME NEW c \in Containers, BuryActive(c) PROVE ListenersMatch'
  BY <1>2, DropMatches DEF BuryActive
<1>3. ASSUME NEW q \in Requests, Abort(q) PROVE ListenersMatch'
  <2>1. CASE cand[q] \in Active /\ DropActive(cand[q])
    BY <2>1, DropMatches
  <2> QED
    BY <1>1, <1>3, <2>1 DEF Abort
<1>4. CASE Restart
  <2> SUFFICES ASSUME NEW r \in Runners PROVE activeListeners'[r] = Cardinality(AssignedTo(r)')
    BY DEF ListenersMatch
  <2>1. CASE Recover
    <3>1. AssignedTo(r)' = {c \in {d \in Containers : docker[d] = "running"} : cname[c] = r}
      BY <2>1, NamesAssumption DEF Recover, RecoverState, AssignedTo
    <3> QED
      BY <2>1, <3>1 DEF Recover, RecoverState
  <2>2. CASE RecoverNothing
    <3>1. AssignedTo(r)' = {} /\ activeListeners'[r] = 0
      BY <2>2, NamesAssumption DEF RecoverNothing, AssignedTo
    <3> QED
      BY <3>1, FS_EmptySet
  <2> QED
    BY <1>4, <2>1, <2>2 DEF Restart
<1>5. ASSUME NEW c \in Containers, BootReap(c) \/ WatchDeath(c) PROVE ListenersMatch'
  BY <1>1, <1>2, <1>5 DEF BootReap, WatchDeath, BuryOther, BuryWarm, BuryUnknown
<1>6. ASSUME NEW q \in Requests, CallerStep(q) PROVE ListenersMatch'
  BY <1>1, <1>3, <1>6, RegisterMatches
     DEF CallerStep, Wake, Vet, Discard, TakeOrWait, Evaluate, DeliverToNobody, Deliver,
         AbortEvaluate, KillWorker
<1>7. ASSUME NEW c \in Containers,
             BootCreate(c) \/ BootLose(c) \/ BootAbandon(c) \/ BootStep(c) \/ JobEnds(c) \/ WorkerDies(c)
      PROVE  ListenersMatch'
  BY <1>1, <1>5, <1>7
     DEF BootCreate, BootLose, BootAbandon, BootStep, BootStart, BootFail, EnterPool, BootCheck,
         BootEvaluate, BootAnnounce, JobEnds, WorkerDies
<1>8. CASE PoolStep \/ BootRefused \/ StreamBreak
  BY <1>1, <1>8 DEF PoolStep, MaintainPool, BackoffOver, WatchEvaluate, BootRefused, StreamBreak
<1>9. ASSUME NEW q \in Requests, Cancel(q) \/ CancelWait(q) \/ \E r \in Runners : Request(q, r)
      PROVE  ListenersMatch'
  BY <1>1, <1>9 DEF Cancel, CancelWait, Request, TakeOrWait
<1>10. ASSUME NEW s \in Settings, UpdateSettings(s) PROVE ListenersMatch'
  BY <1>1, <1>10 DEF UpdateSettings
<1>11. CASE UNCHANGED vars
  BY <1>1, <1>11 DEF vars
<1> QED
  BY <1>4, <1>5, <1>6, <1>7, <1>8, <1>9, <1>10, <1>11 DEF Next

\* bootingCount counts the goroutines before and after ContainerCreate.
LEMMA StepBooting == TypeOK /\ BootingMatch /\ [Next]_vars => BootingMatch'
<1> SUFFICES ASSUME TypeOK, BootingMatch, [Next]_vars PROVE BootingMatch'
  OBVIOUS
<1>1. Booting \in SUBSET Containers /\ IsFiniteSet(Booting) /\ Cardinality(Booting) \in Nat
  BY SubsetCount DEF Booting
<1>2. CASE UNCHANGED <<bootingCount, starting>> /\ Booting' = Booting
  BY <1>2 DEF BootingMatch
<1>3. CASE UNCHANGED <<bootingCount, starting, boot>>
  BY <1>2, <1>3 DEF Booting
<1>4. CASE MaintainPool
  <2>1. ToSpawn \in Nat /\ Booting' = Booting
    BY <1>4, SpawnType DEF MaintainPool, Booting
  <2> QED
    BY <1>1, <1>4, <2>1 DEF TypeOK, BootingMatch, MaintainPool
<1>5. ASSUME NEW c \in Containers, BootCreate(c) \/ BootLose(c) PROVE BootingMatch'
  <2>1. Booting' = Booting \cup {c} /\ c \notin Booting
    BY <1>5 DEF TypeOK, BootCreate, BootLose, Booting, Fresh
  <2>2. Cardinality(Booting') = Cardinality(Booting) + 1
    BY <1>1, <2>1, FS_AddElement
  <2> QED
    BY <1>1, <1>5, <2>2 DEF TypeOK, BootingMatch, BootCreate, BootLose
<1>6. ASSUME NEW c \in Booting, bootingCount' = bootingCount - 1, UNCHANGED starting,
             Booting' = Booting \ {c}
      PROVE  BootingMatch'
  <2>1. Cardinality(Booting') = Cardinality(Booting) - 1
    BY <1>1, <1>6, FS_RemoveElement
  <2> QED
    BY <1>1, <1>6, <2>1 DEF TypeOK, BootingMatch
<1>7. ASSUME NEW c \in Containers, EnterPool(c) PROVE BootingMatch'
  <2>1. c \in Booting /\ Booting' = Booting \ {c}
    BY <1>7 DEF TypeOK, EnterPool, Booting
  <2> QED
    BY <1>6, <1>7, <2>1 DEF EnterPool
<1>8. CASE BootRefused
  <2>1. Booting' = Booting
    BY <1>8 DEF BootRefused, Booting
  <2> QED
    BY <1>1, <1>8, <2>1 DEF TypeOK, BootingMatch, BootRefused
<1>9. ASSUME NEW c \in Containers, BootStep(c) PROVE BootingMatch'
  <2>1. CASE EnterPool(c)
    BY <1>7, <2>1
  <2>3. CASE BootFail(c)
    <3>1. c \in Booting /\ Booting' = Booting \ {c}
      BY <2>3 DEF TypeOK, BootFail, Booting
    <3> QED
      BY <1>6, <2>3, <3>1 DEF BootFail
  <2>2. CASE ~EnterPool(c) /\ ~BootFail(c)
    <3>1. UNCHANGED <<bootingCount, starting>> /\ Booting' = Booting
      BY <1>9, <2>2 DEF TypeOK, Booting, BootStep, BootStart, BootCheck, BootReap, BootEvaluate, BootAnnounce
    <3> QED
      BY <1>2, <3>1
  <2> QED
    BY <2>1, <2>2, <2>3
<1>10. CASE Restart
  <2>1. Booting' = {} /\ bootingCount' = 0 /\ starting' = 0
    BY <1>10 DEF Restart, Booting
  <2> QED
    BY <2>1, FS_EmptySet DEF BootingMatch
<1>11. CASE BackoffOver \/ WatchEvaluate \/ StreamBreak \/ UNCHANGED vars
  BY <1>3, <1>11 DEF BackoffOver, WatchEvaluate, StreamBreak, vars
<1>12. ASSUME NEW c \in Containers, JobEnds(c) \/ WorkerDies(c) \/ WatchDeath(c)
       PROVE  BootingMatch'
  BY <1>3, <1>12 DEF JobEnds, WorkerDies, WatchDeath
<1>15. ASSUME NEW c \in Containers, BootAbandon(c) PROVE BootingMatch'
  <2>1. Booting' = Booting
    BY <1>15 DEF TypeOK, BootAbandon, Booting
  <2> QED
    BY <1>2, <1>15, <2>1 DEF BootAbandon
<1>13. ASSUME NEW q \in Requests,
              CallerStep(q) \/ Cancel(q) \/ CancelWait(q) \/ \E r \in Runners : Request(q, r)
       PROVE  BootingMatch'
  BY <1>3, <1>13
     DEF CallerStep, Wake, Vet, Discard, Register, Evaluate, DeliverToNobody, Deliver, Abort,
         AbortEvaluate, KillWorker, Cancel, CancelWait, Request
<1>14. ASSUME NEW s \in Settings, UpdateSettings(s) PROVE BootingMatch'
  BY <1>3, <1>14 DEF UpdateSettings
<1> QED
  BY <1>4, <1>5, <1>8, <1>9, <1>10, <1>11, <1>12, <1>13, <1>14, <1>15 DEF Next, PoolStep

\* pendingAllocations counts the callers in the wait.
LEMMA TakeMatches ==
  ASSUME TypeOK, NEW q \in Requests, NEW pending \in Int, TakeOrWait(q, pending),
         pending = Cardinality(Waiting \cup {q})
  PROVE  WaitingMatch'
<1>1. Waiting \cup {q} \in SUBSET Requests /\ IsFiniteSet(Waiting \cup {q})
  BY FiniteAssumption, FS_Subset DEF Waiting
<1>2. CASE pc' = [pc EXCEPT ![q] = "taken"] /\ pendingAllocations' = pending - 1
  <2>1. Waiting' = (Waiting \cup {q}) \ {q}
    BY <1>2 DEF TypeOK, Waiting
  <2>2. Cardinality(Waiting') = Cardinality(Waiting \cup {q}) - 1
    BY <1>1, <2>1, FS_RemoveElement
  <2> QED
    BY <1>2, <2>2 DEF WaitingMatch
<1>3. CASE pc' = [pc EXCEPT ![q] = "wait"] /\ pendingAllocations' = pending
  <2>1. Waiting' = Waiting \cup {q}
    BY <1>3 DEF TypeOK, Waiting
  <2> QED
    BY <1>3, <2>1 DEF WaitingMatch
<1> QED
  BY <1>2, <1>3 DEF TakeOrWait

LEMMA StepWaiting == TypeOK /\ WaitingMatch /\ [Next]_vars => WaitingMatch'
<1> SUFFICES ASSUME TypeOK, WaitingMatch, [Next]_vars PROVE WaitingMatch'
  OBVIOUS
<1>1. Waiting \in SUBSET Requests /\ IsFiniteSet(Waiting) /\ Cardinality(Waiting) \in Nat
  BY FiniteAssumption, FS_Subset, FS_CardinalityType DEF Waiting
<1>2. CASE UNCHANGED pendingAllocations /\ Waiting' = Waiting
  BY <1>2 DEF WaitingMatch
<1>3. CASE UNCHANGED <<pendingAllocations, pc>>
  BY <1>2, <1>3 DEF Waiting
<1>4. ASSUME NEW q \in Requests, pc[q] # "wait", TakeOrWait(q, pendingAllocations + 1)
      PROVE  WaitingMatch'
  <2>1. Cardinality(Waiting \cup {q}) = pendingAllocations + 1
    BY <1>1, <1>4, FS_AddElement DEF WaitingMatch, Waiting
  <2>2. pendingAllocations + 1 \in Int
    BY DEF TypeOK
  <2> QED
    BY <1>4, <2>1, <2>2, TakeMatches
<1>5. ASSUME NEW q \in Requests, NEW r \in Runners, Request(q, r) PROVE WaitingMatch'
  BY <1>4, <1>5 DEF Request
<1>6. ASSUME NEW q \in Requests, Discard(q) PROVE WaitingMatch'
  BY <1>4, <1>6 DEF Discard
<1>7. ASSUME NEW q \in Requests, Wake(q) PROVE WaitingMatch'
  <2>1. Waiting \cup {q} = Waiting
    BY <1>7 DEF TypeOK, Wake
  <2> QED
    BY <1>7, <2>1, TakeMatches DEF TypeOK, Wake, WaitingMatch
<1>8. ASSUME NEW q \in Requests, CancelWait(q) PROVE WaitingMatch'
  <2>1. Waiting' = Waiting \ {q} /\ q \in Waiting
    BY <1>8 DEF TypeOK, CancelWait, Leave, Waiting
  <2>2. Cardinality(Waiting') = Cardinality(Waiting) - 1
    BY <1>1, <2>1, FS_RemoveElement
  <2> QED
    BY <1>1, <1>8, <2>2 DEF TypeOK, CancelWait, WaitingMatch
<1>9. ASSUME NEW q \in Requests, CallerStep(q) \/ Cancel(q) PROVE WaitingMatch'
  <2>1. CASE Wake(q) \/ Discard(q)
    BY <1>6, <1>7, <2>1
  <2>2. CASE ~Wake(q) /\ ~Discard(q)
    <3>1. UNCHANGED pendingAllocations /\ Waiting' = Waiting
      BY <1>9, <2>2
         DEF TypeOK, Waiting, CallerStep, Vet, Register, Evaluate, DeliverToNobody, Deliver,
             Leave, Abort, AbortEvaluate, KillWorker, Cancel
    <3> QED
      BY <1>2, <3>1
  <2> QED
    BY <2>1, <2>2
<1>10. CASE Restart
  <2>1. Waiting' = {} /\ pendingAllocations' = 0
    BY <1>10 DEF Restart, Waiting
  <2> QED
    BY <2>1, FS_EmptySet DEF WaitingMatch
<1>11. CASE PoolStep \/ BootRefused \/ StreamBreak \/ UNCHANGED vars
  BY <1>3, <1>11 DEF PoolStep, MaintainPool, BackoffOver, WatchEvaluate, BootRefused, StreamBreak, vars
<1>12. ASSUME NEW c \in Containers,
              \/ BootCreate(c) \/ BootLose(c) \/ BootAbandon(c) \/ BootStep(c)
              \/ JobEnds(c) \/ WorkerDies(c) \/ WatchDeath(c)
       PROVE  WaitingMatch'
  BY <1>3, <1>12
     DEF BootCreate, BootLose, BootAbandon, BootStep, BootStart, BootFail, EnterPool, BootCheck, BootReap, BootEvaluate,
         BootAnnounce, JobEnds, WorkerDies, WatchDeath
<1>13. ASSUME NEW s \in Settings, UpdateSettings(s) PROVE WaitingMatch'
  BY <1>3, <1>13 DEF UpdateSettings
<1> QED
  BY <1>5, <1>8, <1>9, <1>10, <1>11, <1>12, <1>13 DEF Next

\* The inductive invariant of the counters: none of them can be shown without
\* Exclusive, since a container registered twice would be counted once.
CountInv == TypeOK /\ Exclusive /\ ListenersMatch /\ BootingMatch /\ WaitingMatch

\* CountInv holds at the start.
LEMMA InitCount == Init => CountInv
<1> SUFFICES ASSUME Init PROVE CountInv
  OBVIOUS
<1>1. TypeOK
  BY InitType
<1>2. Exclusive
  BY NamesAssumption DEF Init, Exclusive
<1>3. ListenersMatch
  <2> SUFFICES ASSUME NEW r \in Runners PROVE activeListeners[r] = Cardinality(AssignedTo(r))
    BY DEF ListenersMatch
  <2>1. AssignedTo(r) = {}
    BY NamesAssumption DEF Init, AssignedTo
  <2> QED
    BY <2>1, FS_EmptySet DEF Init
<1>4. BootingMatch /\ WaitingMatch
  <2>1. Booting = {} /\ Waiting = {}
    BY DEF Init, Booting, Waiting
  <2> QED
    BY <2>1, FS_EmptySet DEF Init, BootingMatch, WaitingMatch
<1> QED
  BY <1>1, <1>2, <1>3, <1>4 DEF CountInv

\* CountInv is inductive.
LEMMA StepCount == CountInv /\ [Next]_vars => CountInv'
  BY StepType, StepExclusive, StepListeners, StepBooting, StepWaiting DEF CountInv

\* CountInv is an invariant of the pool.
LEMMA CountInvariant == Spec => []CountInv
  BY InitCount, StepCount, PTL DEF Spec

\* The three counters of the orchestrator are what they claim to count, under
\* every failure the model has.
THEOREM CountersCorrect == Spec => []CountersMatch
<1>1. CountInv => CountersMatch
  BY DEF CountInv, ListenersMatch, BootingMatch, WaitingMatch, AssignedTo, CountersMatch
<1> QED
  BY <1>1, CountInvariant, PTL

\* No container is offered, reserved or registered twice at a time, under every
\* failure the model has.
THEOREM HandedOutOnceCorrect == Spec => []HandedOutOnce
<1>1. CountInv => HandedOutOnce
  BY NamesAssumption DEF CountInv, TypeOK, Exclusive, HandedOutOnce, Active, Limbo
<1> QED
  BY <1>1, CountInvariant, PTL

-----------------------------------------------------------------------------
(* Tracking: as long as Docker answers inspections, everything it holds is  *)
(* known to a table, a boot goroutine or a caller, or is a stray of another *)
(* call that failed.  A die event and a boot goroutine that reaps are about *)
(* containers that are gone, so burying them loses nothing; a caller lets   *)
(* go of a container only when it is gone, registered or a stray.           *)

Tracked ==
  /\ NoLeak
  /\ \A c \in dieEvents : docker[c] = "absent"
  /\ \A c \in Containers : /\ boot[c] = "created" => docker[c] = "created"
                           /\ boot[c] = "failed" => docker[c] = "absent" \/ c \in strays
                           /\ boot[c] = "reap" => docker[c] = "absent"
  /\ \A q \in Requests : pc[q] \in {"evaluate", "deliver", "abort"} =>
       docker[cand[q]] = "absent" \/ activeWorkers[cand[q]] # NoRunner

\* Every step keeps Tracked, if inspections answer.
LEMMA StepTracked ==
  ASSUME "inspect" \notin Faults, TypeOK, TypeOK', Exclusive, Tracked, [Next]_vars
  PROVE  Tracked'
<1>1. CASE MaintainPool
  BY <1>1, NamesAssumption DEF TypeOK, Exclusive, Tracked, NoLeak, Existing, Active, Held, Booting, MaintainPool
<1>2. CASE BackoffOver
  BY <1>2, NamesAssumption DEF TypeOK, Exclusive, Tracked, NoLeak, Existing, Active, Held, Booting, BackoffOver, Broadcast
<1>3. CASE WatchEvaluate
  BY <1>3, NamesAssumption DEF TypeOK, Exclusive, Tracked, NoLeak, Existing, Active, Held, Booting, WatchEvaluate, EvaluateCapacity
<1>4. CASE BootRefused
  BY <1>4, NamesAssumption DEF TypeOK, Exclusive, Tracked, NoLeak, Existing, Active, Held, Booting, BootRefused
<1>5. CASE StreamBreak
  BY <1>5, NamesAssumption DEF TypeOK, Exclusive, Tracked, NoLeak, Existing, Active, Held, Booting, StreamBreak
<1>6. CASE Restart
  BY <1>6, NamesAssumption DEF TypeOK, Exclusive, Tracked, NoLeak, Existing, Active, Held, Booting, Restart, Recover, RecoverNothing, RecoverState
<1>7. ASSUME NEW c \in Containers, BootCreate(c) PROVE Tracked'
  BY <1>7, NamesAssumption DEF TypeOK, Exclusive, Tracked, NoLeak, Existing, Active, Held, Booting, BootCreate, Fresh
<1>8. ASSUME NEW c \in Containers, BootStart(c) PROVE Tracked'
  BY <1>8, NamesAssumption DEF TypeOK, Exclusive, Tracked, NoLeak, Existing, Active, Held, Booting, BootStart
<1>9. ASSUME NEW c \in Containers, EnterPool(c) PROVE Tracked'
  BY <1>9, NamesAssumption DEF TypeOK, Exclusive, Tracked, NoLeak, Existing, Active, Held, Booting, EnterPool
<1>10. ASSUME NEW c \in Containers, BootCheck(c) PROVE Tracked'
  BY <1>10, NamesAssumption DEF TypeOK, Exclusive, Tracked, NoLeak, Existing, Active, Held, Booting, BootCheck, SeemsDead
<1>11. ASSUME NEW c \in Containers, BootReap(c) PROVE Tracked'
  BY <1>11, NamesAssumption DEF TypeOK, Exclusive, Tracked, NoLeak, Existing, Active, Held, Booting, BootReap, BuryActive, BuryOther, BuryWarm, BuryUnknown, DropActive, Broadcast
<1>12. ASSUME NEW c \in Containers, BootEvaluate(c) PROVE Tracked'
  BY <1>12, NamesAssumption DEF TypeOK, Exclusive, Tracked, NoLeak, Existing, Active, Held, Booting, BootEvaluate, EvaluateCapacity
<1>13. ASSUME NEW c \in Containers, BootAnnounce(c) PROVE Tracked'
  BY <1>13, NamesAssumption DEF TypeOK, Exclusive, Tracked, NoLeak, Existing, Active, Held, Booting, BootAnnounce, Broadcast
<1>14. ASSUME NEW c \in Containers, JobEnds(c) PROVE Tracked'
  BY <1>14, NamesAssumption DEF TypeOK, Exclusive, Tracked, NoLeak, Existing, Active, Held, Booting, JobEnds, Vanish
<1>15. ASSUME NEW c \in Containers, WorkerDies(c) PROVE Tracked'
  BY <1>15, NamesAssumption DEF TypeOK, Exclusive, Tracked, NoLeak, Existing, Active, Held, Booting, WorkerDies, Vanish
<1>16. ASSUME NEW c \in Containers, WatchDeath(c) PROVE Tracked'
  BY <1>16, NamesAssumption DEF TypeOK, Exclusive, Tracked, NoLeak, Existing, Active, Held, Booting, WatchDeath, BuryActive, BuryOther, BuryWarm, BuryUnknown, DropActive, Broadcast
<1>17. ASSUME NEW q \in Requests, Wake(q) PROVE Tracked'
  <2> USE <1>17 DEF Wake, TakeOrWait
  <2>1. UNCHANGED <<docker, dieEvents, strays, boot, activeWorkers>>
    OBVIOUS
  <2>2. NoLeak'
    <3> SUFFICES ASSUME NEW c \in Containers, c \in Existing
                 PROVE  (c \in warmPool \cup Active \cup Booting \cup Held \cup strays)'
      BY <2>1 DEF NoLeak, Existing
    <3>1. CASE c \in Active \cup Booting
      BY <2>1, <3>1 DEF Active, Booting
    <3>2. CASE c \in warmPool
      BY <3>2 DEF TypeOK, Held
    <3>3. CASE c \in Held
      BY <3>3, NamesAssumption DEF TypeOK, Held, Waiting
    <3>4. CASE c \in strays
      BY <2>1, <3>4
    <3> QED
      BY <3>1, <3>2, <3>3, <3>4 DEF Tracked, NoLeak
  <2>3. \A p \in Requests : pc'[p] \in {"evaluate", "deliver", "abort"} =>
          pc'[p] = pc[p] /\ cand'[p] = cand[p]
    BY DEF TypeOK
  <2> QED
    BY <2>1, <2>2, <2>3 DEF Tracked
<1>18. ASSUME NEW q \in Requests, Vet(q) PROVE Tracked'
  BY <1>18, NamesAssumption DEF TypeOK, Exclusive, Tracked, NoLeak, Existing, Active, Held, Booting, Vet, SeemsDead
<1>19. ASSUME NEW q \in Requests, Discard(q) PROVE Tracked'
  BY <1>19, NamesAssumption DEF TypeOK, Exclusive, Tracked, NoLeak, Existing, Active, Held, Booting, Discard, TakeOrWait, Remove, Vanish
<1>20. ASSUME NEW q \in Requests, Register(q) PROVE Tracked'
  BY <1>20, NamesAssumption DEF TypeOK, Exclusive, Tracked, NoLeak, Existing, Active, Held, Booting, Register, Broadcast
<1>21. ASSUME NEW q \in Requests, Evaluate(q) PROVE Tracked'
  BY <1>21, NamesAssumption DEF TypeOK, Exclusive, Tracked, NoLeak, Existing, Active, Held, Booting, Evaluate, EvaluateCapacity
<1>22. ASSUME NEW q \in Requests, DeliverToNobody(q) PROVE Tracked'
  BY <1>22, NamesAssumption DEF TypeOK, Exclusive, Tracked, NoLeak, Existing, Active, Held, Booting, DeliverToNobody, Leave
<1>23. ASSUME NEW q \in Requests, Deliver(q) PROVE Tracked'
  BY <1>23, NamesAssumption DEF TypeOK, Exclusive, Tracked, NoLeak, Existing, Active, Held, Booting, Deliver, Leave
<1>24. ASSUME NEW q \in Requests, Abort(q) PROVE Tracked'
  BY <1>24, NamesAssumption DEF TypeOK, Exclusive, Tracked, NoLeak, Existing, Active, Held, Booting, Abort, DropActive
<1>25. ASSUME NEW q \in Requests, AbortEvaluate(q) PROVE Tracked'
  BY <1>25, NamesAssumption DEF TypeOK, Exclusive, Tracked, NoLeak, Existing, Active, Held, Booting, AbortEvaluate, EvaluateCapacity
<1>26. ASSUME NEW q \in Requests, KillWorker(q) PROVE Tracked'
  BY <1>26, NamesAssumption DEF TypeOK, Exclusive, Tracked, NoLeak, Existing, Active, Held, Booting, KillWorker, Remove, Vanish, Leave
<1>27. ASSUME NEW q \in Requests, Cancel(q) PROVE Tracked'
  BY <1>27, NamesAssumption DEF TypeOK, Exclusive, Tracked, NoLeak, Existing, Active, Held, Booting, Cancel
<1>28. ASSUME NEW q \in Requests, CancelWait(q) PROVE Tracked'
  BY <1>28, NamesAssumption DEF TypeOK, Exclusive, Tracked, NoLeak, Existing, Active, Held, Booting, CancelWait, Leave
<1>29. ASSUME NEW q \in Requests, NEW r \in Runners, Request(q, r) PROVE Tracked'
  BY <1>29, NamesAssumption DEF TypeOK, Exclusive, Tracked, NoLeak, Existing, Active, Held, Booting, Request, Broadcast, TakeOrWait
<1>30. ASSUME NEW s \in Settings, UpdateSettings(s) PROVE Tracked'
  BY <1>30, NamesAssumption DEF TypeOK, Exclusive, Tracked, NoLeak, Existing, Active, Held, Booting, UpdateSettings, Broadcast
<1>31. CASE UNCHANGED vars
  BY <1>31 DEF TypeOK, Exclusive, Tracked, NoLeak, Existing, Active, Held, Booting, vars
<1>32. ASSUME NEW c \in Containers, BootLose(c) PROVE Tracked'
  BY <1>32, NamesAssumption DEF TypeOK, Exclusive, Tracked, NoLeak, Existing, Active, Held, Booting, BootLose, Fresh
<1>33. ASSUME NEW c \in Containers, BootAbandon(c) PROVE Tracked'
  BY <1>33, NamesAssumption DEF TypeOK, Exclusive, Tracked, NoLeak, Existing, Active, Held, Booting, BootAbandon, Remove, Vanish
<1>34. ASSUME NEW c \in Containers, BootFail(c) PROVE Tracked'
  BY <1>34, NamesAssumption DEF TypeOK, Exclusive, Tracked, NoLeak, Existing, Active, Held, Booting, BootFail
<1> QED
  BY <1>1, <1>2, <1>3, <1>4, <1>5, <1>6, <1>7, <1>8, <1>9, <1>10, <1>11, <1>12, <1>13, <1>14, <1>15, <1>16, <1>17, <1>18, <1>19, <1>20, <1>21, <1>22, <1>23, <1>24, <1>25, <1>26, <1>27, <1>28, <1>29, <1>30, <1>31, <1>32, <1>33, <1>34 DEF Next, PoolStep, BootStep, CallerStep

TrackInv == CountInv /\ Tracked

\* TrackInv is an invariant of the pool, if inspections answer.
LEMMA TrackInvariant == ASSUME "inspect" \notin Faults PROVE Spec => []TrackInv
<1>1. Init => TrackInv
  <2> SUFFICES ASSUME Init PROVE TrackInv
    OBVIOUS
  <2> QED
    BY InitCount DEF Init, TrackInv, Tracked, NoLeak, Existing
<1>2. TrackInv /\ [Next]_vars => TrackInv'
  <2> SUFFICES ASSUME TrackInv, [Next]_vars PROVE TrackInv'
    OBVIOUS
  <2>1. CountInv'
    BY StepCount DEF TrackInv
  <2> QED
    BY <2>1, StepTracked DEF TrackInv, CountInv
<1> QED
  BY <1>1, <1>2, PTL DEF Spec

\* If inspections answer, the only containers nobody will use or remove are
\* those of the failed calls that made them strays, whatever dies, restarts or
\* is cancelled, and even if die events are lost.
THEOREM NoLeakCorrect == ASSUME "inspect" \notin Faults PROVE Spec => []NoLeak
<1>1. TrackInv => NoLeak
  BY DEF TrackInv, Tracked
<1> QED
  BY <1>1, TrackInvariant, PTL

-----------------------------------------------------------------------------
(* The limit.  maintainPool spawns into the room the tables leave, and only *)
(* the callers hold containers beside them, at most one each.               *)

\* No more containers are in the hands of callers than there are callers.
LEMMA HeldBound ==
  ASSUME TypeOK
  PROVE  IsFiniteSet(Held) /\ Cardinality(Held) \in Nat /\ Cardinality(Held) =< Cardinality(Requests)
<1> DEFINE H == {q \in Requests : cand[q] \in Containers}
           f == [q \in H |-> cand[q]]
<1>1. f \in Surjection(H, Held)
  BY DEF Surjection, Held
<1>2. IsFiniteSet(H) /\ Cardinality(H) =< Cardinality(Requests)
      /\ Cardinality(H) \in Nat /\ Cardinality(Requests) \in Nat
  BY FiniteAssumption, FS_Subset, FS_CardinalityType
<1>3. IsFiniteSet(Held) /\ Cardinality(Held) =< Cardinality(H)
  BY <1>1, <1>2, FS_Surjection
<1>4. Cardinality(Held) \in Nat
  BY <1>3, FS_CardinalityType
<1> QED
  BY <1>2, <1>3, <1>4

\* The size of a union is bounded by the sizes of its parts.
LEMMA UnionBound ==
  ASSUME NEW S, NEW T, IsFiniteSet(S), IsFiniteSet(T)
  PROVE  /\ IsFiniteSet(S \cup T)
         /\ Cardinality(S \cup T) \in Nat
         /\ Cardinality(S \cup T) =< Cardinality(S) + Cardinality(T)
<1>1. S \cap T \in SUBSET S
  OBVIOUS
<1>2. Cardinality(S \cap T) =< Cardinality(S) /\ Cardinality(S \cap T) \in Nat
      /\ Cardinality(S) \in Nat /\ Cardinality(T) \in Nat
  BY <1>1, FS_Subset, FS_CardinalityType
<1>3. IsFiniteSet(S \cup T) /\ Cardinality(S \cup T) = Cardinality(S) + Cardinality(T) - Cardinality(S \cap T)
  BY FS_Union
<1> QED
  BY <1>2, <1>3

\* The containers the bound is about.
Counted == Existing \ strays

\* Strays apart, existing containers are in a table, booting or held by a caller.
LEMMA ExistingBound ==
  ASSUME TypeOK, NoLeak
  PROVE  Cardinality(Counted) =<
           Cardinality(warmPool) + Cardinality(Active) + Cardinality(Booting) + Cardinality(Requests)
<1>1. IsFiniteSet(warmPool) /\ IsFiniteSet(Active) /\ IsFiniteSet(Booting) /\ IsFiniteSet(Counted)
  BY SubsetCount DEF TypeOK, Active, Booting, Counted, Existing
<1>2. Cardinality(warmPool) \in Nat /\ Cardinality(Active) \in Nat /\ Cardinality(Booting) \in Nat
      /\ Cardinality(Counted) \in Nat /\ Cardinality(Requests) \in Nat
  BY <1>1, FiniteAssumption, FS_CardinalityType
<1> DEFINE WA == warmPool \cup Active  WAB == WA \cup Booting  All == WAB \cup Held
<1>3. IsFiniteSet(WA) /\ Cardinality(WA) \in Nat /\ Cardinality(WA) =< Cardinality(warmPool) + Cardinality(Active)
  BY <1>1, UnionBound
<1>4. IsFiniteSet(WAB) /\ Cardinality(WAB) \in Nat /\ Cardinality(WAB) =< Cardinality(WA) + Cardinality(Booting)
  BY <1>1, <1>3, UnionBound
<1>5. IsFiniteSet(All) /\ Cardinality(All) \in Nat /\ Cardinality(All) =< Cardinality(WAB) + Cardinality(Held)
  BY <1>4, HeldBound, UnionBound
<1>6. Counted \in SUBSET All
  BY DEF Counted, NoLeak
<1>7. Cardinality(Counted) =< Cardinality(All)
  BY <1>5, <1>6, FS_Subset
<1> HIDE DEF WA, WAB, All
<1> QED
  BY <1>2, <1>3, <1>4, <1>5, <1>7, HeldBound

\* Every step keeps the bound: only MaintainPool adds, and it looks at Room.
LEMMA StepBounded ==
  ASSUME TrackInv, TypeOK', LiveContainersBounded, [Next]_vars
  PROVE  LiveContainersBounded'
<1> USE DEF TrackInv, CountInv
<1>1. Counted \in SUBSET Containers /\ IsFiniteSet(Counted) /\ Cardinality(Counted) \in Nat
      /\ Cardinality(Requests) \in Nat
  BY SubsetCount, FiniteAssumption, FS_CardinalityType DEF Counted, Existing
<1>2. Counted' \in SUBSET Containers /\ Cardinality(Counted') \in Nat
  BY SubsetCount DEF Counted, Existing
<1>3. ASSUME Counted' \subseteq Counted, starting' =< starting PROVE LiveContainersBounded'
  <2>1. Cardinality(Counted') =< Cardinality(Counted)
    BY <1>1, <1>3, FS_Subset
  <2> QED
    BY <1>1, <1>2, <1>3, <2>1, SettingsAssumption DEF TypeOK, LiveContainersBounded, Counted
<1>4. CASE MaintainPool
  <2>1. Counted' = Counted
    BY <1>4 DEF MaintainPool, Counted, Existing
  <2>2. Cardinality(warmPool) \in Nat /\ Cardinality(Active) \in Nat /\ Cardinality(Booting) \in Nat
    BY SubsetCount DEF TypeOK, Active, Booting
  <2>3. CASE ToSpawn = 0
    <3>1. starting' = starting
      BY <1>4, <2>3 DEF MaintainPool, TypeOK
    <3> QED
      BY <1>3, <2>1, <3>1 DEF TypeOK
  <2>4. CASE ToSpawn # 0
    <3>1. Shortfall \in Int /\ Room \in Int
      BY <2>2 DEF TypeOK, Shortfall, Room
    <3>2. ToSpawn \in Nat /\ ToSpawn =< Room
      BY <2>4, <3>1 DEF ToSpawn
    <3>3. Cardinality(warmPool) + Cardinality(Active) + Cardinality(Booting) + starting + ToSpawn =< maxWorkers
      BY <2>2, <3>2 DEF Room, BootingMatch, TypeOK
    <3>4. Cardinality(Counted) =<
            Cardinality(warmPool) + Cardinality(Active) + Cardinality(Booting) + Cardinality(Requests)
      BY ExistingBound DEF Tracked
    <3>5. starting' = starting + ToSpawn
      BY <1>4 DEF MaintainPool
    <3> HIDE DEF TrackInv, CountInv
    <3>6. maxWorkers =< MaxCap /\ MaxCap \in Int /\ maxWorkers \in Int /\ starting \in Nat
      BY SettingsAssumption DEF TrackInv, CountInv, TypeOK
    <3>7. Cardinality(Counted') + starting' =< MaxCap + Cardinality(Requests)
      BY <1>1, <2>1, <2>2, <3>2, <3>3, <3>4, <3>5, <3>6
    <3> QED
      BY <3>7 DEF LiveContainersBounded, Counted
  <2> QED
    BY <2>3, <2>4
<1>5. ASSUME NEW c \in Containers, BootCreate(c) PROVE LiveContainersBounded'
  <2>1. Counted' \in SUBSET (Counted \cup {c}) /\ c \notin Counted
    BY <1>5 DEF TypeOK, BootCreate, Fresh, Counted, Existing
  <2>2. IsFiniteSet(Counted \cup {c}) /\ Cardinality(Counted \cup {c}) = Cardinality(Counted) + 1
    BY <1>1, <2>1, FS_AddElement
  <2>3. Cardinality(Counted') =< Cardinality(Counted) + 1
    BY <2>1, <2>2, FS_Subset
  <2> QED
    BY <1>1, <1>2, <1>5, <2>3, SettingsAssumption DEF TypeOK, BootCreate, LiveContainersBounded, Counted
<1>6. CASE BackoffOver \/ WatchEvaluate \/ BootRefused \/ StreamBreak \/ UNCHANGED vars
  BY <1>3, <1>6
     DEF BackoffOver, WatchEvaluate, BootRefused, StreamBreak, vars, Counted, Existing, TypeOK
<1>12. ASSUME NEW c \in Containers, BootLose(c) \/ BootAbandon(c) PROVE LiveContainersBounded'
  BY <1>3, <1>12 DEF BootLose, BootAbandon, Remove, Vanish, Counted, Existing, TypeOK
<1>7. CASE Restart
  <2>1. starting' = 0
    BY <1>7 DEF Restart
  <2>2. CASE Recover
    BY <1>3, <2>1, <2>2 DEF Recover, Counted, Existing, TypeOK
  <2>3. CASE RecoverNothing
    BY <1>3, <2>1, <2>3 DEF RecoverNothing, Counted, Existing, TypeOK
  <2> QED
    BY <1>7, <2>2, <2>3 DEF Restart
<1>8. ASSUME NEW c \in Containers, BootStep(c) PROVE LiveContainersBounded'
  <2>1. Counted' = Counted /\ starting' = starting
    BY <1>8 DEF BootStep, BootStart, BootFail, EnterPool, BootCheck, BootReap, BootEvaluate, BootAnnounce,
                Counted, Existing, TypeOK, Tracked
  <2> QED
    BY <1>3, <2>1 DEF TypeOK
<1>9. ASSUME NEW c \in Containers, JobEnds(c) \/ WorkerDies(c) \/ WatchDeath(c)
      PROVE  LiveContainersBounded'
  BY <1>3, <1>9 DEF JobEnds, WorkerDies, WatchDeath, Vanish, Counted, Existing, TypeOK
<1>10. ASSUME NEW q \in Requests,
              CallerStep(q) \/ Cancel(q) \/ CancelWait(q) \/ \E r \in Runners : Request(q, r)
       PROVE  LiveContainersBounded'
  <2>1. Counted' \subseteq Counted /\ starting' = starting
    BY <1>10
       DEF CallerStep, Wake, Vet, Discard, Register, Evaluate, DeliverToNobody, Deliver, Abort,
           AbortEvaluate, KillWorker, Cancel, CancelWait, Request, Remove, Vanish, Counted, Existing, TypeOK
  <2> QED
    BY <1>3, <2>1 DEF TypeOK
<1>11. ASSUME NEW s \in Settings, UpdateSettings(s) PROVE LiveContainersBounded'
  BY <1>3, <1>11 DEF UpdateSettings, Counted, Existing, TypeOK
<1> QED
  BY <1>4, <1>5, <1>6, <1>7, <1>8, <1>9, <1>10, <1>11, <1>12 DEF Next, PoolStep

\* If inspections answer, the containers that are no strays exceed max_workers
\* by at most one per concurrent caller, at any time and whatever else fails.
THEOREM LimitCorrect == ASSUME "inspect" \notin Faults PROVE Spec => []LiveContainersBounded
<1>1. Init => LiveContainersBounded
  <2> SUFFICES ASSUME Init PROVE LiveContainersBounded
    OBVIOUS
  <2>1. Existing = {} /\ Cardinality(Requests) \in Nat
    BY FiniteAssumption, FS_CardinalityType DEF Init, Existing
  <2>2. Existing \ strays = {}
    BY <2>1
  <2> QED
    BY <2>1, <2>2, FS_EmptySet, SettingsAssumption DEF Init, LiveContainersBounded
<1>2. TrackInv /\ TypeOK' /\ LiveContainersBounded /\ [Next]_vars => LiveContainersBounded'
  BY StepBounded
<1> QED
  BY <1>1, <1>2, TrackInvariant, TypeCorrect, PTL DEF Spec
-----------------------------------------------------------------------------
(* Jobs.  A worker with a job is registered until AbortWorker takes it; for *)
(* a restart to see it so, it must bear the name of its runner.  A rename   *)
(* that fails does not matter for a shim whose context is done: the answer  *)
(* reaches nobody, and the container gets no job.                           *)

\* The failures under which a worker that gets a job bears its runner's name.
NamesKept ==
  "restart" \in Faults =>
    "rename" \notin Faults /\ ("cancel" \notin Faults \/ Runners \subseteq Standalone)

Named ==
  "restart" \in Faults =>
    /\ \A c \in launched : cname[c] # NoRunner
    /\ "cancel" \notin Faults => gone = {}
    /\ \A q \in Requests \ gone : pc[q] \in {"vetted", "evaluate", "deliver"} =>
         docker[cand[q]] = "absent" \/ cname[cand[q]] # NoRunner

Slotted ==
  /\ \A c \in launched : docker[c] = "running"
  /\ \A c \in launched :
       \/ activeWorkers[c] # NoRunner \/ c \in strays
       \/ \E q \in Requests : cand[q] = c /\ pc[q] \in {"abortEval", "kill"}
  /\ \A c \in launched : /\ c \notin warmPool /\ boot[c] \notin {"created", "started", "failed"}
                         /\ \A q \in Requests : cand[q] = c => pc[q] \notin {"taken", "vetted", "rejected"}

JobInv == Slotted /\ Named

\* Every step keeps JobInv.
LEMMA StepJobs ==
  ASSUME NamesKept, TypeOK, TypeOK', Exclusive, Tracked, JobInv, [Next]_vars
  PROVE  JobInv'
<1> USE NamesAssumption DEF JobInv, Slotted, Named
<1>1. CASE MaintainPool
  BY <1>1 DEF TypeOK, Exclusive, Tracked, MaintainPool
<1>2. CASE BackoffOver
  BY <1>2 DEF TypeOK, Exclusive, Tracked, BackoffOver, Broadcast
<1>3. CASE WatchEvaluate
  BY <1>3 DEF TypeOK, Exclusive, Tracked, WatchEvaluate, EvaluateCapacity
<1>4. CASE BootRefused
  BY <1>4 DEF TypeOK, Exclusive, Tracked, BootRefused
<1>5. CASE StreamBreak
  BY <1>5 DEF TypeOK, Exclusive, Tracked, StreamBreak
<1>6. CASE Restart
  <2>1. /\ UNCHANGED <<cname, launched>> /\ gone' = {} /\ "restart" \in Faults
        /\ \A c \in Containers : boot'[c] = "none"
        /\ \A q \in Requests : pc'[q] = "idle" /\ cand'[q] = NoContainer
    BY <1>6 DEF Restart
  <2>2. Named'
    BY <2>1
  <2>3. \A c \in launched : docker[c] = "running" /\ cname[c] # NoRunner /\ c \in Containers
    BY <2>1 DEF TypeOK
  <2>4. CASE Recover
    <3>1. \A c \in launched : docker'[c] = "running" /\ activeWorkers'[c] = cname[c] /\ c \notin warmPool'
      BY <2>3, <2>4 DEF Recover, RecoverState
    <3>2. Slotted'
      BY <2>1, <2>3, <3>1
    <3> QED
      BY <2>2, <3>2
  <2>5. CASE RecoverNothing
    <3>1. \A c \in launched : docker'[c] = "running" /\ c \in strays' /\ c \notin warmPool'
      BY <2>3, <2>5 DEF RecoverNothing, Existing
    <3>2. Slotted'
      BY <2>1, <2>3, <3>1
    <3> QED
      BY <2>2, <3>2
  <2> QED
    BY <1>6, <2>4, <2>5 DEF Restart
<1>7. ASSUME NEW c \in Containers, BootCreate(c) PROVE JobInv'
  BY <1>7 DEF TypeOK, Exclusive, Tracked, BootCreate, Fresh, Held
<1>8. ASSUME NEW c \in Containers, BootStart(c) PROVE JobInv'
  BY <1>8 DEF TypeOK, Exclusive, Tracked, BootStart
<1>9. ASSUME NEW c \in Containers, EnterPool(c) PROVE JobInv'
  BY <1>9 DEF TypeOK, Exclusive, Tracked, EnterPool
<1>10. ASSUME NEW c \in Containers, BootCheck(c) PROVE JobInv'
  BY <1>10 DEF TypeOK, Exclusive, Tracked, BootCheck, SeemsDead
<1>11. ASSUME NEW c \in Containers, BootReap(c) PROVE JobInv'
  BY <1>11 DEF TypeOK, Exclusive, Tracked, BootReap, BuryActive, BuryOther, BuryWarm, BuryUnknown, DropActive, Broadcast
<1>12. ASSUME NEW c \in Containers, BootEvaluate(c) PROVE JobInv'
  BY <1>12 DEF TypeOK, Exclusive, Tracked, BootEvaluate, EvaluateCapacity
<1>13. ASSUME NEW c \in Containers, BootAnnounce(c) PROVE JobInv'
  BY <1>13 DEF TypeOK, Exclusive, Tracked, BootAnnounce, Broadcast
<1>14. ASSUME NEW c \in Containers, JobEnds(c) PROVE JobInv'
  BY <1>14 DEF TypeOK, Exclusive, Tracked, JobEnds, Vanish
<1>15. ASSUME NEW c \in Containers, WorkerDies(c) PROVE JobInv'
  BY <1>15 DEF TypeOK, Exclusive, Tracked, WorkerDies, Vanish
<1>16. ASSUME NEW c \in Containers, WatchDeath(c) PROVE JobInv'
  BY <1>16 DEF TypeOK, Exclusive, Tracked, WatchDeath, BuryActive, BuryOther, BuryWarm, BuryUnknown, DropActive, Broadcast
<1>17. ASSUME NEW q \in Requests, Wake(q) PROVE JobInv'
  <2>1. UNCHANGED <<docker, cname, launched, strays, boot, activeWorkers, gone>> /\ pc[q] = "wait"
    BY <1>17 DEF TypeOK, Wake, TakeOrWait, Waiting
  <2>2. \A p \in Requests : pc'[p] \notin {"wait", "taken"} => pc'[p] = pc[p] /\ cand'[p] = cand[p]
    BY <1>17 DEF TypeOK, Wake, TakeOrWait
  <2>3. \A p \in Requests : pc[p] \in {"abortEval", "kill"} => pc'[p] = pc[p] /\ cand'[p] = cand[p]
    BY <1>17, <2>1 DEF TypeOK, Wake, TakeOrWait
  <2>4. warmPool' \subseteq warmPool /\ \A p \in Requests : pc'[p] = "taken" =>
          (pc[p] = "taken" /\ cand'[p] = cand[p]) \/ cand'[p] \in warmPool
    BY <1>17 DEF TypeOK, Wake, TakeOrWait
  <2>5. Slotted'
    BY <2>1, <2>2, <2>3, <2>4 DEF TypeOK
  <2> QED
    BY <2>1, <2>2, <2>3, <2>5 DEF TypeOK
<1>18. ASSUME NEW q \in Requests, Vet(q) PROVE JobInv'
  <2>1. UNCHANGED <<docker, launched, activeWorkers, cand, gone>> /\ pc[q] = "taken"
    BY <1>18 DEF Vet
  <2>2. \A p \in Requests \ {q} : pc'[p] = pc[p] /\ (cand[p] = cand[q] => cand[p] = NoContainer)
    BY <1>18 DEF TypeOK, Exclusive, Vet
  <2>3. \A c \in Containers : c # cand[q] \/ cname'[c] = cname[c] \/ cname'[c] # NoRunner
    BY <1>18 DEF TypeOK, Vet
  <2>4. Slotted'
    BY <2>1, <2>2, <1>18 DEF TypeOK, Vet
  <2>5. CASE "restart" \in Faults
    <3>1. q \in gone \/ pc'[q] = "rejected" \/ docker[cand[q]] = "absent" \/ cname'[cand[q]] # NoRunner
      BY <1>18, <2>5 DEF NamesKept, TypeOK, Vet
    <3>2. \A c \in Containers : cname[c] # NoRunner => cname'[c] # NoRunner
      BY <1>18 DEF TypeOK, Vet
    <3> QED
      BY <2>1, <2>2, <2>4, <3>1, <3>2, <2>5 DEF TypeOK
  <2> QED
    BY <2>4, <2>5
<1>19. ASSUME NEW q \in Requests, Discard(q) PROVE JobInv'
  BY <1>19 DEF TypeOK, Exclusive, Tracked, Discard, TakeOrWait, Remove, Vanish
<1>20. ASSUME NEW q \in Requests, Register(q) PROVE JobInv'
  BY <1>20 DEF TypeOK, Exclusive, Tracked, Register, Broadcast
<1>21. ASSUME NEW q \in Requests, Evaluate(q) PROVE JobInv'
  BY <1>21 DEF TypeOK, Exclusive, Tracked, Evaluate, EvaluateCapacity
<1>22. ASSUME NEW q \in Requests, DeliverToNobody(q) PROVE JobInv'
  BY <1>22 DEF TypeOK, Exclusive, Tracked, DeliverToNobody, Leave
<1>23. ASSUME NEW q \in Requests, Deliver(q) PROVE JobInv'
  <2>1. "restart" \in Faults => q \notin gone
    BY <1>23 DEF NamesKept, TypeOK, Deliver
  <2> QED
    BY <1>23, <2>1 DEF TypeOK, Exclusive, Tracked, Deliver, Leave
<1>24. ASSUME NEW q \in Requests, Abort(q) PROVE JobInv'
  BY <1>24 DEF TypeOK, Exclusive, Tracked, Abort, DropActive, Active
<1>25. ASSUME NEW q \in Requests, AbortEvaluate(q) PROVE JobInv'
  BY <1>25 DEF TypeOK, Exclusive, Tracked, AbortEvaluate, EvaluateCapacity
<1>26. ASSUME NEW q \in Requests, KillWorker(q) PROVE JobInv'
  BY <1>26 DEF TypeOK, Exclusive, Tracked, KillWorker, Remove, Vanish, Leave
<1>27. ASSUME NEW q \in Requests, Cancel(q) PROVE JobInv'
  BY <1>27 DEF TypeOK, Cancel
<1>28. ASSUME NEW q \in Requests, CancelWait(q) PROVE JobInv'
  BY <1>28 DEF TypeOK, Exclusive, Tracked, CancelWait, Leave
<1>29. ASSUME NEW q \in Requests, NEW r \in Runners, Request(q, r) PROVE JobInv'
  <2>1. UNCHANGED <<docker, cname, launched, strays, boot, activeWorkers, gone>> /\ pc[q] = "idle"
    BY <1>29 DEF Request, TakeOrWait
  <2>2. \A p \in Requests : pc'[p] \notin {"wait", "taken"} => pc'[p] = pc[p] /\ cand'[p] = cand[p]
    BY <1>29 DEF TypeOK, Request, TakeOrWait
  <2>3. \A p \in Requests : pc[p] \in {"abortEval", "kill"} => pc'[p] = pc[p] /\ cand'[p] = cand[p]
    BY <1>29, <2>1 DEF TypeOK, Request, TakeOrWait
  <2>4. warmPool' \subseteq warmPool /\ \A p \in Requests : pc'[p] = "taken" =>
          (pc[p] = "taken" /\ cand'[p] = cand[p]) \/ cand'[p] \in warmPool
    BY <1>29 DEF TypeOK, Request, TakeOrWait
  <2>5. Slotted'
    BY <2>1, <2>2, <2>3, <2>4 DEF TypeOK
  <2> QED
    BY <2>1, <2>2, <2>3, <2>5 DEF TypeOK
<1>30. ASSUME NEW s \in Settings, UpdateSettings(s) PROVE JobInv'
  BY <1>30 DEF TypeOK, Exclusive, Tracked, UpdateSettings, Broadcast
<1>31. CASE UNCHANGED vars
  BY <1>31 DEF TypeOK, Exclusive, Tracked, vars
<1>32. ASSUME NEW c \in Containers, BootLose(c) PROVE JobInv'
  BY <1>32 DEF TypeOK, Exclusive, Tracked, BootLose, Fresh, Held, Active
<1>33. ASSUME NEW c \in Containers, BootAbandon(c) PROVE JobInv'
  BY <1>33 DEF TypeOK, Exclusive, Tracked, BootAbandon, Remove, Vanish
<1>34. ASSUME NEW c \in Containers, BootFail(c) PROVE JobInv'
  BY <1>34 DEF TypeOK, Exclusive, Tracked, BootFail
<1> QED
  BY <1>1, <1>2, <1>3, <1>4, <1>5, <1>6, <1>7, <1>8, <1>9, <1>10, <1>11, <1>12, <1>13, <1>14, <1>15, <1>16, <1>17, <1>18, <1>19, <1>20, <1>21, <1>22, <1>23, <1>24, <1>25, <1>26, <1>27, <1>28, <1>29, <1>30, <1>31, <1>32, <1>33, <1>34 DEF Next, PoolStep, BootStep, CallerStep

\* No job has been sent yet.
LEMMA InitJobs == Init => JobInv
  BY DEF Init, JobInv, Slotted, Named

\* JobInv is an invariant of the pool, if inspections answer and names are kept.
LEMMA JobInvariant == ASSUME "inspect" \notin Faults, NamesKept PROVE Spec => [](CountInv /\ JobInv)
<1>1. TrackInv /\ TypeOK' /\ JobInv /\ [Next]_vars => JobInv'
  BY StepJobs DEF TrackInv, CountInv
<1>2. TrackInv => CountInv
  BY DEF TrackInv
<1> QED
  BY <1>1, <1>2, InitJobs, TrackInvariant, TypeCorrect, PTL DEF Spec

\* A job that runs keeps its slot, unless its kill or the list of a recovery
\* failed, which makes it a stray, or a restart meets a container whose rename
\* failed although its runner waited for it (NamesKept rules that out).
THEOREM JobsHoldSlotsCorrect ==
  ASSUME "inspect" \notin Faults, NamesKept PROVE Spec => []JobsHoldSlots
<1>1. CountInv /\ JobInv => JobsHoldSlots
  BY DEF CountInv, TypeOK, JobInv, Slotted, JobsHoldSlots, Active
<1> QED
  BY <1>1, JobInvariant, PTL

\* A container that received a job is not offered again, under the same failures.
THEOREM NeverReofferedCorrect ==
  ASSUME "inspect" \notin Faults, NamesKept PROVE Spec => []NeverReoffered
<1>1. CountInv /\ JobInv => NeverReoffered
  BY DEF JobInv, Slotted, NeverReoffered, Limbo
<1> QED
  BY <1>1, JobInvariant, PTL

-----------------------------------------------------------------------------
(* Entries of scale sets.  Between the registration and the end of a call   *)
(* the entry, if it is still there, is the caller's own: only a shim that   *)
(* is gone leaves one behind.  A container that was never started is in the *)
(* hands of its boot goroutine, or in nobody's.                             *)

Agreed ==
  /\ \A q \in Requests : pc[q] \in {"evaluate", "deliver", "abort"} =>
       activeWorkers[cand[q]] \in {NoRunner, caller[q]}
  /\ \A q \in Requests : pc[q] \in {"abortEval", "kill"} => activeWorkers[cand[q]] = NoRunner
  /\ \A c \in Containers : docker[c] = "created" =>
       /\ boot[c] \in {"none", "created", "failed"}
       /\ activeWorkers[c] = NoRunner /\ c \notin warmPool
       /\ \A q \in Requests : cand[q] # c

\* Every step keeps Agreed.
LEMMA StepAgreed == TypeOK /\ TypeOK' /\ Exclusive /\ Agreed /\ [Next]_vars => Agreed'
<1> SUFFICES ASSUME TypeOK, TypeOK', Exclusive, Agreed, [Next]_vars PROVE Agreed'
  OBVIOUS
<1> USE NamesAssumption DEF Agreed
<1>1. CASE MaintainPool
  BY <1>1 DEF TypeOK, Exclusive, MaintainPool
<1>2. CASE BackoffOver
  BY <1>2 DEF TypeOK, Exclusive, BackoffOver, Broadcast
<1>3. CASE WatchEvaluate
  BY <1>3 DEF TypeOK, Exclusive, WatchEvaluate, EvaluateCapacity
<1>4. CASE BootRefused
  BY <1>4 DEF TypeOK, Exclusive, BootRefused
<1>5. CASE StreamBreak
  BY <1>5 DEF TypeOK, Exclusive, StreamBreak
<1>6. CASE Restart
  BY <1>6 DEF TypeOK, Exclusive, Restart, Recover, RecoverNothing, RecoverState
<1>7. ASSUME NEW c \in Containers, BootCreate(c) PROVE Agreed'
  BY <1>7 DEF TypeOK, Exclusive, BootCreate, Fresh, Held, Active
<1>8. ASSUME NEW c \in Containers, BootStart(c) PROVE Agreed'
  BY <1>8 DEF TypeOK, Exclusive, BootStart
<1>9. ASSUME NEW c \in Containers, EnterPool(c) PROVE Agreed'
  BY <1>9 DEF TypeOK, Exclusive, EnterPool
<1>10. ASSUME NEW c \in Containers, BootCheck(c) PROVE Agreed'
  BY <1>10 DEF TypeOK, Exclusive, BootCheck, SeemsDead
<1>11. ASSUME NEW c \in Containers, BootReap(c) PROVE Agreed'
  BY <1>11 DEF TypeOK, Exclusive, BootReap, BuryActive, BuryOther, BuryWarm, BuryUnknown, DropActive, Broadcast
<1>12. ASSUME NEW c \in Containers, BootEvaluate(c) PROVE Agreed'
  BY <1>12 DEF TypeOK, Exclusive, BootEvaluate, EvaluateCapacity
<1>13. ASSUME NEW c \in Containers, BootAnnounce(c) PROVE Agreed'
  BY <1>13 DEF TypeOK, Exclusive, BootAnnounce, Broadcast
<1>14. ASSUME NEW c \in Containers, JobEnds(c) PROVE Agreed'
  BY <1>14 DEF TypeOK, Exclusive, JobEnds, Vanish
<1>15. ASSUME NEW c \in Containers, WorkerDies(c) PROVE Agreed'
  BY <1>15 DEF TypeOK, Exclusive, WorkerDies, Vanish
<1>16. ASSUME NEW c \in Containers, WatchDeath(c) PROVE Agreed'
  BY <1>16 DEF TypeOK, Exclusive, WatchDeath, BuryActive, BuryOther, BuryWarm, BuryUnknown, DropActive, Broadcast
<1>17. ASSUME NEW q \in Requests, Wake(q) PROVE Agreed'
  <2>1. UNCHANGED <<docker, launched, dieEvents, boot, activeWorkers>> /\ pc[q] = "wait"
    BY <1>17 DEF TypeOK, Wake, TakeOrWait, Waiting
  <2>2. \A p \in Requests : pc[p] \notin {"idle", "wait"} => pc'[p] = pc[p] /\ cand'[p] = cand[p] /\ caller'[p] = caller[p]
    BY <1>17, <2>1 DEF TypeOK, Wake, TakeOrWait
  <2>3. \A p \in Requests : pc'[p] \notin {"idle", "wait", "taken"} => pc[p] \notin {"idle", "wait"}
    BY <1>17 DEF TypeOK, Wake, TakeOrWait
  <2>4. warmPool' \subseteq warmPool
    BY <1>17 DEF Wake, TakeOrWait
  <2>5. \A p \in Requests : cand'[p] \in {cand[p], NoContainer} \cup warmPool
    BY <1>17 DEF TypeOK, Wake, TakeOrWait
  <2> QED
    BY <2>1, <2>2, <2>3, <2>4, <2>5 DEF TypeOK
<1>18. ASSUME NEW q \in Requests, Vet(q) PROVE Agreed'
  BY <1>18 DEF TypeOK, Exclusive, Vet, SeemsDead
<1>19. ASSUME NEW q \in Requests, Discard(q) PROVE Agreed'
  BY <1>19 DEF TypeOK, Exclusive, Discard, TakeOrWait, Remove, Vanish
<1>20. ASSUME NEW q \in Requests, Register(q) PROVE Agreed'
  BY <1>20 DEF TypeOK, Exclusive, Register, Broadcast
<1>21. ASSUME NEW q \in Requests, Evaluate(q) PROVE Agreed'
  BY <1>21 DEF TypeOK, Exclusive, Evaluate, EvaluateCapacity
<1>22. ASSUME NEW q \in Requests, DeliverToNobody(q) PROVE Agreed'
  BY <1>22 DEF TypeOK, Exclusive, DeliverToNobody, Leave
<1>23. ASSUME NEW q \in Requests, Deliver(q) PROVE Agreed'
  BY <1>23 DEF TypeOK, Exclusive, Deliver, Leave
<1>24. ASSUME NEW q \in Requests, Abort(q) PROVE Agreed'
  BY <1>24 DEF TypeOK, Exclusive, Abort, DropActive, Active
<1>25. ASSUME NEW q \in Requests, AbortEvaluate(q) PROVE Agreed'
  BY <1>25 DEF TypeOK, Exclusive, AbortEvaluate, EvaluateCapacity
<1>26. ASSUME NEW q \in Requests, KillWorker(q) PROVE Agreed'
  BY <1>26 DEF TypeOK, Exclusive, KillWorker, Remove, Vanish, Leave
<1>27. ASSUME NEW q \in Requests, Cancel(q) PROVE Agreed'
  BY <1>27 DEF TypeOK, Exclusive, Cancel
<1>28. ASSUME NEW q \in Requests, CancelWait(q) PROVE Agreed'
  BY <1>28 DEF TypeOK, Exclusive, CancelWait, Leave
<1>29. ASSUME NEW q \in Requests, NEW r \in Runners, Request(q, r) PROVE Agreed'
  <2>1. UNCHANGED <<docker, launched, dieEvents, boot, activeWorkers>> /\ pc[q] = "idle"
    BY <1>29 DEF TypeOK, Request, TakeOrWait
  <2>2. \A p \in Requests : pc[p] \notin {"idle", "wait"} => pc'[p] = pc[p] /\ cand'[p] = cand[p] /\ caller'[p] = caller[p]
    BY <1>29, <2>1 DEF TypeOK, Request, TakeOrWait
  <2>3. \A p \in Requests : pc'[p] \notin {"idle", "wait", "taken"} => pc[p] \notin {"idle", "wait"}
    BY <1>29 DEF TypeOK, Request, TakeOrWait
  <2>4. warmPool' \subseteq warmPool
    BY <1>29 DEF Request, TakeOrWait
  <2>5. \A p \in Requests : cand'[p] \in {cand[p], NoContainer} \cup warmPool
    BY <1>29 DEF TypeOK, Request, TakeOrWait
  <2> QED
    BY <2>1, <2>2, <2>3, <2>4, <2>5 DEF TypeOK
<1>30. ASSUME NEW s \in Settings, UpdateSettings(s) PROVE Agreed'
  BY <1>30 DEF TypeOK, Exclusive, UpdateSettings, Broadcast
<1>31. CASE UNCHANGED vars
  BY <1>31 DEF TypeOK, Exclusive, vars
<1>32. ASSUME NEW c \in Containers, BootLose(c) PROVE Agreed'
  BY <1>32 DEF TypeOK, Exclusive, BootLose, Fresh, Held, Active
<1>33. ASSUME NEW c \in Containers, BootAbandon(c) PROVE Agreed'
  BY <1>33 DEF TypeOK, Exclusive, BootAbandon, Remove, Vanish
<1>34. ASSUME NEW c \in Containers, BootFail(c) PROVE Agreed'
  BY <1>34 DEF TypeOK, Exclusive, BootFail
<1> QED
  BY <1>1, <1>2, <1>3, <1>4, <1>5, <1>6, <1>7, <1>8, <1>9, <1>10, <1>11, <1>12, <1>13, <1>14, <1>15, <1>16, <1>17, <1>18, <1>19, <1>20, <1>21, <1>22, <1>23, <1>24, <1>25, <1>26, <1>27, <1>28, <1>29, <1>30, <1>31, <1>32, <1>33, <1>34 DEF Next, PoolStep, BootStep, CallerStep

\* A worker without a job stays in a scaler's hands, unless the process stops.
LEMMA StepOwned ==
  ASSUME "restart" \notin Faults, TypeOK, TypeOK', Exclusive, Agreed, ActiveAreOwned, [Next]_vars
  PROVE  ActiveAreOwned'
<1> USE NamesAssumption DEF ActiveAreOwned, Active, Held
<1>1. CASE MaintainPool
  BY <1>1 DEF TypeOK, Exclusive, Agreed, MaintainPool
<1>2. CASE BackoffOver
  BY <1>2 DEF TypeOK, Exclusive, Agreed, BackoffOver, Broadcast
<1>3. CASE WatchEvaluate
  BY <1>3 DEF TypeOK, Exclusive, Agreed, WatchEvaluate, EvaluateCapacity
<1>4. CASE BootRefused
  BY <1>4 DEF TypeOK, Exclusive, Agreed, BootRefused
<1>5. CASE StreamBreak
  BY <1>5 DEF TypeOK, Exclusive, Agreed, StreamBreak
<1>6. CASE Restart
  BY <1>6 DEF TypeOK, Exclusive, Agreed, Restart, Recover, RecoverNothing, RecoverState
<1>7. ASSUME NEW c \in Containers, BootCreate(c) PROVE ActiveAreOwned'
  BY <1>7 DEF TypeOK, Exclusive, Agreed, BootCreate, Fresh, Held
<1>8. ASSUME NEW c \in Containers, BootStart(c) PROVE ActiveAreOwned'
  BY <1>8 DEF TypeOK, Exclusive, Agreed, BootStart
<1>9. ASSUME NEW c \in Containers, EnterPool(c) PROVE ActiveAreOwned'
  BY <1>9 DEF TypeOK, Exclusive, Agreed, EnterPool
<1>10. ASSUME NEW c \in Containers, BootCheck(c) PROVE ActiveAreOwned'
  BY <1>10 DEF TypeOK, Exclusive, Agreed, BootCheck, SeemsDead
<1>11. ASSUME NEW c \in Containers, BootReap(c) PROVE ActiveAreOwned'
  BY <1>11 DEF TypeOK, Exclusive, Agreed, BootReap, BuryActive, BuryOther, BuryWarm, BuryUnknown, DropActive, Broadcast
<1>12. ASSUME NEW c \in Containers, BootEvaluate(c) PROVE ActiveAreOwned'
  BY <1>12 DEF TypeOK, Exclusive, Agreed, BootEvaluate, EvaluateCapacity
<1>13. ASSUME NEW c \in Containers, BootAnnounce(c) PROVE ActiveAreOwned'
  BY <1>13 DEF TypeOK, Exclusive, Agreed, BootAnnounce, Broadcast
<1>14. ASSUME NEW c \in Containers, JobEnds(c) PROVE ActiveAreOwned'
  BY <1>14 DEF TypeOK, Exclusive, Agreed, JobEnds, Vanish
<1>15. ASSUME NEW c \in Containers, WorkerDies(c) PROVE ActiveAreOwned'
  BY <1>15 DEF TypeOK, Exclusive, Agreed, WorkerDies, Vanish
<1>16. ASSUME NEW c \in Containers, WatchDeath(c) PROVE ActiveAreOwned'
  BY <1>16 DEF TypeOK, Exclusive, Agreed, WatchDeath, BuryActive, BuryOther, BuryWarm, BuryUnknown, DropActive, Broadcast
<1>17. ASSUME NEW q \in Requests, Wake(q) PROVE ActiveAreOwned'
  <2>1. UNCHANGED <<docker, launched, dieEvents, boot, activeWorkers>> /\ pc[q] = "wait"
    BY <1>17 DEF TypeOK, Wake, TakeOrWait, Waiting
  <2>2. \A p \in Requests : pc[p] \notin {"idle", "wait"} => pc'[p] = pc[p] /\ cand'[p] = cand[p] /\ caller'[p] = caller[p]
    BY <1>17, <2>1 DEF TypeOK, Wake, TakeOrWait
  <2>3. \A p \in Requests : pc'[p] \notin {"idle", "wait", "taken"} => pc[p] \notin {"idle", "wait"}
    BY <1>17 DEF TypeOK, Wake, TakeOrWait
  <2>4. warmPool' \subseteq warmPool
    BY <1>17 DEF Wake, TakeOrWait
  <2> QED
    BY <2>1, <2>2, <2>3, <2>4 DEF TypeOK
<1>18. ASSUME NEW q \in Requests, Vet(q) PROVE ActiveAreOwned'
  BY <1>18 DEF TypeOK, Exclusive, Agreed, Vet, SeemsDead
<1>19. ASSUME NEW q \in Requests, Discard(q) PROVE ActiveAreOwned'
  BY <1>19 DEF TypeOK, Exclusive, Agreed, Discard, TakeOrWait, Remove, Vanish
<1>20. ASSUME NEW q \in Requests, Register(q) PROVE ActiveAreOwned'
  BY <1>20 DEF TypeOK, Exclusive, Agreed, Register, Broadcast
<1>21. ASSUME NEW q \in Requests, Evaluate(q) PROVE ActiveAreOwned'
  BY <1>21 DEF TypeOK, Exclusive, Agreed, Evaluate, EvaluateCapacity
<1>22. ASSUME NEW q \in Requests, DeliverToNobody(q) PROVE ActiveAreOwned'
  BY <1>22 DEF TypeOK, Exclusive, Agreed, DeliverToNobody, Leave
<1>23. ASSUME NEW q \in Requests, Deliver(q) PROVE ActiveAreOwned'
  BY <1>23 DEF TypeOK, Exclusive, Agreed, Deliver, Leave
<1>24. ASSUME NEW q \in Requests, Abort(q) PROVE ActiveAreOwned'
  BY <1>24 DEF TypeOK, Exclusive, Agreed, Abort, DropActive, Active
<1>25. ASSUME NEW q \in Requests, AbortEvaluate(q) PROVE ActiveAreOwned'
  BY <1>25 DEF TypeOK, Exclusive, Agreed, AbortEvaluate, EvaluateCapacity
<1>26. ASSUME NEW q \in Requests, KillWorker(q) PROVE ActiveAreOwned'
  <2> SUFFICES ASSUME NEW c \in Containers, activeWorkers'[c] # NoRunner, docker'[c] = "running",
                      c \notin launched', activeWorkers'[c] \notin Standalone
               PROVE  \E p \in Requests : cand'[p] = c
    OBVIOUS
  <2>1. activeWorkers[c] # NoRunner /\ docker[c] = "running" /\ c \notin launched
    BY <1>26 DEF TypeOK, KillWorker, Remove, Vanish
  <2> QED
    BY <1>26, <2>1 DEF TypeOK, Exclusive, Agreed, KillWorker, Leave
<1>27. ASSUME NEW q \in Requests, Cancel(q) PROVE ActiveAreOwned'
  BY <1>27 DEF TypeOK, Exclusive, Agreed, Cancel
<1>28. ASSUME NEW q \in Requests, CancelWait(q) PROVE ActiveAreOwned'
  BY <1>28 DEF TypeOK, Exclusive, Agreed, CancelWait, Leave
<1>29. ASSUME NEW q \in Requests, NEW r \in Runners, Request(q, r) PROVE ActiveAreOwned'
  <2>1. UNCHANGED <<docker, launched, dieEvents, boot, activeWorkers>> /\ pc[q] = "idle"
    BY <1>29 DEF TypeOK, Request, TakeOrWait
  <2>2. \A p \in Requests : pc[p] \notin {"idle", "wait"} => pc'[p] = pc[p] /\ cand'[p] = cand[p] /\ caller'[p] = caller[p]
    BY <1>29, <2>1 DEF TypeOK, Request, TakeOrWait
  <2>3. \A p \in Requests : pc'[p] \notin {"idle", "wait", "taken"} => pc[p] \notin {"idle", "wait"}
    BY <1>29 DEF TypeOK, Request, TakeOrWait
  <2>4. warmPool' \subseteq warmPool
    BY <1>29 DEF Request, TakeOrWait
  <2> QED
    BY <2>1, <2>2, <2>3, <2>4 DEF TypeOK
<1>30. ASSUME NEW s \in Settings, UpdateSettings(s) PROVE ActiveAreOwned'
  BY <1>30 DEF TypeOK, Exclusive, Agreed, UpdateSettings, Broadcast
<1>31. CASE UNCHANGED vars
  BY <1>31 DEF TypeOK, Exclusive, Agreed, vars
<1>32. ASSUME NEW c \in Containers, BootLose(c) PROVE ActiveAreOwned'
  BY <1>32 DEF TypeOK, Exclusive, Agreed, BootLose, Fresh, Held, Active
<1>33. ASSUME NEW c \in Containers, BootAbandon(c) PROVE ActiveAreOwned'
  BY <1>33 DEF TypeOK, Exclusive, Agreed, BootAbandon, Remove, Vanish
<1>34. ASSUME NEW c \in Containers, BootFail(c) PROVE ActiveAreOwned'
  BY <1>34 DEF TypeOK, Exclusive, Agreed, BootFail
<1> QED
  BY <1>1, <1>2, <1>3, <1>4, <1>5, <1>6, <1>7, <1>8, <1>9, <1>10, <1>11, <1>12, <1>13, <1>14, <1>15, <1>16, <1>17, <1>18, <1>19, <1>20, <1>21, <1>22, <1>23, <1>24, <1>25, <1>26, <1>27, <1>28, <1>29, <1>30, <1>31, <1>32, <1>33, <1>34 DEF Next, PoolStep, BootStep, CallerStep

\* What died is still to be seen by the watcher, a boot goroutine or a caller,
\* unless events are lost.
LEMMA StepReaped ==
  ASSUME "stream" \notin Faults, TypeOK, TypeOK', Exclusive, Agreed, DeadAreReaped, [Next]_vars
  PROVE  DeadAreReaped'
<1> USE NamesAssumption DEF DeadAreReaped, Active
<1>1. CASE MaintainPool
  BY <1>1 DEF TypeOK, Exclusive, Agreed, MaintainPool
<1>2. CASE BackoffOver
  BY <1>2 DEF TypeOK, Exclusive, Agreed, BackoffOver, Broadcast
<1>3. CASE WatchEvaluate
  BY <1>3 DEF TypeOK, Exclusive, Agreed, WatchEvaluate, EvaluateCapacity
<1>4. CASE BootRefused
  BY <1>4 DEF TypeOK, Exclusive, Agreed, BootRefused
<1>5. CASE StreamBreak
  BY <1>5 DEF TypeOK, Exclusive, Agreed, StreamBreak
<1>6. CASE Restart
  BY <1>6 DEF TypeOK, Exclusive, Agreed, Restart, Recover, RecoverNothing, RecoverState
<1>7. ASSUME NEW c \in Containers, BootCreate(c) PROVE DeadAreReaped'
  BY <1>7 DEF TypeOK, Exclusive, Agreed, BootCreate, Fresh, Held
<1>8. ASSUME NEW c \in Containers, BootStart(c) PROVE DeadAreReaped'
  BY <1>8 DEF TypeOK, Exclusive, Agreed, BootStart
<1>9. ASSUME NEW c \in Containers, EnterPool(c) PROVE DeadAreReaped'
  BY <1>9 DEF TypeOK, Exclusive, Agreed, EnterPool
<1>10. ASSUME NEW c \in Containers, BootCheck(c) PROVE DeadAreReaped'
  BY <1>10 DEF TypeOK, Exclusive, Agreed, BootCheck, SeemsDead
<1>11. ASSUME NEW c \in Containers, BootReap(c) PROVE DeadAreReaped'
  BY <1>11 DEF TypeOK, Exclusive, Agreed, BootReap, BuryActive, BuryOther, BuryWarm, BuryUnknown, DropActive, Broadcast
<1>12. ASSUME NEW c \in Containers, BootEvaluate(c) PROVE DeadAreReaped'
  BY <1>12 DEF TypeOK, Exclusive, Agreed, BootEvaluate, EvaluateCapacity
<1>13. ASSUME NEW c \in Containers, BootAnnounce(c) PROVE DeadAreReaped'
  BY <1>13 DEF TypeOK, Exclusive, Agreed, BootAnnounce, Broadcast
<1>14. ASSUME NEW c \in Containers, JobEnds(c) PROVE DeadAreReaped'
  BY <1>14 DEF TypeOK, Exclusive, Agreed, JobEnds, Vanish
<1>15. ASSUME NEW c \in Containers, WorkerDies(c) PROVE DeadAreReaped'
  BY <1>15 DEF TypeOK, Exclusive, Agreed, WorkerDies, Vanish
<1>16. ASSUME NEW c \in Containers, WatchDeath(c) PROVE DeadAreReaped'
  BY <1>16 DEF TypeOK, Exclusive, Agreed, WatchDeath, BuryActive, BuryOther, BuryWarm, BuryUnknown, DropActive, Broadcast
<1>17. ASSUME NEW q \in Requests, Wake(q) PROVE DeadAreReaped'
  <2>1. UNCHANGED <<docker, launched, dieEvents, boot, activeWorkers>> /\ pc[q] = "wait"
    BY <1>17 DEF TypeOK, Wake, TakeOrWait, Waiting
  <2>2. \A p \in Requests : pc[p] \notin {"idle", "wait"} => pc'[p] = pc[p] /\ cand'[p] = cand[p] /\ caller'[p] = caller[p]
    BY <1>17, <2>1 DEF TypeOK, Wake, TakeOrWait
  <2>3. \A p \in Requests : pc'[p] \notin {"idle", "wait", "taken"} => pc[p] \notin {"idle", "wait"}
    BY <1>17 DEF TypeOK, Wake, TakeOrWait
  <2>4. warmPool' \subseteq warmPool
    BY <1>17 DEF Wake, TakeOrWait
  <2> QED
    BY <2>1, <2>2, <2>3, <2>4 DEF TypeOK
<1>18. ASSUME NEW q \in Requests, Vet(q) PROVE DeadAreReaped'
  BY <1>18 DEF TypeOK, Exclusive, Agreed, Vet, SeemsDead
<1>19. ASSUME NEW q \in Requests, Discard(q) PROVE DeadAreReaped'
  BY <1>19 DEF TypeOK, Exclusive, Agreed, Discard, TakeOrWait, Remove, Vanish
<1>20. ASSUME NEW q \in Requests, Register(q) PROVE DeadAreReaped'
  BY <1>20 DEF TypeOK, Exclusive, Agreed, Register, Broadcast
<1>21. ASSUME NEW q \in Requests, Evaluate(q) PROVE DeadAreReaped'
  BY <1>21 DEF TypeOK, Exclusive, Agreed, Evaluate, EvaluateCapacity
<1>22. ASSUME NEW q \in Requests, DeliverToNobody(q) PROVE DeadAreReaped'
  BY <1>22 DEF TypeOK, Exclusive, Agreed, DeliverToNobody, Leave
<1>23. ASSUME NEW q \in Requests, Deliver(q) PROVE DeadAreReaped'
  BY <1>23 DEF TypeOK, Exclusive, Agreed, Deliver, Leave
<1>24. ASSUME NEW q \in Requests, Abort(q) PROVE DeadAreReaped'
  BY <1>24 DEF TypeOK, Exclusive, Agreed, Abort, DropActive, Active
<1>25. ASSUME NEW q \in Requests, AbortEvaluate(q) PROVE DeadAreReaped'
  BY <1>25 DEF TypeOK, Exclusive, Agreed, AbortEvaluate, EvaluateCapacity
<1>26. ASSUME NEW q \in Requests, KillWorker(q) PROVE DeadAreReaped'
  BY <1>26 DEF TypeOK, Exclusive, Agreed, KillWorker, Remove, Vanish, Leave
<1>27. ASSUME NEW q \in Requests, Cancel(q) PROVE DeadAreReaped'
  BY <1>27 DEF TypeOK, Exclusive, Agreed, Cancel
<1>28. ASSUME NEW q \in Requests, CancelWait(q) PROVE DeadAreReaped'
  BY <1>28 DEF TypeOK, Exclusive, Agreed, CancelWait, Leave
<1>29. ASSUME NEW q \in Requests, NEW r \in Runners, Request(q, r) PROVE DeadAreReaped'
  <2>1. UNCHANGED <<docker, launched, dieEvents, boot, activeWorkers>> /\ pc[q] = "idle"
    BY <1>29 DEF TypeOK, Request, TakeOrWait
  <2>2. \A p \in Requests : pc[p] \notin {"idle", "wait"} => pc'[p] = pc[p] /\ cand'[p] = cand[p] /\ caller'[p] = caller[p]
    BY <1>29, <2>1 DEF TypeOK, Request, TakeOrWait
  <2>3. \A p \in Requests : pc'[p] \notin {"idle", "wait", "taken"} => pc[p] \notin {"idle", "wait"}
    BY <1>29 DEF TypeOK, Request, TakeOrWait
  <2>4. warmPool' \subseteq warmPool
    BY <1>29 DEF Request, TakeOrWait
  <2> QED
    BY <2>1, <2>2, <2>3, <2>4 DEF TypeOK
<1>30. ASSUME NEW s \in Settings, UpdateSettings(s) PROVE DeadAreReaped'
  BY <1>30 DEF TypeOK, Exclusive, Agreed, UpdateSettings, Broadcast
<1>31. CASE UNCHANGED vars
  BY <1>31 DEF TypeOK, Exclusive, Agreed, vars
<1>32. ASSUME NEW c \in Containers, BootLose(c) PROVE DeadAreReaped'
  BY <1>32 DEF TypeOK, Exclusive, Agreed, BootLose, Fresh, Held, Active
<1>33. ASSUME NEW c \in Containers, BootAbandon(c) PROVE DeadAreReaped'
  BY <1>33 DEF TypeOK, Exclusive, Agreed, BootAbandon, Remove, Vanish
<1>34. ASSUME NEW c \in Containers, BootFail(c) PROVE DeadAreReaped'
  BY <1>34 DEF TypeOK, Exclusive, Agreed, BootFail
<1> QED
  BY <1>1, <1>2, <1>3, <1>4, <1>5, <1>6, <1>7, <1>8, <1>9, <1>10, <1>11, <1>12, <1>13, <1>14, <1>15, <1>16, <1>17, <1>18, <1>19, <1>20, <1>21, <1>22, <1>23, <1>24, <1>25, <1>26, <1>27, <1>28, <1>29, <1>30, <1>31, <1>32, <1>33, <1>34 DEF Next, PoolStep, BootStep, CallerStep

\* Agreed holds in every state, whatever fails.
LEMMA AgreedInvariant == Spec => [](CountInv /\ Agreed)
<1>1. Init => Agreed
  BY DEF Init, Agreed
<1>2. CountInv /\ TypeOK' /\ Agreed /\ [Next]_vars => Agreed'
  BY StepAgreed DEF CountInv
<1> QED
  BY <1>1, <1>2, CountInvariant, TypeCorrect, PTL DEF Spec

\* A scale set's worker that is registered and runs no job is in the hands of
\* a scaler that will push the job or abort it, as long as the process runs.
THEOREM OwnedCorrect == ASSUME "restart" \notin Faults PROVE Spec => []ActiveAreOwned
<1>1. Init => ActiveAreOwned
  BY DEF Init, ActiveAreOwned, Active
<1>2. CountInv /\ Agreed /\ TypeOK' /\ ActiveAreOwned /\ [Next]_vars => ActiveAreOwned'
  BY StepOwned DEF CountInv
<1> QED
  BY <1>1, <1>2, AgreedInvariant, TypeCorrect, PTL DEF Spec

\* A dead worker does not keep its entry, whoever sees the death first and
\* however often the process restarts, if no die event is lost.
THEOREM ReapedCorrect == ASSUME "stream" \notin Faults PROVE Spec => []DeadAreReaped
<1>1. Init => DeadAreReaped
  BY DEF Init, DeadAreReaped, Active
<1>2. CountInv /\ Agreed /\ TypeOK' /\ DeadAreReaped /\ [Next]_vars => DeadAreReaped'
  BY StepReaped DEF CountInv
<1> QED
  BY <1>1, <1>2, AgreedInvariant, TypeCorrect, PTL DEF Spec

\* max_workers is one of the settings; if all have the same, it never changes.
MaxIsSet == \E s \in Settings : maxWorkers = s[1]

\* Whoever changes activeListeners evaluates the capacity in a later step.
LEMMA StepPause ==
  ASSUME "restart" \notin Faults, \A s, t \in Settings : s[1] = t[1],
         TypeOK, MaxIsSet, PauseAgreement, [Next]_vars
  PROVE  PauseAgreement' /\ MaxIsSet'
<1> USE DEF PauseAgreement, TotalAssigned, MaxIsSet
<1>1. CASE MaintainPool
  BY <1>1 DEF TypeOK, MaintainPool
<1>2. CASE BackoffOver
  BY <1>2 DEF TypeOK, BackoffOver, Broadcast
<1>3. CASE WatchEvaluate
  BY <1>3 DEF TypeOK, WatchEvaluate, EvaluateCapacity
<1>4. CASE BootRefused
  BY <1>4 DEF TypeOK, BootRefused
<1>5. CASE StreamBreak
  BY <1>5 DEF TypeOK, StreamBreak
<1>6. CASE Restart
  BY <1>6 DEF TypeOK, Restart, Recover, RecoverNothing, RecoverState
<1>7. ASSUME NEW c \in Containers, BootCreate(c) PROVE PauseAgreement' /\ MaxIsSet'
  BY <1>7 DEF TypeOK, BootCreate, Fresh, Held
<1>8. ASSUME NEW c \in Containers, BootStart(c) PROVE PauseAgreement' /\ MaxIsSet'
  BY <1>8 DEF TypeOK, BootStart
<1>9. ASSUME NEW c \in Containers, EnterPool(c) PROVE PauseAgreement' /\ MaxIsSet'
  BY <1>9 DEF TypeOK, EnterPool
<1>10. ASSUME NEW c \in Containers, BootCheck(c) PROVE PauseAgreement' /\ MaxIsSet'
  BY <1>10 DEF TypeOK, BootCheck, SeemsDead
<1>11. ASSUME NEW c \in Containers, BootReap(c) PROVE PauseAgreement' /\ MaxIsSet'
  BY <1>11 DEF TypeOK, BootReap, BuryActive, BuryOther, BuryWarm, BuryUnknown, DropActive, Broadcast
<1>12. ASSUME NEW c \in Containers, BootEvaluate(c) PROVE PauseAgreement' /\ MaxIsSet'
  BY <1>12 DEF TypeOK, BootEvaluate, EvaluateCapacity
<1>13. ASSUME NEW c \in Containers, BootAnnounce(c) PROVE PauseAgreement' /\ MaxIsSet'
  BY <1>13 DEF TypeOK, BootAnnounce, Broadcast
<1>14. ASSUME NEW c \in Containers, JobEnds(c) PROVE PauseAgreement' /\ MaxIsSet'
  BY <1>14 DEF TypeOK, JobEnds, Vanish
<1>15. ASSUME NEW c \in Containers, WorkerDies(c) PROVE PauseAgreement' /\ MaxIsSet'
  BY <1>15 DEF TypeOK, WorkerDies, Vanish
<1>16. ASSUME NEW c \in Containers, WatchDeath(c) PROVE PauseAgreement' /\ MaxIsSet'
  BY <1>16 DEF TypeOK, WatchDeath, BuryActive, BuryOther, BuryWarm, BuryUnknown, DropActive, Broadcast
<1>17. ASSUME NEW q \in Requests, Wake(q) PROVE PauseAgreement' /\ MaxIsSet'
  BY <1>17 DEF TypeOK, Wake, TakeOrWait, Waiting
<1>18. ASSUME NEW q \in Requests, Vet(q) PROVE PauseAgreement' /\ MaxIsSet'
  BY <1>18 DEF TypeOK, Vet, SeemsDead
<1>19. ASSUME NEW q \in Requests, Discard(q) PROVE PauseAgreement' /\ MaxIsSet'
  BY <1>19 DEF TypeOK, Discard, TakeOrWait, Remove, Vanish
<1>20. ASSUME NEW q \in Requests, Register(q) PROVE PauseAgreement' /\ MaxIsSet'
  BY <1>20 DEF TypeOK, Register, Broadcast
<1>21. ASSUME NEW q \in Requests, Evaluate(q) PROVE PauseAgreement' /\ MaxIsSet'
  BY <1>21 DEF TypeOK, Evaluate, EvaluateCapacity
<1>22. ASSUME NEW q \in Requests, DeliverToNobody(q) PROVE PauseAgreement' /\ MaxIsSet'
  BY <1>22 DEF TypeOK, DeliverToNobody, Leave
<1>23. ASSUME NEW q \in Requests, Deliver(q) PROVE PauseAgreement' /\ MaxIsSet'
  BY <1>23 DEF TypeOK, Deliver, Leave
<1>24. ASSUME NEW q \in Requests, Abort(q) PROVE PauseAgreement' /\ MaxIsSet'
  BY <1>24 DEF TypeOK, Abort, DropActive, Active
<1>25. ASSUME NEW q \in Requests, AbortEvaluate(q) PROVE PauseAgreement' /\ MaxIsSet'
  BY <1>25 DEF TypeOK, AbortEvaluate, EvaluateCapacity
<1>26. ASSUME NEW q \in Requests, KillWorker(q) PROVE PauseAgreement' /\ MaxIsSet'
  BY <1>26 DEF TypeOK, KillWorker, Remove, Vanish, Leave
<1>27. ASSUME NEW q \in Requests, Cancel(q) PROVE PauseAgreement' /\ MaxIsSet'
  BY <1>27 DEF TypeOK, Cancel
<1>28. ASSUME NEW q \in Requests, CancelWait(q) PROVE PauseAgreement' /\ MaxIsSet'
  BY <1>28 DEF TypeOK, CancelWait, Leave
<1>29. ASSUME NEW q \in Requests, NEW r \in Runners, Request(q, r) PROVE PauseAgreement' /\ MaxIsSet'
  BY <1>29 DEF TypeOK, Request, TakeOrWait
<1>30. ASSUME NEW s \in Settings, UpdateSettings(s) PROVE PauseAgreement' /\ MaxIsSet'
  BY <1>30 DEF TypeOK, UpdateSettings, Broadcast
<1>31. CASE UNCHANGED vars
  BY <1>31 DEF TypeOK, vars
<1>32. ASSUME NEW c \in Containers, BootLose(c) PROVE PauseAgreement' /\ MaxIsSet'
  BY <1>32 DEF TypeOK, BootLose, Fresh, Held, Active
<1>33. ASSUME NEW c \in Containers, BootAbandon(c) PROVE PauseAgreement' /\ MaxIsSet'
  BY <1>33 DEF TypeOK, BootAbandon, Remove, Vanish
<1>34. ASSUME NEW c \in Containers, BootFail(c) PROVE PauseAgreement' /\ MaxIsSet'
  BY <1>34 DEF TypeOK, BootFail
<1> QED
  BY <1>1, <1>2, <1>3, <1>4, <1>5, <1>6, <1>7, <1>8, <1>9, <1>10, <1>11, <1>12, <1>13, <1>14, <1>15, <1>16, <1>17, <1>18, <1>19, <1>20, <1>21, <1>22, <1>23, <1>24, <1>25, <1>26, <1>27, <1>28, <1>29, <1>30, <1>31, <1>32, <1>33, <1>34 DEF Next, PoolStep, BootStep, CallerStep


\* Nothing is assigned at first.  A sum is a recursion over the subsets of the
\* runners: no smallest one has a sum other than 0.
LEMMA NothingAssigned == Init => TotalAssigned = 0
<1> SUFFICES ASSUME Init PROVE TotalAssigned = 0
  OBVIOUS
<1> DEFINE Some(s) == CHOOSE r \in s : TRUE
           Sums(f) == [s \in SUBSET Runners |->
                         IF s = {} THEN 0 ELSE activeListeners[Some(s)] + f[s \ {Some(s)}]]
           sum == CHOOSE f : f = Sums(f)
<1>1. activeListeners = [r \in Runners |-> 0] /\ DOMAIN activeListeners = Runners
  BY DEF Init
<1>2. TotalAssigned = sum[Runners]
  BY <1>1 DEF TotalAssigned, SumFunction, SumFunctionOnSet, FoldFunctionOnSet, MapThenFoldSet
<1>3. \A s \in SUBSET Runners : s # {} => Some(s) \in s /\ s \ {Some(s)} \in SUBSET Runners
  OBVIOUS
<1> HIDE DEF Some
<1>4. sum = Sums(sum)
  <2> DEFINE zero == [s \in SUBSET Runners |-> 0]
  <2>1. ASSUME NEW s \in SUBSET Runners
        PROVE  zero[s] = IF s = {} THEN 0 ELSE activeListeners[Some(s)] + zero[s \ {Some(s)}]
    BY <1>1, <1>3
  <2>2. zero = Sums(zero)
    BY <2>1
  <2> HIDE DEF zero, Sums
  <2> QED  BY <2>2
<1> DEFINE Wrong == {s \in SUBSET Runners : sum[s] # 0}
           Smaller == StrictSubsetOrdering(Runners)
<1> HIDE DEF sum
<1>5. Wrong = {}
  <2> SUFFICES ASSUME Wrong # {} PROVE FALSE
    OBVIOUS
  <2>1. PICK s \in Wrong : \A t \in Wrong : ~(<<t, s>> \in Smaller)
    <3>1. IsWellFoundedOn(Smaller, SUBSET Runners)
      BY FiniteAssumption, FS_FiniteSubsetsOfFinite, FS_StrictSubsetOrderingWellFounded
    <3>2. Wrong \subseteq SUBSET Runners
      OBVIOUS
    <3> HIDE DEF Wrong, Smaller
    <3> QED  BY <3>1, <3>2, WFMin
  <2>2. s # {}
    BY <1>4
  <2> DEFINE t == s \ {Some(s)}
  <2>3. t \in SUBSET Runners /\ t \subseteq s /\ t # s
    BY <1>3, <2>2
  <2>4. sum[t] = 0
    BY <2>1, <2>3 DEF StrictSubsetOrdering
  <2>5. sum[s] = activeListeners[Some(s)] + sum[t]
    BY <1>4, <2>2
  <2> QED  BY <1>1, <1>3, <2>2, <2>4, <2>5
<1> QED  BY <1>2, <1>5

\* The listeners are paused exactly when the assigned workers reach max_workers,
\* or an evaluation is due, as long as the limit is positive and not changed: a
\* change is not evaluated, nor is what a restart recovers.
THEOREM PauseCorrect ==
  ASSUME "restart" \notin Faults, \A s, t \in Settings : s[1] = t[1] /\ s[1] > 0
  PROVE  Spec => []PauseAgreement
<1>1. Init => MaxIsSet
  BY DEF Init, MaxIsSet
<1>2. Init => PauseAgreement
  <2> SUFFICES ASSUME Init PROVE isPaused = (TotalAssigned >= maxWorkers)
    BY DEF PauseAgreement
  <2>1. TotalAssigned = 0 /\ maxWorkers > 0 /\ maxWorkers \in Int
    BY NothingAssigned, SettingsAssumption DEF Init
  <2>2. (TotalAssigned >= maxWorkers) = FALSE
    BY <2>1
  <2>3. isPaused = FALSE
    BY DEF Init
  <2> QED  BY <2>2, <2>3, Zenon
<1>3. TypeOK /\ PauseAgreement /\ MaxIsSet /\ [Next]_vars => PauseAgreement' /\ MaxIsSet'
  BY StepPause
<1> QED
  BY <1>1, <1>2, <1>3, TypeCorrect, PTL DEF Spec

-----------------------------------------------------------------------------
(* Refinement.  Leases is the abstract state; Exact says what it is of each *)
(* container, without the choice of the caller that has it.  Every step of  *)
(* the pool changes one lease as WorkerLease allows, or trades two.         *)

Leases == [c \in Containers |-> LeaseOf(c)]

InLimbo(q, c) == cand[q] = c /\ pc[q] \in {"taken", "vetted", "rejected"}
IsNew(c)      == boot[c] \in {"created", "started", "failed"} \/ Fresh(c)

Exact ==
  \A c \in Containers :
    /\ activeWorkers[c] # NoRunner => Leases[c] = activeWorkers[c]
    /\ \A q \in Requests : InLimbo(q, c) => Leases[c] = caller[q]
    /\ c \in warmPool => Leases[c] = "offered"
    /\ IsNew(c) => Leases[c] = "new"
    /\ \/ activeWorkers[c] # NoRunner \/ c \in warmPool \/ IsNew(c)
       \/ \E q \in Requests : InLimbo(q, c)
       \/ Leases[c] = "spent"

\* Ownership is exclusive, so each container's lease is one of the cases.
LEMMA ExactLeases == TypeOK /\ Exclusive => Exact
<1> SUFFICES ASSUME TypeOK, Exclusive, NEW c \in Containers
             PROVE  /\ activeWorkers[c] # NoRunner => Leases[c] = activeWorkers[c]
                    /\ \A q \in Requests : InLimbo(q, c) => Leases[c] = caller[q]
                    /\ c \in warmPool => Leases[c] = "offered"
                    /\ IsNew(c) => Leases[c] = "new"
                    /\ \/ activeWorkers[c] # NoRunner \/ c \in warmPool \/ IsNew(c)
                       \/ \E q \in Requests : InLimbo(q, c)
                       \/ Leases[c] = "spent"
  BY DEF Exact
<1>1. Leases[c] = LeaseOf(c)
  BY DEF Leases
<1>2. c \in Active <=> activeWorkers[c] # NoRunner
  BY DEF Active
<1>3. c \in Limbo <=> \E q \in Requests : InLimbo(q, c)
  BY DEF Limbo, InLimbo
<1>4. c \in Booting \/ Fresh(c) <=> IsNew(c)
  BY DEF Booting, IsNew
<1>5. ASSUME NEW q \in Requests, InLimbo(q, c)
      PROVE  CallerOf(c) = caller[q] /\ activeWorkers[c] = NoRunner /\ c \notin warmPool /\ ~IsNew(c)
  <2>1. cand[q] = c
    BY <1>5 DEF InLimbo
  <2>2. \A p \in Requests : cand[p] = c => p = q
    BY <2>1, NamesAssumption DEF TypeOK, Exclusive
  <2>3. (CHOOSE p \in Requests : cand[p] = c) = q
    BY <2>1, <2>2
  <2> QED
    BY <1>5, <2>1, <2>3, NamesAssumption DEF CallerOf, TypeOK, Exclusive, InLimbo, IsNew, Fresh, Held
<1>6. c \in warmPool => activeWorkers[c] = NoRunner /\ ~IsNew(c)
  BY DEF TypeOK, Exclusive, IsNew, Fresh
<1>7. IsNew(c) => activeWorkers[c] = NoRunner
  BY DEF TypeOK, Exclusive, IsNew, Fresh, Active
<1> QED
  BY <1>1, <1>2, <1>3, <1>4, <1>5, <1>6, <1>7 DEF LeaseOf

\* One lease changes as WorkerLease allows, or none.
Turns(from, to) ==
  \/ from = to
  \/ from = "new" /\ to \in {"offered", "spent"}
  \/ from = "offered" /\ to \in Runners \cup {"spent", "new"}
  \/ from \in Runners /\ to \in {"spent", "new"}
  \/ from = "spent" /\ to = "new"

ChangesAt(c) ==
  /\ \A d \in Containers \ {c} : Leases'[d] = Leases[d]
  /\ Turns(Leases[c], Leases'[c])

\* A turn of one lease is a step of WorkerLease or a stutter ...
LEMMA TurnIsStep ==
  ASSUME NEW c \in Containers, ChangesAt(c)
  PROVE  [Lease!Next]_Leases
<1>1. Leases' = [Leases EXCEPT ![c] = Leases'[c]]
  BY DEF ChangesAt, Leases
<1> QED
  BY <1>1 DEF ChangesAt, Turns, Leases, Lease!Next, Lease!Offer, Lease!Abandon, Lease!Return,
      Lease!Expire, Lease!Recycle, Lease!Lease, Lease!Become

\* ... and so is a trade.
LEMMA TradeIsStep ==
  ASSUME NEW c \in Containers, NEW d \in Containers, NEW end \in {"spent", "new"},
         Leases[c] \in Runners, Leases[d] = "offered",
         Leases' = [Leases EXCEPT ![c] = end, ![d] = Leases[c]]
  PROVE  [Lease!Next]_Leases
BY DEF Leases, Lease!Next, Lease!Trade

Types == TypeOK /\ TypeOK' /\ Exclusive /\ Exact /\ Exact'

\* A step changes the lease of one container only.
LEMMA StepLease ==
  ASSUME "restart" \notin Faults, "stream" \notin Faults, Types, [Next]_vars
  PROVE  [Lease!Next]_Leases
<1> USE NamesAssumption DEF Types, InLimbo, IsNew, Fresh, Held, Active
<1>0. ASSUME \A d \in Containers : Leases'[d] = Leases[d] PROVE [Lease!Next]_Leases
  BY <1>0 DEF Leases
<1>1. ASSUME MaintainPool PROVE \A d \in Containers : Leases'[d] = Leases[d]
  BY <1>1 DEF TypeOK, Exclusive, Exact, MaintainPool
<1>2. ASSUME BackoffOver PROVE \A d \in Containers : Leases'[d] = Leases[d]
  BY <1>2 DEF TypeOK, Exclusive, Exact, BackoffOver, Broadcast
<1>3. ASSUME WatchEvaluate PROVE \A d \in Containers : Leases'[d] = Leases[d]
  BY <1>3 DEF TypeOK, Exclusive, Exact, WatchEvaluate, EvaluateCapacity
<1>4. ASSUME UNCHANGED vars PROVE \A d \in Containers : Leases'[d] = Leases[d]
  BY <1>4 DEF TypeOK, Exclusive, Exact, vars
<1>5. ASSUME BootRefused PROVE \A d \in Containers : Leases'[d] = Leases[d]
  BY <1>5 DEF TypeOK, Exclusive, Exact, BootRefused
<1>30. ASSUME NEW c \in Containers, BootLose(c) PROVE ChangesAt(c)
  BY <1>30 DEF TypeOK, Exclusive, Exact, ChangesAt, Turns, BootLose, Fresh, Held
<1>31. ASSUME NEW c \in Containers, BootAbandon(c) PROVE ChangesAt(c)
  BY <1>31 DEF TypeOK, Exclusive, Exact, ChangesAt, Turns, BootAbandon, Remove, Vanish
<1>32. ASSUME NEW c \in Containers, BootFail(c) PROVE ChangesAt(c)
  BY <1>32 DEF TypeOK, Exclusive, Exact, ChangesAt, Turns, BootFail
<1>6. ASSUME NEW c \in Containers, BootCreate(c) PROVE ChangesAt(c)
  BY <1>6 DEF TypeOK, Exclusive, Exact, ChangesAt, Turns, BootCreate, Fresh, Held
<1>7. ASSUME NEW c \in Containers, BootStart(c) PROVE ChangesAt(c)
  BY <1>7 DEF TypeOK, Exclusive, Exact, ChangesAt, Turns, BootStart
<1>8. ASSUME NEW c \in Containers, EnterPool(c) PROVE ChangesAt(c)
  BY <1>8 DEF TypeOK, Exclusive, Exact, ChangesAt, Turns, EnterPool
<1>9. ASSUME NEW c \in Containers, BootCheck(c) PROVE ChangesAt(c)
  BY <1>9 DEF TypeOK, Exclusive, Exact, ChangesAt, Turns, BootCheck, SeemsDead
<1>10. ASSUME NEW c \in Containers, BootReap(c) PROVE ChangesAt(c)
  BY <1>10 DEF TypeOK, Exclusive, Exact, ChangesAt, Turns, BootReap, BuryActive, BuryOther, BuryWarm, BuryUnknown, DropActive, Broadcast
<1>11. ASSUME NEW c \in Containers, BootEvaluate(c) PROVE ChangesAt(c)
  BY <1>11 DEF TypeOK, Exclusive, Exact, ChangesAt, Turns, BootEvaluate, EvaluateCapacity
<1>12. ASSUME NEW c \in Containers, BootAnnounce(c) PROVE ChangesAt(c)
  BY <1>12 DEF TypeOK, Exclusive, Exact, ChangesAt, Turns, BootAnnounce, Broadcast
<1>13. ASSUME NEW c \in Containers, JobEnds(c) PROVE ChangesAt(c)
  BY <1>13 DEF TypeOK, Exclusive, Exact, ChangesAt, Turns, JobEnds, Vanish
<1>14. ASSUME NEW c \in Containers, WorkerDies(c) PROVE ChangesAt(c)
  BY <1>14 DEF TypeOK, Exclusive, Exact, ChangesAt, Turns, WorkerDies, Vanish
<1>15. ASSUME NEW c \in Containers, WatchDeath(c) PROVE ChangesAt(c)
  BY <1>15 DEF TypeOK, Exclusive, Exact, ChangesAt, Turns, WatchDeath, BuryActive, BuryOther, BuryWarm, BuryUnknown, DropActive, Broadcast
<1>16. ASSUME NEW q \in Requests, Wake(q) PROVE [Lease!Next]_Leases
  <2>0. pc[q] = "wait" /\ cand[q] = NoContainer
    BY <1>16 DEF TypeOK, Wake, Waiting
  <2>1. CASE warmPool = {}
    <3>1. \A d \in Containers : Leases'[d] = Leases[d]
      BY <1>16, <2>0, <2>1 DEF TypeOK, Exclusive, Exact, Wake, TakeOrWait
    <3> QED
      BY <1>0, <3>1
  <2>2. ASSUME NEW c \in warmPool, warmPool' = warmPool \ {c}, cand' = [cand EXCEPT ![q] = c],
               pc' = [pc EXCEPT ![q] = "taken"]
        PROVE  [Lease!Next]_Leases
    <3>1. c \in Containers
      BY DEF TypeOK
    <3>2. ChangesAt(c)
      BY <1>16, <2>0, <2>2, <3>1 DEF TypeOK, Exclusive, Exact, ChangesAt, Turns, Wake, TakeOrWait
    <3> QED
      BY <3>1, <3>2, TurnIsStep
  <2> QED
    BY <1>16, <2>1, <2>2 DEF Wake, TakeOrWait
<1>17. ASSUME NEW q \in Requests, Vet(q) PROVE \A d \in Containers : Leases'[d] = Leases[d]
  BY <1>17 DEF TypeOK, Exclusive, Exact, Vet, SeemsDead
<1>18. ASSUME NEW q \in Requests, Discard(q) PROVE [Lease!Next]_Leases
  <2>1. cand[q] \in Containers /\ cand[q] \notin warmPool /\ Leases[cand[q]] \in Runners
    BY <1>18 DEF TypeOK, Exclusive, Exact, Discard
  <2>2. CASE warmPool = {}
    <3>1. ChangesAt(cand[q])
      BY <1>18, <2>1, <2>2, SMTT(60) DEF TypeOK, Exclusive, Exact, ChangesAt, Turns, Discard, TakeOrWait, Remove, Vanish
    <3> QED
      BY <2>1, <3>1, TurnIsStep
  <2>3. ASSUME NEW c \in warmPool, warmPool' = warmPool \ {c}, cand' = [cand EXCEPT ![q] = c],
               pc' = [pc EXCEPT ![q] = "taken"]
        PROVE  [Lease!Next]_Leases
    <3>1. c \in Containers /\ c # cand[q] /\ Leases[c] = "offered"
      BY <2>1, <2>3 DEF TypeOK, Exact
    <3>2. Leases'[c] = Leases[cand[q]]
      BY <1>18, <2>1, <2>3, <3>1 DEF TypeOK, Exclusive, Exact, Discard, Remove, Vanish
    <3>3. Leases'[cand[q]] \in {"spent", "new"}
      <4>1. \A p \in Requests : cand'[p] # cand[q]
        BY <2>1, <2>3, <3>1 DEF TypeOK, Exclusive
      <4>2. activeWorkers'[cand[q]] = NoRunner /\ cand[q] \notin warmPool'
        BY <1>18, <2>1, <2>3 DEF TypeOK, Exclusive, Discard, TakeOrWait
      <4> QED
        BY <2>1, <4>1, <4>2 DEF Exact
    <3>4. ASSUME NEW d \in Containers \ {c, cand[q]} PROVE Leases'[d] = Leases[d]
      <4>1. UNCHANGED <<activeWorkers, boot, caller>> /\ (d \in warmPool' <=> d \in warmPool)
        BY <1>18, <2>3 DEF Discard, TakeOrWait
      <4>2. \A p \in Requests : /\ cand'[p] = d <=> cand[p] = d
                                /\ cand[p] = d => pc'[p] = pc[p]
        BY <1>18, <2>3, <3>1 DEF TypeOK
      <4>3. docker'[d] = docker[d] /\ (d \in dieEvents' <=> d \in dieEvents)
        BY <1>18 DEF TypeOK, Discard, Remove, Vanish
      <4>4. IsNew(d)' <=> IsNew(d)
        BY <4>1, <4>2, <4>3
      <4> HIDE DEF IsNew
      <4>5. \A p \in Requests : InLimbo(p, d)' <=> InLimbo(p, d)
        BY <4>2
      <4> HIDE DEF InLimbo
      <4> QED
        BY <4>1, <4>4, <4>5 DEF Exact
    <3>5. Leases' = [Leases EXCEPT ![cand[q]] = Leases'[cand[q]], ![c] = Leases[cand[q]]]
      BY <2>1, <3>1, <3>2, <3>4 DEF Leases
    <3> QED
      BY <2>1, <3>1, <3>3, <3>5, TradeIsStep
  <2> QED
    BY <1>18, <2>2, <2>3 DEF Discard, TakeOrWait
<1>19. ASSUME NEW q \in Requests, Register(q) PROVE \A d \in Containers : Leases'[d] = Leases[d]
  BY <1>19 DEF TypeOK, Exclusive, Exact, Register, Broadcast
<1>20. ASSUME NEW q \in Requests, Evaluate(q) PROVE \A d \in Containers : Leases'[d] = Leases[d]
  BY <1>20 DEF TypeOK, Exclusive, Exact, Evaluate, EvaluateCapacity
<1>21. ASSUME NEW q \in Requests, DeliverToNobody(q) PROVE [Lease!Next]_Leases
  <2>1. cand[q] \in Containers
    BY <1>21 DEF TypeOK, DeliverToNobody
  <2>2. ChangesAt(cand[q])
    BY <1>21, <2>1 DEF TypeOK, Exclusive, Exact, ChangesAt, Turns, DeliverToNobody, Leave
  <2> QED
    BY <2>1, <2>2, TurnIsStep
<1>22. ASSUME NEW q \in Requests, Deliver(q) PROVE [Lease!Next]_Leases
  <2>1. cand[q] \in Containers
    BY <1>22 DEF TypeOK, Deliver
  <2>2. ChangesAt(cand[q])
    BY <1>22, <2>1, SMTT(60) DEF TypeOK, Exclusive, Exact, ChangesAt, Turns, Deliver, Leave
  <2> QED
    BY <2>1, <2>2, TurnIsStep
<1>23. ASSUME NEW q \in Requests, Abort(q) PROVE [Lease!Next]_Leases
  <2>1. cand[q] \in Containers
    BY <1>23 DEF TypeOK, Abort
  <2>2. ChangesAt(cand[q])
    BY <1>23, <2>1 DEF TypeOK, Exclusive, Exact, ChangesAt, Turns, Abort, DropActive, Active
  <2> QED
    BY <2>1, <2>2, TurnIsStep
<1>24. ASSUME NEW q \in Requests, AbortEvaluate(q) PROVE \A d \in Containers : Leases'[d] = Leases[d]
  BY <1>24 DEF TypeOK, Exclusive, Exact, AbortEvaluate, EvaluateCapacity
<1>25. ASSUME NEW q \in Requests, KillWorker(q) PROVE [Lease!Next]_Leases
  <2>1. cand[q] \in Containers
    BY <1>25 DEF TypeOK, KillWorker
  <2>2. ChangesAt(cand[q])
    BY <1>25, <2>1 DEF TypeOK, Exclusive, Exact, ChangesAt, Turns, KillWorker, Remove, Vanish, Leave
  <2> QED
    BY <2>1, <2>2, TurnIsStep
<1>26. ASSUME NEW q \in Requests, Cancel(q) PROVE \A d \in Containers : Leases'[d] = Leases[d]
  BY <1>26 DEF TypeOK, Exclusive, Exact, Cancel
<1>27. ASSUME NEW q \in Requests, CancelWait(q) PROVE \A d \in Containers : Leases'[d] = Leases[d]
  BY <1>27 DEF TypeOK, Exclusive, Exact, CancelWait, Leave
<1>28. ASSUME NEW q \in Requests, NEW r \in Runners, Request(q, r) PROVE [Lease!Next]_Leases
  <2>1. CASE warmPool = {}
    <3>1. \A d \in Containers : Leases'[d] = Leases[d]
      BY <1>28, <2>1 DEF TypeOK, Exclusive, Exact, Request, Broadcast, TakeOrWait
    <3> QED
      BY <1>0, <3>1
  <2>2. ASSUME NEW c \in warmPool, warmPool' = warmPool \ {c}, cand' = [cand EXCEPT ![q] = c],
               pc' = [pc EXCEPT ![q] = "taken"]
        PROVE  [Lease!Next]_Leases
    <3>1. c \in Containers
      BY DEF TypeOK
    <3>2. ChangesAt(c)
      BY <1>28, <2>2, <3>1 DEF TypeOK, Exclusive, Exact, ChangesAt, Turns, Request, Broadcast, TakeOrWait
    <3> QED
      BY <3>1, <3>2, TurnIsStep
  <2> QED
    BY <1>28, <2>1, <2>2 DEF Request, Broadcast, TakeOrWait
<1>29. ASSUME NEW s \in Settings, UpdateSettings(s) PROVE \A d \in Containers : Leases'[d] = Leases[d]
  BY <1>29 DEF TypeOK, Exclusive, Exact, UpdateSettings, Broadcast
<1> QED
  BY <1>0, <1>1, <1>2, <1>3, <1>4, <1>5, <1>6, <1>7, <1>8, <1>9, <1>10, <1>11, <1>12, <1>13, <1>14, <1>15, <1>16, <1>17, <1>18, <1>19, <1>20, <1>21, <1>22, <1>23, <1>24, <1>25, <1>26, <1>27, <1>28, <1>29, <1>30, <1>31, <1>32, TurnIsStep DEF Next, PoolStep, BootStep, CallerStep, StreamBreak, Restart

\* Every container is new.
LEMMA InitLease == Init => Lease!Init
<1> SUFFICES ASSUME Init PROVE \A c \in Containers : LeaseOf(c) = "new"
  BY DEF Lease!Init
<1>1. TAKE c \in Containers
<1>2. Fresh(c) /\ c \notin Active /\ c \notin Limbo /\ c \notin warmPool
  BY NamesAssumption DEF Init, Fresh, Held, Active, Limbo
<1> QED
  BY <1>2 DEF LeaseOf

\* The pool implements the lease of every container: offered once, leased to
\* one runner, then spent.  Not across a restart, which changes many leases
\* in one step, nor when die events are lost, which frees several names at once.
THEOREM LeaseRefined ==
  ASSUME "restart" \notin Faults, "stream" \notin Faults
  PROVE  Spec => Lease!Spec
<1>1. TypeOK /\ Exclusive => Exact
  BY ExactLeases
<1>2. TypeOK /\ TypeOK' /\ Exclusive /\ Exact /\ Exact' /\ [Next]_vars => [Lease!Next]_Leases
  BY StepLease DEF Types
<1>3. CountInv => Exclusive
  BY DEF CountInv
<1>4. Spec => [][Lease!Next]_Leases
  BY <1>1, <1>2, <1>3, CountInvariant, TypeCorrect, PTL DEF Spec
<1>5. Spec => Lease!Init
  BY InitLease DEF Spec
<1> QED
  BY <1>4, <1>5, PTL DEF Lease!Spec, Leases

-----------------------------------------------------------------------------
(* Waiting.  The failures under which every release of capacity and every   *)
(* new worker is announced: a push that fails ends in AbortWorker and a     *)
(* candidate that died in a retry, and neither broadcasts.                  *)

Announced ==
  /\ "crash" \notin Faults /\ "inspect" \notin Faults /\ "push" \notin Faults
  /\ \A s \in Settings : s[2] >= 0

\* A warm worker, a container that boots and a candidate run and have no job,
\* so no caller meets a dead one or aborts.
Usable(c) == docker[c] = "running" /\ c \notin launched

Sound ==
  /\ \A c \in warmPool : Usable(c)
  /\ \A c \in Containers : boot[c] = "started" => Usable(c)
  /\ \A q \in Requests :
       /\ pc[q] \in {"idle", "wait", "taken", "vetted", "evaluate", "deliver"}
       /\ pc[q] \in {"taken", "vetted", "evaluate", "deliver"} => Usable(cand[q])

\* Every step keeps Sound: jobs end in registered workers only.
LEMMA StepSound ==
  ASSUME NamesKept, Announced, TypeOK, TypeOK', Exclusive, Tracked, JobInv, Sound, [Next]_vars
  PROVE  Sound'
<1> USE NamesAssumption DEF Announced
<1>1. CASE MaintainPool
  BY <1>1 DEF TypeOK, Exclusive, Tracked, JobInv, Slotted, Named, NamesKept, Sound, Usable, MaintainPool
<1>2. CASE BackoffOver
  BY <1>2 DEF TypeOK, Exclusive, Tracked, JobInv, Slotted, Named, NamesKept, Sound, Usable, BackoffOver, Broadcast
<1>3. CASE WatchEvaluate
  BY <1>3 DEF TypeOK, Exclusive, Tracked, JobInv, Slotted, Named, NamesKept, Sound, Usable, WatchEvaluate, EvaluateCapacity
<1>4. CASE BootRefused
  BY <1>4 DEF TypeOK, Exclusive, Tracked, JobInv, Slotted, Named, NamesKept, Sound, Usable, BootRefused
<1>5. CASE StreamBreak
  BY <1>5 DEF TypeOK, Exclusive, Tracked, JobInv, Slotted, Named, NamesKept, Sound, Usable, StreamBreak
<1>6. CASE Restart
  BY <1>6 DEF TypeOK, Exclusive, Tracked, JobInv, Slotted, Named, NamesKept, Sound, Usable, Restart, Recover, RecoverNothing, RecoverState
<1>7. ASSUME NEW c \in Containers, BootCreate(c) PROVE Sound'
  BY <1>7 DEF TypeOK, Exclusive, Tracked, JobInv, Slotted, Named, NamesKept, Sound, Usable, BootCreate, Fresh, Held
<1>8. ASSUME NEW c \in Containers, BootStart(c) PROVE Sound'
  BY <1>8 DEF TypeOK, Exclusive, Tracked, JobInv, Slotted, Named, NamesKept, Sound, Usable, BootStart
<1>9. ASSUME NEW c \in Containers, EnterPool(c) PROVE Sound'
  BY <1>9 DEF TypeOK, Exclusive, Tracked, JobInv, Slotted, Named, NamesKept, Sound, Usable, EnterPool
<1>10. ASSUME NEW c \in Containers, BootCheck(c) PROVE Sound'
  BY <1>10 DEF TypeOK, Exclusive, Tracked, JobInv, Slotted, Named, NamesKept, Sound, Usable, BootCheck, SeemsDead
<1>11. ASSUME NEW c \in Containers, BootReap(c) PROVE Sound'
  BY <1>11 DEF TypeOK, Exclusive, Tracked, JobInv, Slotted, Named, NamesKept, Sound, Usable, BootReap, BuryActive, BuryOther, BuryWarm, BuryUnknown, DropActive, Broadcast
<1>12. ASSUME NEW c \in Containers, BootEvaluate(c) PROVE Sound'
  BY <1>12 DEF TypeOK, Exclusive, Tracked, JobInv, Slotted, Named, NamesKept, Sound, Usable, BootEvaluate, EvaluateCapacity
<1>13. ASSUME NEW c \in Containers, BootAnnounce(c) PROVE Sound'
  BY <1>13 DEF TypeOK, Exclusive, Tracked, JobInv, Slotted, Named, NamesKept, Sound, Usable, BootAnnounce, Broadcast
<1>14. ASSUME NEW c \in Containers, JobEnds(c) PROVE Sound'
  BY <1>14 DEF TypeOK, Exclusive, Tracked, JobInv, Slotted, Named, NamesKept, Sound, Usable, JobEnds, Vanish
<1>15. ASSUME NEW c \in Containers, WorkerDies(c) PROVE Sound'
  BY <1>15 DEF TypeOK, Exclusive, Tracked, JobInv, Slotted, Named, NamesKept, Sound, Usable, WorkerDies, Vanish
<1>16. ASSUME NEW c \in Containers, WatchDeath(c) PROVE Sound'
  BY <1>16 DEF TypeOK, Exclusive, Tracked, JobInv, Slotted, Named, NamesKept, Sound, Usable, WatchDeath, BuryActive, BuryOther, BuryWarm, BuryUnknown, DropActive, Broadcast
<1>17. ASSUME NEW q \in Requests, Wake(q) PROVE Sound'
  BY <1>17 DEF TypeOK, Exclusive, Tracked, JobInv, Slotted, Named, NamesKept, Sound, Usable, Wake, TakeOrWait, Waiting
<1>18. ASSUME NEW q \in Requests, Vet(q) PROVE Sound'
  BY <1>18 DEF TypeOK, Exclusive, Tracked, JobInv, Slotted, Named, NamesKept, Sound, Usable, Vet, SeemsDead
<1>19. ASSUME NEW q \in Requests, Discard(q) PROVE Sound'
  BY <1>19 DEF TypeOK, Exclusive, Tracked, JobInv, Slotted, Named, NamesKept, Sound, Usable, Discard, TakeOrWait, Remove, Vanish
<1>20. ASSUME NEW q \in Requests, Register(q) PROVE Sound'
  BY <1>20 DEF TypeOK, Exclusive, Tracked, JobInv, Slotted, Named, NamesKept, Sound, Usable, Register, Broadcast
<1>21. ASSUME NEW q \in Requests, Evaluate(q) PROVE Sound'
  BY <1>21 DEF TypeOK, Exclusive, Tracked, JobInv, Slotted, Named, NamesKept, Sound, Usable, Evaluate, EvaluateCapacity
<1>22. ASSUME NEW q \in Requests, DeliverToNobody(q) PROVE Sound'
  BY <1>22 DEF TypeOK, Exclusive, Tracked, JobInv, Slotted, Named, NamesKept, Sound, Usable, DeliverToNobody, Leave
<1>23. ASSUME NEW q \in Requests, Deliver(q) PROVE Sound'
  BY <1>23 DEF TypeOK, Exclusive, Tracked, JobInv, Slotted, Named, NamesKept, Sound, Usable, Deliver, Leave
<1>24. ASSUME NEW q \in Requests, Abort(q) PROVE Sound'
  BY <1>24 DEF TypeOK, Exclusive, Tracked, JobInv, Slotted, Named, NamesKept, Sound, Usable, Abort, DropActive, Active
<1>25. ASSUME NEW q \in Requests, AbortEvaluate(q) PROVE Sound'
  BY <1>25 DEF TypeOK, Exclusive, Tracked, JobInv, Slotted, Named, NamesKept, Sound, Usable, AbortEvaluate, EvaluateCapacity
<1>26. ASSUME NEW q \in Requests, KillWorker(q) PROVE Sound'
  BY <1>26 DEF TypeOK, Exclusive, Tracked, JobInv, Slotted, Named, NamesKept, Sound, Usable, KillWorker, Remove, Vanish, Leave
<1>27. ASSUME NEW q \in Requests, Cancel(q) PROVE Sound'
  BY <1>27 DEF TypeOK, Exclusive, Tracked, JobInv, Slotted, Named, NamesKept, Sound, Usable, Cancel
<1>28. ASSUME NEW q \in Requests, CancelWait(q) PROVE Sound'
  BY <1>28 DEF TypeOK, Exclusive, Tracked, JobInv, Slotted, Named, NamesKept, Sound, Usable, CancelWait, Leave
<1>29. ASSUME NEW q \in Requests, NEW r \in Runners, Request(q, r) PROVE Sound'
  BY <1>29 DEF TypeOK, Exclusive, Tracked, JobInv, Slotted, Named, NamesKept, Sound, Usable, Request, Broadcast, TakeOrWait
<1>30. ASSUME NEW s \in Settings, UpdateSettings(s) PROVE Sound'
  BY <1>30 DEF TypeOK, Exclusive, Tracked, JobInv, Slotted, Named, NamesKept, Sound, Usable, UpdateSettings, Broadcast
<1>31. CASE UNCHANGED vars
  BY <1>31 DEF TypeOK, Exclusive, Tracked, JobInv, Slotted, Named, NamesKept, Sound, Usable, vars
<1>32. ASSUME NEW c \in Containers, BootLose(c) PROVE Sound'
  BY <1>32 DEF TypeOK, Exclusive, Tracked, JobInv, Slotted, Named, NamesKept, Sound, Usable, BootLose, Fresh, Held, Active
<1>33. ASSUME NEW c \in Containers, BootAbandon(c) PROVE Sound'
  BY <1>33 DEF TypeOK, Exclusive, Tracked, JobInv, Slotted, Named, NamesKept, Sound, Usable, BootAbandon, Remove, Vanish
<1>34. ASSUME NEW c \in Containers, BootFail(c) PROVE Sound'
  BY <1>34 DEF TypeOK, Exclusive, Tracked, JobInv, Slotted, Named, NamesKept, Sound, Usable, BootFail
<1> QED
  BY <1>1, <1>2, <1>3, <1>4, <1>5, <1>6, <1>7, <1>8, <1>9, <1>10, <1>11, <1>12, <1>13, <1>14, <1>15, <1>16, <1>17, <1>18, <1>19, <1>20, <1>21, <1>22, <1>23, <1>24, <1>25, <1>26, <1>27, <1>28, <1>29, <1>30, <1>31, <1>32, <1>33, <1>34 DEF Next, PoolStep, BootStep, CallerStep

\* A caller that waits although a warm worker is announced is about to wake.
NoIdleWorker == \A c \in warmPool : boot[c] = "none" => Waiting \subseteq awake

\* Every step keeps NoIdleWorker, whatever fails: a worker that enters the pool
\* is announced before its boot goroutine ends.
LEMMA StepNoIdle == TypeOK /\ Exclusive /\ NoIdleWorker /\ [Next]_vars => NoIdleWorker'
<1> SUFFICES ASSUME TypeOK, Exclusive, NoIdleWorker, [Next]_vars PROVE NoIdleWorker'
  OBVIOUS
<1> USE NamesAssumption DEF NoIdleWorker, Waiting
<1>1. CASE MaintainPool
  BY <1>1 DEF TypeOK, Exclusive, MaintainPool
<1>2. CASE BackoffOver
  BY <1>2 DEF TypeOK, Exclusive, BackoffOver, Broadcast
<1>3. CASE WatchEvaluate
  BY <1>3 DEF TypeOK, Exclusive, WatchEvaluate, EvaluateCapacity
<1>4. CASE BootRefused
  BY <1>4 DEF TypeOK, Exclusive, BootRefused
<1>5. CASE StreamBreak
  BY <1>5 DEF TypeOK, Exclusive, StreamBreak
<1>6. CASE Restart
  BY <1>6 DEF TypeOK, Exclusive, Restart, Recover, RecoverNothing, RecoverState
<1>7. ASSUME NEW c \in Containers, BootCreate(c) PROVE NoIdleWorker'
  BY <1>7 DEF TypeOK, Exclusive, BootCreate, Fresh, Held
<1>8. ASSUME NEW c \in Containers, BootStart(c) PROVE NoIdleWorker'
  BY <1>8 DEF TypeOK, Exclusive, BootStart
<1>9. ASSUME NEW c \in Containers, EnterPool(c) PROVE NoIdleWorker'
  BY <1>9 DEF TypeOK, Exclusive, EnterPool
<1>10. ASSUME NEW c \in Containers, BootCheck(c) PROVE NoIdleWorker'
  BY <1>10 DEF TypeOK, Exclusive, BootCheck, SeemsDead
<1>11. ASSUME NEW c \in Containers, BootReap(c) PROVE NoIdleWorker'
  BY <1>11 DEF TypeOK, Exclusive, BootReap, BuryActive, BuryOther, BuryWarm, BuryUnknown, DropActive, Broadcast
<1>12. ASSUME NEW c \in Containers, BootEvaluate(c) PROVE NoIdleWorker'
  BY <1>12 DEF TypeOK, Exclusive, BootEvaluate, EvaluateCapacity
<1>13. ASSUME NEW c \in Containers, BootAnnounce(c) PROVE NoIdleWorker'
  BY <1>13 DEF TypeOK, Exclusive, BootAnnounce, Broadcast
<1>14. ASSUME NEW c \in Containers, JobEnds(c) PROVE NoIdleWorker'
  BY <1>14 DEF TypeOK, Exclusive, JobEnds, Vanish
<1>15. ASSUME NEW c \in Containers, WorkerDies(c) PROVE NoIdleWorker'
  BY <1>15 DEF TypeOK, Exclusive, WorkerDies, Vanish
<1>16. ASSUME NEW c \in Containers, WatchDeath(c) PROVE NoIdleWorker'
  BY <1>16 DEF TypeOK, Exclusive, WatchDeath, BuryActive, BuryOther, BuryWarm, BuryUnknown, DropActive, Broadcast
<1>17. ASSUME NEW q \in Requests, Wake(q) PROVE NoIdleWorker'
  BY <1>17 DEF TypeOK, Exclusive, Wake, TakeOrWait, Waiting
<1>18. ASSUME NEW q \in Requests, Vet(q) PROVE NoIdleWorker'
  BY <1>18 DEF TypeOK, Exclusive, Vet, SeemsDead
<1>19. ASSUME NEW q \in Requests, Discard(q) PROVE NoIdleWorker'
  BY <1>19 DEF TypeOK, Exclusive, Discard, TakeOrWait, Remove, Vanish
<1>20. ASSUME NEW q \in Requests, Register(q) PROVE NoIdleWorker'
  BY <1>20 DEF TypeOK, Exclusive, Register, Broadcast
<1>21. ASSUME NEW q \in Requests, Evaluate(q) PROVE NoIdleWorker'
  BY <1>21 DEF TypeOK, Exclusive, Evaluate, EvaluateCapacity
<1>22. ASSUME NEW q \in Requests, DeliverToNobody(q) PROVE NoIdleWorker'
  BY <1>22 DEF TypeOK, Exclusive, DeliverToNobody, Leave
<1>23. ASSUME NEW q \in Requests, Deliver(q) PROVE NoIdleWorker'
  BY <1>23 DEF TypeOK, Exclusive, Deliver, Leave
<1>24. ASSUME NEW q \in Requests, Abort(q) PROVE NoIdleWorker'
  BY <1>24 DEF TypeOK, Exclusive, Abort, DropActive, Active
<1>25. ASSUME NEW q \in Requests, AbortEvaluate(q) PROVE NoIdleWorker'
  BY <1>25 DEF TypeOK, Exclusive, AbortEvaluate, EvaluateCapacity
<1>26. ASSUME NEW q \in Requests, KillWorker(q) PROVE NoIdleWorker'
  BY <1>26 DEF TypeOK, Exclusive, KillWorker, Remove, Vanish, Leave
<1>27. ASSUME NEW q \in Requests, Cancel(q) PROVE NoIdleWorker'
  BY <1>27 DEF TypeOK, Exclusive, Cancel
<1>28. ASSUME NEW q \in Requests, CancelWait(q) PROVE NoIdleWorker'
  BY <1>28 DEF TypeOK, Exclusive, CancelWait, Leave
<1>29. ASSUME NEW q \in Requests, NEW r \in Runners, Request(q, r) PROVE NoIdleWorker'
  BY <1>29 DEF TypeOK, Exclusive, Request, Broadcast, TakeOrWait
<1>30. ASSUME NEW s \in Settings, UpdateSettings(s) PROVE NoIdleWorker'
  BY <1>30 DEF TypeOK, Exclusive, UpdateSettings, Broadcast
<1>31. CASE UNCHANGED vars
  BY <1>31 DEF TypeOK, Exclusive, vars
<1>32. ASSUME NEW c \in Containers, BootLose(c) PROVE NoIdleWorker'
  BY <1>32 DEF TypeOK, Exclusive, BootLose, Fresh, Held, Active
<1>33. ASSUME NEW c \in Containers, BootAbandon(c) PROVE NoIdleWorker'
  BY <1>33 DEF TypeOK, Exclusive, BootAbandon, Remove, Vanish
<1>34. ASSUME NEW c \in Containers, BootFail(c) PROVE NoIdleWorker'
  BY <1>34 DEF TypeOK, Exclusive, BootFail
<1> QED
  BY <1>1, <1>2, <1>3, <1>4, <1>5, <1>6, <1>7, <1>8, <1>9, <1>10, <1>11, <1>12, <1>13, <1>14, <1>15, <1>16, <1>17, <1>18, <1>19, <1>20, <1>21, <1>22, <1>23, <1>24, <1>25, <1>26, <1>27, <1>28, <1>29, <1>30, <1>31, <1>32, <1>33, <1>34 DEF Next, PoolStep, BootStep, CallerStep

\* What is missing in the pool is being booted, slept on or about to be looked
\* at, unless there is no room, or a caller that took a worker will announce
\* the worker it registers.
Demanded ==
  \/ poolAwake \/ backoff > 0 \/ Shortfall =< 0 \/ Room =< 0
  \/ \E q \in Requests : pc[q] \in {"taken", "vetted"}

\* Every step keeps Demanded.
LEMMA StepDemanded ==
  ASSUME Announced, CountInv, Sound, Demanded, [Next]_vars
  PROVE  Demanded'
<1> USE DEF CountInv
<1>1. /\ Cardinality(warmPool) \in Nat /\ Cardinality(Active) \in Nat /\ IsFiniteSet(warmPool)
      /\ Shortfall \in Int /\ Room \in Int
  BY SubsetCount DEF TypeOK, Active, Shortfall, Room
<1>2. ASSUME poolAwake' PROVE Demanded'
  BY <1>2 DEF Demanded
<1>3. ASSUME UNCHANGED <<poolAwake, backoff, warmPool, activeWorkers, maxWorkers, warmWorkersConfig,
                         bootingCount, pendingAllocations>>,
             \A q \in Requests : pc[q] \in {"taken", "vetted"} => pc'[q] \in {"taken", "vetted"}
      PROVE  Demanded'
  BY <1>3 DEF Demanded, Shortfall, Room, Active
<1>4. CASE MaintainPool
  <2> DEFINE n == ToSpawn
  <2>1. /\ Shortfall' = Shortfall - n /\ Room' = Room - n
    <3>1. n \in Nat
      BY SpawnType
    <3> QED
      BY <1>1, <1>4, <3>1 DEF MaintainPool, TypeOK, Shortfall, Room, Active
  <2>2. n = Shortfall \/ n = Room \/ (n = 0 /\ (Shortfall =< 0 \/ Room =< 0))
    BY <1>1 DEF ToSpawn
  <2> QED
    BY <1>1, <2>1, <2>2 DEF Demanded
<1>5. ASSUME BootRefused \/ \E c \in Containers : BootFail(c) PROVE Demanded'
  BY <1>5 DEF BootRefused, BootFail, Demanded, TypeOK
<1>6. ASSUME NEW c \in Containers, EnterPool(c) PROVE Demanded'
  <2>1. c \notin warmPool /\ warmPool' = warmPool \cup {c}
    BY <1>6 DEF Exclusive, EnterPool
  <2>2. Cardinality(warmPool') = Cardinality(warmPool) + 1
    BY <1>1, <2>1, FS_AddElement
  <2>3. Shortfall' = Shortfall /\ Room' = Room
    BY <1>1, <1>6, <2>2 DEF EnterPool, TypeOK, Shortfall, Room, Active
  <2> QED
    BY <1>6, <2>3 DEF EnterPool, Demanded
<1>7. ASSUME NEW q \in Requests, Wake(q) PROVE Demanded'
  <2>1. pc[q] = "wait" /\ UNCHANGED <<poolAwake, backoff, activeWorkers, maxWorkers, warmWorkersConfig, bootingCount>>
    BY <1>7 DEF TypeOK, Wake, TakeOrWait, Waiting
  <2>2. CASE pc' = [pc EXCEPT ![q] = "taken"]
    BY <2>2 DEF TypeOK, Demanded
  <2>3. CASE pc' = [pc EXCEPT ![q] = "wait"] /\ UNCHANGED <<warmPool, pendingAllocations>>
    BY <1>3, <2>1, <2>3 DEF TypeOK
  <2> QED
    BY <1>7, <2>2, <2>3 DEF Wake, TakeOrWait
<1>8. ASSUME NEW q \in Requests, CancelWait(q) PROVE Demanded'
  <2>1. Shortfall' = Shortfall - 1 /\ Room' = Room
    BY <1>1, <1>8 DEF CancelWait, TypeOK, Shortfall, Room, Active
  <2>2. \A p \in Requests : pc[p] \in {"taken", "vetted"} => pc'[p] = pc[p]
    BY <1>8 DEF CancelWait, Leave, TypeOK
  <2>3. UNCHANGED <<poolAwake, backoff>>
    BY <1>8 DEF CancelWait
  <2> QED
    BY <1>1, <2>1, <2>2, <2>3 DEF Demanded
<1>9. ASSUME NEW c \in Containers, BootReap(c) \/ WatchDeath(c) PROVE Demanded'
  <2>1. UNCHANGED <<backoff, maxWorkers, warmWorkersConfig, bootingCount, pendingAllocations, pc>>
    BY <1>9 DEF BootReap, WatchDeath
  <2>2. CASE BuryActive(c) \/ BuryWarm(c)
    BY <1>2, <2>2 DEF BuryActive, BuryWarm, Broadcast
  <2>3. CASE BuryUnknown(c)
    BY <1>3, <2>1, <2>3 DEF BuryUnknown
  <2> QED
    BY <1>9, <2>2, <2>3 DEF BootReap, WatchDeath, BuryOther
<1>10. CASE BackoffOver \/ Restart
  BY <1>2, <1>10 DEF BackoffOver, Broadcast, Restart
<1>11. CASE WatchEvaluate \/ StreamBreak \/ UNCHANGED vars
  BY <1>3, <1>11 DEF WatchEvaluate, StreamBreak, vars
<1>12. ASSUME NEW c \in Containers,
              \/ BootCreate(c) \/ BootLose(c) \/ BootAbandon(c) \/ BootStart(c) \/ BootCheck(c)
              \/ BootEvaluate(c) \/ JobEnds(c) \/ WorkerDies(c)
       PROVE  Demanded'
  BY <1>3, <1>12 DEF BootCreate, BootLose, BootAbandon, BootStart, BootCheck, BootEvaluate, JobEnds, WorkerDies
<1>13. ASSUME NEW c \in Containers, BootAnnounce(c) PROVE Demanded'
  BY <1>2, <1>13 DEF BootAnnounce, Broadcast
<1>14. ASSUME NEW q \in Requests, Register(q) \/ \E r \in Runners : Request(q, r) PROVE Demanded'
  BY <1>2, <1>14 DEF Register, Request, Broadcast
<1>15. ASSUME NEW q \in Requests, Vet(q) PROVE Demanded'
  <2>1. pc' = [pc EXCEPT ![q] = "vetted"]
    BY <1>15 DEF Announced, Sound, Usable, Vet, SeemsDead
  <2> QED
    BY <2>1 DEF TypeOK, Demanded
<1>16. ASSUME NEW q \in Requests, Evaluate(q) \/ DeliverToNobody(q) \/ Deliver(q) \/ Cancel(q)
       PROVE  Demanded'
  <2>1. \A p \in Requests : pc[p] \in {"taken", "vetted"} => pc'[p] \in {"taken", "vetted"}
    BY <1>16 DEF TypeOK, Evaluate, DeliverToNobody, Deliver, Leave, Cancel
  <2> QED
    BY <1>3, <1>16, <2>1 DEF Evaluate, DeliverToNobody, Deliver, Cancel
<1>17. ASSUME NEW q \in Requests PROVE ~(Discard(q) \/ Abort(q) \/ AbortEvaluate(q) \/ KillWorker(q))
  BY DEF Sound, Discard, Abort, AbortEvaluate, KillWorker
<1>18. ASSUME NEW s \in Settings, UpdateSettings(s) PROVE Demanded'
  BY <1>2, <1>18 DEF UpdateSettings, Broadcast
<1> QED
  BY <1>4, <1>5, <1>6, <1>7, <1>8, <1>9, <1>10, <1>11, <1>12, <1>13, <1>14, <1>15, <1>16, <1>17, <1>18
     DEF Next, PoolStep, BootStep, CallerStep

\* NewApp clamps warm_workers from above only, so it is negative at most where
\* max_workers is.
WarmIsNatural == warmWorkersConfig >= 0 \/ maxWorkers =< 0

\* Neither the settings nor a restart make warm_workers negative below a limit.
LEMMA StepWarm == ASSUME Announced, TypeOK, WarmIsNatural, [Next]_vars PROVE WarmIsNatural'
<1>1. CASE UNCHANGED configVars
  BY <1>1 DEF WarmIsNatural
<1>2. CASE Restart
  <2>1. PICK s \in Settings : maxWorkers' = s[1] /\ warmWorkersConfig' = IF s[2] > s[1] THEN s[1] ELSE s[2]
    BY <1>2 DEF Restart
  <2>2. s[1] \in Int /\ s[2] \in Int /\ s[2] >= 0
    BY SettingsAssumption DEF Announced
  <2> QED
    BY <2>1, <2>2 DEF WarmIsNatural
<1>3. ASSUME NEW s \in Settings, UpdateSettings(s) PROVE WarmIsNatural'
  BY <1>3 DEF Announced, UpdateSettings, WarmIsNatural
<1>4. CASE PoolStep \/ BootRefused \/ StreamBreak \/ UNCHANGED vars
  BY <1>1, <1>4 DEF PoolStep, MaintainPool, BackoffOver, WatchEvaluate, BootRefused, StreamBreak, vars
<1>5. ASSUME NEW c \in Containers,
             \/ BootCreate(c) \/ BootLose(c) \/ BootAbandon(c) \/ BootStep(c)
             \/ JobEnds(c) \/ WorkerDies(c) \/ WatchDeath(c)
      PROVE  WarmIsNatural'
  BY <1>1, <1>5 DEF BootCreate, BootLose, BootAbandon, BootStep, BootStart, BootFail, EnterPool, BootCheck, BootReap, BootEvaluate,
                    BootAnnounce, JobEnds, WorkerDies, WatchDeath
<1>6. ASSUME NEW q \in Requests,
             CallerStep(q) \/ Cancel(q) \/ CancelWait(q) \/ \E r \in Runners : Request(q, r)
      PROVE  WarmIsNatural'
  BY <1>1, <1>6 DEF CallerStep, Wake, Vet, Discard, Register, Evaluate, DeliverToNobody, Deliver,
                    Abort, AbortEvaluate, KillWorker, Cancel, CancelWait, Request
<1> QED
  BY <1>2, <1>3, <1>4, <1>5, <1>6 DEF Next

WaitInv == Sound /\ NoIdleWorker /\ Demanded /\ WarmIsNatural

\* WaitInv holds at the start.
LEMMA InitWait == ASSUME Announced, Init PROVE WaitInv
<1>1. Sound /\ NoIdleWorker /\ Demanded
  BY DEF Init, Sound, NoIdleWorker, Demanded
<1>2. WarmIsNatural
  BY DEF Init, Announced, WarmIsNatural
<1> QED
  BY <1>1, <1>2 DEF WaitInv

\* At rest nothing boots and no worker is idle, so a caller that waits is
\* missing in the pool, and only a lack of room can be the reason.
LEMMA WaitMeansFull == ASSUME CountInv, WaitInv PROVE PendingMeansFull
<1> SUFFICES ASSUME AtRest, Waiting # {}, maxWorkers > 0 PROVE Cardinality(Active) >= maxWorkers
  <2>1. Cardinality(Active) \in Nat /\ maxWorkers \in Int
    BY SubsetCount DEF CountInv, TypeOK, Active
  <2> QED
    BY <2>1 DEF PendingMeansFull
<1>1. warmPool = {} /\ Cardinality(warmPool) = 0
  BY FS_EmptySet DEF CountInv, TypeOK, WaitInv, NoIdleWorker, AtRest
<1>2. bootingCount = 0
  <2>1. Booting = {}
    BY DEF AtRest, Booting
  <2> QED
    BY <2>1, FS_EmptySet DEF CountInv, BootingMatch, AtRest
<1>3. pendingAllocations \in Int /\ pendingAllocations > 0
  <2>1. IsFiniteSet(Waiting) /\ Cardinality(Waiting) \in Nat
    BY FiniteAssumption, FS_Subset, FS_CardinalityType DEF Waiting
  <2>2. Cardinality(Waiting) # 0
    BY <2>1, FS_EmptySet
  <2> QED
    BY <2>1, <2>2 DEF CountInv, WaitingMatch
<1>4. Cardinality(Active) \in Nat /\ maxWorkers \in Int /\ warmWorkersConfig \in Int
  BY SubsetCount DEF CountInv, TypeOK, Active
<1>5. warmWorkersConfig >= 0
  BY <1>4 DEF WaitInv, WarmIsNatural
<1>6. Shortfall > 0
  BY <1>1, <1>2, <1>3, <1>4, <1>5 DEF Shortfall
<1>7. Room =< 0
  BY <1>1, <1>2, <1>3, <1>4, <1>6 DEF WaitInv, Demanded, AtRest, Shortfall
<1> QED
  BY <1>1, <1>2, <1>4, <1>7 DEF Room

\* At rest nobody is left waiting below max_workers, for any number of callers
\* and containers, through failed boots, cancelled waits, lost events, restarts
\* and changes of the settings.
THEOREM PendingCorrect == ASSUME NamesKept, Announced PROVE Spec => []PendingMeansFull
<1>1. Init => WaitInv
  BY InitWait
<1>2. TrackInv /\ TypeOK' /\ JobInv /\ WaitInv /\ [Next]_vars => WaitInv'
  BY StepSound, StepNoIdle, StepDemanded, StepWarm DEF TrackInv, CountInv, WaitInv
<1>3. CountInv /\ WaitInv => PendingMeansFull
  BY WaitMeansFull
<1>4. "inspect" \notin Faults
  BY DEF Announced
<1>5. Spec => []TrackInv
  BY <1>4, TrackInvariant
<1>6. Spec => [](CountInv /\ JobInv)
  BY <1>4, JobInvariant
<1> QED
  BY <1>1, <1>2, <1>3, <1>5, <1>6, TypeCorrect, PTL DEF Spec
=============================================================================
