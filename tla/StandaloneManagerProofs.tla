---------------------- MODULE StandaloneManagerProofs -----------------------
(***************************************************************************)
(* What TLAPS proves of the standalone runners, for every number of        *)
(* runners, retries and workers and under every failure of the model: the  *)
(* types, that a runner shown Offline or Failed has no listener, that Halt *)
(* finds the listener the goroutine waits for, and that draining is final. *)
(***************************************************************************)
EXTENDS StandaloneManager, TLAPS

USE DEF tableVars, dataVars, monVars, processVars, stopVars, workerVars

\* The stages of the goroutine order everything else: a process exists only
\* from the spawn to the wait, a runner rests only while no goroutine will
\* write its state, and a retry is counted.
StageInv ==
  \A r \in Runners :
    /\ listener[r] # "none" => mon[r] \in {"install", "mark", "wait"}
    /\ state[r] \in {"None", "Offline", "Failed"} => mon[r] \in {"off", "clear"}
    /\ mon[r] \in {"mark", "wait"} => cmd[r]
    /\ mon[r] \in {"retry", "arm", "backoff"} => attempt[r] < MaxListenerRetries

IInv == TypeOK /\ StageInv

\* The initial state satisfies the inductive invariant.
LEMMA InitInv == Init => IInv
<1> SUFFICES ASSUME Init PROVE TypeOK /\ StageInv
  BY DEF IInv
<1>1. 0 \in 0 .. MaxListenerRetries /\ 0 \in 0 .. OtherBound
  BY LimitsAssumption
<1>2. TypeOK
  BY <1>1 DEF Init, TypeOK, MonStages
<1>3. StageInv
  BY DEF Init, StageInv
<1> QED
  BY <1>2, <1>3

\* SIGKILL leaves the process variables typed.
LEMMA KillType ==
  ASSUME TypeOK, NEW r \in Runners, Kill(r) \/ UNCHANGED processVars
  PROVE  /\ listener' \in [Runners -> {"none", "running", "frozen", "zombie"}]
         /\ cleanExit' \in [Runners -> BOOLEAN]
<1>1. CASE Kill(r) /\ Alive(r)
  BY <1>1 DEF TypeOK, Kill, Die
<1>2. CASE Kill(r) /\ ~Alive(r)
  BY <1>2 DEF TypeOK, Kill
<1>3. CASE UNCHANGED processVars
  BY <1>3 DEF TypeOK
<1> QED
  BY <1>1, <1>2, <1>3

\* The pauser leaves the table and the processes typed.
LEMMA PauseType ==
  ASSUME TypeOK, NEW active, LockOthers(active) \/ UnlockOthers
  PROVE  /\ state' \in [Runners -> States \cup {"None"}] /\ globalPaused' \in BOOLEAN
         /\ listener' \in [Runners -> {"none", "running", "frozen", "zombie"}]
<1>1. CASE LockOthers(active)
  BY <1>1 DEF TypeOK, LockOthers, States
<1>2. CASE UnlockOthers
  BY <1>2 DEF TypeOK, UnlockOthers, States
<1> QED
  BY <1>1, <1>2

\* Every step keeps the types; the retry counter is the only one that needs
\* the order of the stages.
LEMMA StepType == IInv /\ [Next]_vars => TypeOK'
<1> SUFFICES ASSUME IInv, [Next]_vars PROVE TypeOK'
  OBVIOUS
<1>1. ASSUME NEW r \in Runners, Start(r) PROVE TypeOK'
  BY <1>1, LimitsAssumption DEF IInv, TypeOK, StageInv, States, MonStages, Start
<1>2. ASSUME NEW r \in Runners, InitEnvironment(r) PROVE TypeOK'
  BY <1>2, LimitsAssumption DEF IInv, TypeOK, StageInv, States, MonStages, InitEnvironment
<1>3. ASSUME NEW r \in Runners, Spawn(r) PROVE TypeOK'
  BY <1>3, LimitsAssumption DEF IInv, TypeOK, StageInv, States, MonStages, Spawn
<1>4. ASSUME NEW r \in Runners, Install(r) PROVE TypeOK'
  BY <1>4, LimitsAssumption DEF IInv, TypeOK, StageInv, States, MonStages, Install, Alive
<1>5. ASSUME NEW r \in Runners, Mark(r) PROVE TypeOK'
  BY <1>5, LimitsAssumption DEF IInv, TypeOK, StageInv, States, MonStages, Mark, Transition
<1>6. ASSUME NEW r \in Runners, Wait(r) PROVE TypeOK'
  BY <1>6, LimitsAssumption DEF IInv, TypeOK, StageInv, States, MonStages, Wait
<1>7. ASSUME NEW r \in Runners, Decide(r) PROVE TypeOK'
  BY <1>7, LimitsAssumption DEF IInv, TypeOK, StageInv, States, MonStages, Decide
<1>8. ASSUME NEW r \in Runners, GoOffline(r) PROVE TypeOK'
  BY <1>8, LimitsAssumption DEF IInv, TypeOK, StageInv, States, MonStages, GoOffline, Transition
<1>9. ASSUME NEW r \in Runners, Clear(r) PROVE TypeOK'
  BY <1>9, LimitsAssumption DEF IInv, TypeOK, StageInv, States, MonStages, Clear
<1>10. ASSUME NEW r \in Runners, Retry(r) PROVE TypeOK'
  BY <1>10, LimitsAssumption DEF IInv, TypeOK, StageInv, States, MonStages, Retry, Transition
<1>11. ASSUME NEW r \in Runners, Arm(r) PROVE TypeOK'
  BY <1>11, LimitsAssumption DEF IInv, TypeOK, StageInv, States, MonStages, Arm
<1>12. ASSUME NEW r \in Runners, BackoffOver(r) PROVE TypeOK'
  BY <1>12, LimitsAssumption DEF IInv, TypeOK, StageInv, States, MonStages, BackoffOver
<1>13. ASSUME NEW r \in Runners, BackoffCancelled(r) PROVE TypeOK'
  BY <1>13, LimitsAssumption DEF IInv, TypeOK, StageInv, States, MonStages, BackoffCancelled, Transition
<1>14. ASSUME NEW r \in Runners, LaunchFails(r) PROVE TypeOK'
  BY <1>14, LimitsAssumption DEF IInv, TypeOK, StageInv, States, MonStages, LaunchFails
<1>15. ASSUME NEW r \in Runners, RespawnFails(r) PROVE TypeOK'
  BY <1>15, LimitsAssumption DEF IInv, TypeOK, StageInv, States, MonStages, RespawnFails, Transition
<1>16. ASSUME NEW r \in Runners, Stop(r) PROVE TypeOK'
  BY <1>16, LimitsAssumption DEF IInv, TypeOK, StageInv, States, MonStages, Stop
<1>17. ASSUME NEW r \in Runners, HaltIdle(r) PROVE TypeOK'
  BY <1>17, LimitsAssumption DEF IInv, TypeOK, StageInv, States, MonStages, HaltIdle
<1>18. ASSUME NEW r \in Runners, HaltKill(r) PROVE TypeOK'
  BY <1>18, KillType DEF IInv, TypeOK, MonStages, HaltKill
<1>19. ASSUME NEW r \in Runners, HaltInterrupt(r) PROVE TypeOK'
  BY <1>19, LimitsAssumption DEF IInv, TypeOK, StageInv, States, MonStages, HaltInterrupt
<1>20. ASSUME NEW r \in Runners, PollSeesOffline(r) PROVE TypeOK'
  BY <1>20, LimitsAssumption DEF IInv, TypeOK, StageInv, States, MonStages, PollSeesOffline
<1>21. ASSUME NEW r \in Runners, PollTimeout(r) PROVE TypeOK'
  BY <1>21, KillType DEF IInv, TypeOK, MonStages, PollTimeout
<1>22. ASSUME NEW r \in Runners, ListenerExits(r) PROVE TypeOK'
  BY <1>22, LimitsAssumption DEF IInv, TypeOK, StageInv, States, MonStages, ListenerExits, Die
<1>23. ASSUME NEW r \in Runners, JobArrives(r) PROVE TypeOK'
  BY <1>23, LimitsAssumption DEF IInv, TypeOK, StageInv, States, MonStages, JobArrives
<1>24. ASSUME NEW r \in Runners, Register(r) PROVE TypeOK'
  BY <1>24, LimitsAssumption DEF IInv, TypeOK, StageInv, States, MonStages, Register
<1>25. ASSUME NEW r \in Runners, Withdraw(r) PROVE TypeOK'
  BY <1>25, LimitsAssumption DEF IInv, TypeOK, StageInv, States, MonStages, Withdraw
<1>26. ASSUME NEW r \in Runners, MarkBusy(r) PROVE TypeOK'
  BY <1>26, LimitsAssumption DEF IInv, TypeOK, StageInv, States, MonStages, MarkBusy
<1>27. ASSUME NEW r \in Runners, MarkIdle(r) PROVE TypeOK'
  BY <1>27, LimitsAssumption DEF IInv, TypeOK, StageInv, States, MonStages, MarkIdle
<1>28. CASE OthersChange
  BY <1>28, LimitsAssumption DEF IInv, TypeOK, StageInv, States, MonStages, OthersChange
<1>29. CASE EvaluateCapacity
  <2>1. /\ state' \in [Runners -> States \cup {"None"}] /\ globalPaused' \in BOOLEAN
        /\ listener' \in [Runners -> {"none", "running", "frozen", "zombie"}]
    BY <1>29, PauseType DEF IInv, TypeOK, EvaluateCapacity
  <2> QED
    BY <1>29, <2>1 DEF IInv, TypeOK, MonStages, EvaluateCapacity
<1>30. CASE UNCHANGED vars
  BY <1>30 DEF IInv, TypeOK, StageInv, States, MonStages, vars
<1> QED
  BY <1>1, <1>2, <1>3, <1>4, <1>5, <1>6, <1>7, <1>8, <1>9, <1>10, <1>11, <1>12,
     <1>13, <1>14, <1>15, <1>16, <1>17, <1>18, <1>19, <1>20, <1>21, <1>22, <1>23, <1>24,
     <1>25, <1>26, <1>27, <1>28, <1>29, <1>30
     DEF Next, MonStep, MonFails, HaltStep, WorkerStep

\* Every step keeps the order of the stages.
LEMMA StepStage == IInv /\ [Next]_vars => StageInv'
<1> SUFFICES ASSUME IInv, [Next]_vars PROVE StageInv'
  OBVIOUS
<1>1. ASSUME NEW r \in Runners, Start(r) PROVE StageInv'
  BY <1>1, LimitsAssumption DEF IInv, TypeOK, StageInv, States, MonStages, Start
<1>2. ASSUME NEW r \in Runners, InitEnvironment(r) PROVE StageInv'
  BY <1>2, LimitsAssumption DEF IInv, TypeOK, StageInv, States, MonStages, InitEnvironment
<1>3. ASSUME NEW r \in Runners, Spawn(r) PROVE StageInv'
  BY <1>3, LimitsAssumption DEF IInv, TypeOK, StageInv, States, MonStages, Spawn
<1>4. ASSUME NEW r \in Runners, Install(r) PROVE StageInv'
  BY <1>4, LimitsAssumption DEF IInv, TypeOK, StageInv, States, MonStages, Install, Alive
<1>5. ASSUME NEW r \in Runners, Mark(r) PROVE StageInv'
  BY <1>5, LimitsAssumption DEF IInv, TypeOK, StageInv, States, MonStages, Mark, Transition
<1>6. ASSUME NEW r \in Runners, Wait(r) PROVE StageInv'
  BY <1>6, LimitsAssumption DEF IInv, TypeOK, StageInv, States, MonStages, Wait
<1>7. ASSUME NEW r \in Runners, Decide(r) PROVE StageInv'
  BY <1>7, LimitsAssumption DEF IInv, TypeOK, StageInv, States, MonStages, Decide
<1>8. ASSUME NEW r \in Runners, GoOffline(r) PROVE StageInv'
  BY <1>8, LimitsAssumption DEF IInv, TypeOK, StageInv, States, MonStages, GoOffline, Transition
<1>9. ASSUME NEW r \in Runners, Clear(r) PROVE StageInv'
  BY <1>9, LimitsAssumption DEF IInv, TypeOK, StageInv, States, MonStages, Clear
<1>10. ASSUME NEW r \in Runners, Retry(r) PROVE StageInv'
  BY <1>10, LimitsAssumption DEF IInv, TypeOK, StageInv, States, MonStages, Retry, Transition
<1>11. ASSUME NEW r \in Runners, Arm(r) PROVE StageInv'
  BY <1>11, LimitsAssumption DEF IInv, TypeOK, StageInv, States, MonStages, Arm
<1>12. ASSUME NEW r \in Runners, BackoffOver(r) PROVE StageInv'
  BY <1>12, LimitsAssumption DEF IInv, TypeOK, StageInv, States, MonStages, BackoffOver
<1>13. ASSUME NEW r \in Runners, BackoffCancelled(r) PROVE StageInv'
  BY <1>13, LimitsAssumption DEF IInv, TypeOK, StageInv, States, MonStages, BackoffCancelled, Transition
<1>14. ASSUME NEW r \in Runners, LaunchFails(r) PROVE StageInv'
  BY <1>14, LimitsAssumption DEF IInv, TypeOK, StageInv, States, MonStages, LaunchFails
<1>15. ASSUME NEW r \in Runners, RespawnFails(r) PROVE StageInv'
  BY <1>15, LimitsAssumption DEF IInv, TypeOK, StageInv, States, MonStages, RespawnFails, Transition
<1>16. ASSUME NEW r \in Runners, Stop(r) PROVE StageInv'
  BY <1>16, LimitsAssumption DEF IInv, TypeOK, StageInv, States, MonStages, Stop
<1>17. ASSUME NEW r \in Runners, HaltIdle(r) PROVE StageInv'
  BY <1>17, LimitsAssumption DEF IInv, TypeOK, StageInv, States, MonStages, HaltIdle
<1>18. ASSUME NEW r \in Runners, HaltKill(r) PROVE StageInv'
  BY <1>18, LimitsAssumption DEF IInv, TypeOK, StageInv, States, MonStages, HaltKill, Kill, Die, Alive
<1>19. ASSUME NEW r \in Runners, HaltInterrupt(r) PROVE StageInv'
  BY <1>19, LimitsAssumption DEF IInv, TypeOK, StageInv, States, MonStages, HaltInterrupt
<1>20. ASSUME NEW r \in Runners, PollSeesOffline(r) PROVE StageInv'
  BY <1>20, LimitsAssumption DEF IInv, TypeOK, StageInv, States, MonStages, PollSeesOffline
<1>21. ASSUME NEW r \in Runners, PollTimeout(r) PROVE StageInv'
  BY <1>21, LimitsAssumption DEF IInv, TypeOK, StageInv, States, MonStages, PollTimeout, Kill, Die, Alive
<1>22. ASSUME NEW r \in Runners, ListenerExits(r) PROVE StageInv'
  BY <1>22, LimitsAssumption DEF IInv, TypeOK, StageInv, States, MonStages, ListenerExits, Die
<1>23. ASSUME NEW r \in Runners, JobArrives(r) PROVE StageInv'
  BY <1>23, LimitsAssumption DEF IInv, TypeOK, StageInv, States, MonStages, JobArrives
<1>24. ASSUME NEW r \in Runners, Register(r) PROVE StageInv'
  BY <1>24, LimitsAssumption DEF IInv, TypeOK, StageInv, States, MonStages, Register
<1>25. ASSUME NEW r \in Runners, Withdraw(r) PROVE StageInv'
  BY <1>25, LimitsAssumption DEF IInv, TypeOK, StageInv, States, MonStages, Withdraw
<1>26. ASSUME NEW r \in Runners, MarkBusy(r) PROVE StageInv'
  BY <1>26, LimitsAssumption DEF IInv, TypeOK, StageInv, States, MonStages, MarkBusy
<1>27. ASSUME NEW r \in Runners, MarkIdle(r) PROVE StageInv'
  BY <1>27, LimitsAssumption DEF IInv, TypeOK, StageInv, States, MonStages, MarkIdle
<1>28. CASE OthersChange
  BY <1>28, LimitsAssumption DEF IInv, TypeOK, StageInv, States, MonStages, OthersChange
<1>29. CASE EvaluateCapacity
  BY <1>29, LimitsAssumption DEF IInv, TypeOK, StageInv, States, MonStages, EvaluateCapacity, LockOthers, UnlockOthers, Alive
<1>30. CASE UNCHANGED vars
  BY <1>30 DEF IInv, TypeOK, StageInv, States, MonStages, vars
<1> QED
  BY <1>1, <1>2, <1>3, <1>4, <1>5, <1>6, <1>7, <1>8, <1>9, <1>10, <1>11, <1>12,
     <1>13, <1>14, <1>15, <1>16, <1>17, <1>18, <1>19, <1>20, <1>21, <1>22, <1>23, <1>24,
     <1>25, <1>26, <1>27, <1>28, <1>29, <1>30
     DEF Next, MonStep, MonFails, HaltStep, WorkerStep

\* IInv is an invariant of the standalone runners.
LEMMA StageInvariant == Spec => []IInv
<1>1. IInv /\ [Next]_vars => IInv'
  BY StepType, StepStage DEF IInv
<1> QED
  BY <1>1, InitInv, PTL DEF Spec

\* Every reachable state is typed; no listener is retried more often than
\* maxListenerRetries allows.
THEOREM TypeCorrect == Spec => []TypeOK
<1>1. IInv => TypeOK
  BY DEF IInv
<1> QED
  BY <1>1, StageInvariant, PTL

\* Whatever races a stop, a retry or a pause, a runner shown Offline or Failed
\* has no process left: a new start never runs beside an old listener.
THEOREM OfflineCorrect == Spec => []OfflineMeansGone
<1>1. IInv => OfflineMeansGone
  BY DEF IInv, StageInv, TypeOK, OfflineMeansGone
<1> QED
  BY <1>1, StageInvariant, PTL

\* Halt finds every listener that the goroutine waits for.
THEOREM ReachableCorrect == Spec => []LiveIsReachable
<1>1. IInv => LiveIsReachable
  BY DEF IInv, StageInv, LiveIsReachable
<1> QED
  BY <1>1, StageInvariant, PTL

-----------------------------------------------------------------------------
(* Draining.  Most writers of the state go through validTransitions, and    *)
(* MarkBusy, MarkIdle, LockOthers and UnlockOthers test for another state.  *)

OnlyEnds == \A r \in Runners : state[r] = "Draining" => state'[r] \in {"Draining", "Offline", "Failed"}

\* The table lets a draining runner go Offline, and nowhere else.
LEMMA DrainingTable == validTransitions["Draining"] = {"Offline"}
  BY DEF validTransitions

\* No step takes a stop back.
LEMMA StepDraining == TypeOK /\ [Next]_vars => OnlyEnds
<1> SUFFICES ASSUME TypeOK, [Next]_vars PROVE OnlyEnds
  OBVIOUS
<1>1. ASSUME NEW r \in Runners, Start(r) PROVE OnlyEnds
  BY <1>1, DrainingTable DEF TypeOK, OnlyEnds, Start
<1>2. ASSUME NEW r \in Runners, InitEnvironment(r) PROVE OnlyEnds
  BY <1>2, DrainingTable DEF TypeOK, OnlyEnds, InitEnvironment
<1>3. ASSUME NEW r \in Runners, Spawn(r) PROVE OnlyEnds
  BY <1>3, DrainingTable DEF TypeOK, OnlyEnds, Spawn
<1>4. ASSUME NEW r \in Runners, Install(r) PROVE OnlyEnds
  BY <1>4, DrainingTable DEF TypeOK, OnlyEnds, Install, Alive
<1>5. ASSUME NEW r \in Runners, Mark(r) PROVE OnlyEnds
  BY <1>5, DrainingTable DEF TypeOK, OnlyEnds, Mark, Transition
<1>6. ASSUME NEW r \in Runners, Wait(r) PROVE OnlyEnds
  BY <1>6, DrainingTable DEF TypeOK, OnlyEnds, Wait
<1>7. ASSUME NEW r \in Runners, Decide(r) PROVE OnlyEnds
  BY <1>7, DrainingTable DEF TypeOK, OnlyEnds, Decide
<1>8. ASSUME NEW r \in Runners, GoOffline(r) PROVE OnlyEnds
  BY <1>8, DrainingTable DEF TypeOK, OnlyEnds, GoOffline, Transition
<1>9. ASSUME NEW r \in Runners, Clear(r) PROVE OnlyEnds
  BY <1>9, DrainingTable DEF TypeOK, OnlyEnds, Clear
<1>10. ASSUME NEW r \in Runners, Retry(r) PROVE OnlyEnds
  BY <1>10, DrainingTable DEF TypeOK, OnlyEnds, Retry, Transition
<1>11. ASSUME NEW r \in Runners, Arm(r) PROVE OnlyEnds
  BY <1>11, DrainingTable DEF TypeOK, OnlyEnds, Arm
<1>12. ASSUME NEW r \in Runners, BackoffOver(r) PROVE OnlyEnds
  BY <1>12, DrainingTable DEF TypeOK, OnlyEnds, BackoffOver
<1>13. ASSUME NEW r \in Runners, BackoffCancelled(r) PROVE OnlyEnds
  BY <1>13, DrainingTable DEF TypeOK, OnlyEnds, BackoffCancelled, Transition
<1>14. ASSUME NEW r \in Runners, LaunchFails(r) PROVE OnlyEnds
  BY <1>14, DrainingTable DEF TypeOK, OnlyEnds, LaunchFails
<1>15. ASSUME NEW r \in Runners, RespawnFails(r) PROVE OnlyEnds
  BY <1>15, DrainingTable DEF TypeOK, OnlyEnds, RespawnFails, Transition
<1>16. ASSUME NEW r \in Runners, Stop(r) PROVE OnlyEnds
  BY <1>16, DrainingTable DEF TypeOK, OnlyEnds, Stop
<1>17. ASSUME NEW r \in Runners, HaltIdle(r) PROVE OnlyEnds
  BY <1>17, DrainingTable DEF TypeOK, OnlyEnds, HaltIdle
<1>18. ASSUME NEW r \in Runners, HaltKill(r) PROVE OnlyEnds
  BY <1>18, DrainingTable DEF TypeOK, OnlyEnds, HaltKill, Kill, Die, Alive
<1>19. ASSUME NEW r \in Runners, HaltInterrupt(r) PROVE OnlyEnds
  BY <1>19, DrainingTable DEF TypeOK, OnlyEnds, HaltInterrupt
<1>20. ASSUME NEW r \in Runners, PollSeesOffline(r) PROVE OnlyEnds
  BY <1>20, DrainingTable DEF TypeOK, OnlyEnds, PollSeesOffline
<1>21. ASSUME NEW r \in Runners, PollTimeout(r) PROVE OnlyEnds
  BY <1>21, DrainingTable DEF TypeOK, OnlyEnds, PollTimeout, Kill, Die, Alive
<1>22. ASSUME NEW r \in Runners, ListenerExits(r) PROVE OnlyEnds
  BY <1>22, DrainingTable DEF TypeOK, OnlyEnds, ListenerExits, Die
<1>23. ASSUME NEW r \in Runners, JobArrives(r) PROVE OnlyEnds
  BY <1>23, DrainingTable DEF TypeOK, OnlyEnds, JobArrives
<1>24. ASSUME NEW r \in Runners, Register(r) PROVE OnlyEnds
  BY <1>24, DrainingTable DEF TypeOK, OnlyEnds, Register
<1>25. ASSUME NEW r \in Runners, Withdraw(r) PROVE OnlyEnds
  BY <1>25, DrainingTable DEF TypeOK, OnlyEnds, Withdraw
<1>26. ASSUME NEW r \in Runners, MarkBusy(r) PROVE OnlyEnds
  BY <1>26, DrainingTable DEF TypeOK, OnlyEnds, MarkBusy
<1>27. ASSUME NEW r \in Runners, MarkIdle(r) PROVE OnlyEnds
  BY <1>27, DrainingTable DEF TypeOK, OnlyEnds, MarkIdle
<1>28. CASE OthersChange
  BY <1>28, DrainingTable DEF TypeOK, OnlyEnds, OthersChange
<1>29. CASE EvaluateCapacity
  BY <1>29, DrainingTable DEF TypeOK, OnlyEnds, EvaluateCapacity, LockOthers, UnlockOthers, Alive
<1>30. CASE UNCHANGED vars
  BY <1>30 DEF TypeOK, OnlyEnds, vars
<1> QED
  BY <1>1, <1>2, <1>3, <1>4, <1>5, <1>6, <1>7, <1>8, <1>9, <1>10, <1>11, <1>12,
     <1>13, <1>14, <1>15, <1>16, <1>17, <1>18, <1>19, <1>20, <1>21, <1>22, <1>23, <1>24,
     <1>25, <1>26, <1>27, <1>28, <1>29, <1>30
     DEF Next, MonStep, MonFails, HaltStep, WorkerStep

\* A stop is final: a draining runner only moves to its end.
THEOREM DrainingCorrect == Spec => DrainingIsFinal
<1>1. TypeOK /\ [Next]_vars => [OnlyEnds]_vars
  BY StepDraining
<1>2. [][OnlyEnds]_vars => DrainingIsFinal
  BY PTL DEF DrainingIsFinal, OnlyEnds
<1> QED
  BY <1>1, <1>2, TypeCorrect, PTL DEF Spec
=============================================================================
