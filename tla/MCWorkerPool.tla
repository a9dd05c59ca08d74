---------------------------- MODULE MCWorkerPool ----------------------------
(***************************************************************************)
(* Instances of WorkerPool for TLC: the settings and the failures of each  *)
(* run are chosen in its cfg.                                              *)
(***************************************************************************)
EXTENDS WorkerPool, TLC

\* <<max_workers, warm_workers>>
OneSlot   == {<<1, 0>>}
OneWarm   == {<<1, 1>>}
TwoSlots  == {<<2, 1>>}
Resizing  == {<<1, 1>>, <<2, 0>>}

\* Containers are interchangeable; so are the slots of callers.
Symmetry == Permutations(Containers) \cup Permutations(Requests)
=============================================================================
