---------------------------- MODULE WorkerLease -----------------------------
(***************************************************************************)
(* What the orchestrator promises of a worker container, whatever pools,   *)
(* goroutines and events bring it about: it is offered once, leased to one *)
(* runner, and afterwards it is spent; only a new container is offered.    *)
(***************************************************************************)
CONSTANTS Containers, Runners, New, Offered, Spent   \* three values that are no runners

VARIABLE lease   \* New, Offered, the runner that has the container, or Spent

Init == lease = [c \in Containers |-> New]

\* The lifetime of one container.
Become(c, from, to) == lease[c] = from /\ lease' = [lease EXCEPT ![c] = to]

Offer(c)    == Become(c, New, Offered)
Abandon(c)  == Become(c, New, Spent)      \* it failed before it was offered
Lease(c, r) == Become(c, Offered, r)
Return(c)   == \E r \in Runners, end \in {Spent, New} : Become(c, r, end)
Expire(c)   == \E end \in {Spent, New} : Become(c, Offered, end)
Recycle(c)  == Become(c, Spent, New)      \* the ID stands for a container to come

\* A caller that holds a container that died trades it for an offered one.
Trade(c, d) ==
  \E r \in Runners, end \in {Spent, New} :
    /\ lease[c] = r /\ lease[d] = Offered
    /\ lease' = [lease EXCEPT ![c] = end, ![d] = r]

Next == \E c \in Containers :
  \/ Offer(c) \/ Abandon(c) \/ Return(c) \/ Expire(c) \/ Recycle(c)
  \/ \E r \in Runners : Lease(c, r)
  \/ \E d \in Containers : Trade(c, d)

Spec == Init /\ [][Next]_lease

\* A leased container comes back: its job ends, and the lease with it.
FairSpec == Spec /\ \A c \in Containers : WF_lease(Return(c))

TypeOK == lease \in [Containers -> {New, Offered, Spent} \cup Runners]
=============================================================================
