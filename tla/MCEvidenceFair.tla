------------------------- MODULE MCEvidenceFair ---------------------------
(***************************************************************************)
(* The specification under which reconciliation tasks reach review:        *)
(* processes are restarted, leases run out, and only finitely often does a *)
(* process fail, or lose a lease, under its batch.                         *)
(***************************************************************************)
EXTENDS DeliveryEvidence

CONSTANTS d1, d2, t1, t2, t3, r1, r2

UnderWork(d) == \E w \in Workers : taskOwner[d] = w /\ d \in todo[w]

OrphanExpires(d) == ~UnderWork(d) /\ LeaseExpires(d)

\* The steps that are no faults.
Ordinary ==
    \/ \E d \in Deliveries : Accepted(d) \/ Doubtful(d) \/ GivenUp(d) \/ OrphanExpires(d)
    \/ \E d \in Deliveries, s \in {"RESOLVED", "CANCELLED"} : Resolve(d, s)
    \/ \E e \in Events : Webhook(e)
    \/ \E w \in Workers : Work(w)

\* The events are interchangeable: name them in the order of their time.
InitInOrder == Init /\ says[t1].at <= says[t2].at /\ says[t2].at <= says[t3].at

FairSpec ==
    /\ InitInOrder /\ [][Next]_vars
    /\ <>[][Ordinary]_vars
    /\ \A w \in Workers : WF_vars(Work(w))
    /\ \A d \in Deliveries : WF_vars(OrphanExpires(d))

\* Every doubtful delivery with a task is put before a reviewer (or resolved
\* first), although a dead process or a lost lease leaves what it claimed claimed,
\* and a conflicting event takes a task back from the worker that claimed it.
EveryTaskSurfaces ==
    \A d \in Deliveries :
        task[d] = "PENDING" ~> task[d] \in {"MANUAL_REVIEW_REQUIRED", "RESOLVED", "CANCELLED"}

=============================================================================
