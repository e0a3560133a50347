----------------------------- MODULE MCCompFair -----------------------------
(***************************************************************************)
(* The specification under which listings settle.  A fault is a dead       *)
(* process, a lost answer, a failed statement or a lock that gets older    *)
(* under a live process; there are finitely many.  The process manager     *)
(* restarts the loops, the loops never end, and clocks do not stop.        *)
(***************************************************************************)
EXTENDS MCCompPipeline

OrphanAges(l) == ~UnderWork(l) /\ GetsOlder(l)

\* The steps that are no faults.
Ordinary ==
    \/ \E w \in Workers : Work(w)
    \/ \E r \in Retriers : Retry(r)
    \/ \E l \in Listings : OrphanAges(l) \/ BecomesDue(l) \/ AuctionEnds(l) \/ RecoverCandidate(l)

FairSpec ==
    /\ Spec
    /\ <>[][Ordinary]_vars
    /\ \A w \in Workers : WF_vars(Work(w))
    /\ \A r \in Retriers : WF_vars(Retry(r))
    /\ \A l \in Listings : WF_vars(OrphanAges(l)) /\ WF_vars(BecomesDue(l))

\* Every listing whose auction goes on is completed or dead-lettered in the end,
\* although claims, retries and the stale sweep keep passing it around.
EveryListingSettles ==
    \A l \in Listings :
        TRUE ~> status[l] \in {"completed", "dead_letter"} \/ l \in ended

=============================================================================
