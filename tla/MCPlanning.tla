----------------------------- MODULE MCPlanning -----------------------------
(***************************************************************************)
(* The specification under which every event is planned.  A fault is a     *)
(* dead planner or a lease that ends under a live one; there are finitely  *)
(* many.  Planning itself may fail as often as it likes: the attempts are  *)
(* counted.  The service loop claims for ever and clocks do not stop.      *)
(***************************************************************************)
EXTENDS EventPlanning

CONSTANTS e1, e2, w1, w2

\* The first rule suppresses the event, the second its e-mail.
RuleScope == <<Everything, "EMAIL">>

UnderWork(e) == \E w \in Workers : owner[e] = w /\ (e \in todo[w] \/ e = job[w])

OrphanLapses(e) == ~UnderWork(e) /\ LeaseLapses(e)

\* The steps that are no faults.
Ordinary ==
    \/ \E w \in Workers : Plan(w)
    \/ \E e \in Events : IngestOperationalEvent(e) \/ BecomesDue(e) \/ OrphanLapses(e)

FairSpec ==
    /\ Spec
    /\ <>[][Ordinary]_vars
    /\ \A w \in Workers : WF_vars(Plan(w))
    /\ \A e \in Events : WF_vars(BecomesDue(e)) /\ WF_vars(OrphanLapses(e))

\* No accepted event is forgotten: in the end it is decided, or an attempt that
\* gave it up for good is on record, however planners die and race.
EveryEventSettles ==
    \A e \in Events : state[e] = "PENDING" ~> decision[e] # "none" \/ e \in dropped

=============================================================================
