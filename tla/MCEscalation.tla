---------------------------- MODULE MCEscalation ----------------------------
(***************************************************************************)
(* The specification under which an unanswered incident is escalated as    *)
(* far as its notifications allow.  A fault is a dead worker or a lease    *)
(* that ends under a live one, and there are finitely many.  Nothing is    *)
(* assumed of slices 10B and 10C: planning may give an event up without a  *)
(* decision, and a delivery may stay in UNKNOWN_PROVIDER_OUTCOME, which    *)
(* settlement counts as pending, for ever.                                 *)
(***************************************************************************)
EXTENDS IncidentEscalation

CONSTANTS w1, w2

UnderWork(s) == \E w \in Workers : owner[s] = w /\ (s \in todo[w] \/ (job[w] # NoOne /\ job[w][1] = s))

OrphanLapses(s) == ~UnderWork(s) /\ StepLapses(s)

\* The steps that are no faults.
Ordinary ==
    \/ Activate \/ People \/ Watch
    \/ \E w \in Workers : Escalate(w)
    \/ \E s \in Steps : OrphanLapses(s)
    \/ \E e \in Events : Settle(e) \/ EventDecided(e) \/ DeliveriesRest(e)

FairSpec ==
    /\ Spec
    /\ <>[][Ordinary]_vars
    /\ WF_vars(ClaimActivation \/ ActivateIncident) /\ WF_vars(Watch)
    /\ \A w \in Workers : WF_vars(Escalate(w))
    /\ \A s \in Steps : WF_vars(OrphanLapses(s))
    /\ \A e \in Events : WF_vars(Settle(e))

ActivationSettles == activation = "PENDING" ~> activation \in {"COMPLETED", "FAILED_FINAL"}

DeadlineDecided == deadline = "PENDING" ~> deadline \in {"BREACHED", "SATISFIED", "CANCELLED"}

\* What a step may rest at: its end, an answered incident, or a notification that
\* slice 10B has not decided or slice 10C has not brought to rest.
AwaitsDelivery(s) == runtime[s] = "WAITING_SETTLEMENT" /\ ~AtRest(Current(s))

StepsGoOn ==
    \A s \in Steps :
        runtime[s] \in {"PENDING", "CLAIMED", "WAITING_SETTLEMENT"} ~>
            \/ runtime[s] \in {"COMPLETE", "CANCELLED", "BLOCKED_CONFIGURATION"}
            \/ runtime[s] = "PENDING" /\ Stopped(s)
            \/ AwaitsDelivery(s)

\* Whatever crashed, nothing is left claimed or waiting for ever within the slice: a
\* notification gets its incident or is given up on record, an acknowledgement
\* deadline is decided, and a step goes on whenever its notification is at rest, to
\* its end unless somebody answers or ends the incident.
NothingStrands == ActivationSettles /\ DeadlineDecided /\ StepsGoOn

=============================================================================
