-------------------------- MODULE DeliveryPromise --------------------------
(***************************************************************************)
(* What Domain 10 promises about one notification delivery, whoever        *)
(* executes it: a delivery is tried only while it is queued, it goes back  *)
(* to the queue only when the provider has certainly not taken it, and a   *)
(* doubtful try is put in quarantine and never repeated.  So a recipient   *)
(* gets at most one copy of a message.                                     *)
(***************************************************************************)
EXTENDS Naturals

CONSTANTS Deliveries, MaxAttempts

VARIABLES
    phase,      \* where the delivery stands
    tries,      \* how often the provider was, or was about to be, called
    copies      \* copies the provider took

promise == <<phase, tries, copies>>

Phases == {"queued", "open", "accepted", "quarantined", "dead", "suppressed"}

Init ==
    /\ phase = [d \in Deliveries |-> "queued"]
    /\ tries = [d \in Deliveries |-> 0]
    /\ copies = [d \in Deliveries |-> 0]

Try(d) ==
    /\ phase[d] = "queued" /\ tries[d] < MaxAttempts
    /\ phase' = [phase EXCEPT ![d] = "open"]
    /\ tries' = [tries EXCEPT ![d] = @ + 1]
    /\ UNCHANGED copies

\* The provider may take a doubtful try after it was given up.
Take(d) ==
    /\ phase[d] \in {"open", "quarantined"} /\ copies[d] = 0
    /\ copies' = [copies EXCEPT ![d] = 1]
    /\ UNCHANGED <<phase, tries>>

Requeue(d) ==
    /\ phase[d] = "open" /\ copies[d] = 0 /\ tries[d] < MaxAttempts
    /\ phase' = [phase EXCEPT ![d] = "queued"]
    /\ UNCHANGED <<tries, copies>>

Accept(d) ==
    /\ phase[d] = "open" /\ copies[d] = 1
    /\ phase' = [phase EXCEPT ![d] = "accepted"]
    /\ UNCHANGED <<tries, copies>>

Bury(d) ==
    /\ phase[d] = "open"
    /\ phase' = [phase EXCEPT ![d] = "dead"]
    /\ UNCHANGED <<tries, copies>>

Suppress(d) ==
    /\ phase[d] = "queued" /\ copies[d] = 0
    /\ phase' = [phase EXCEPT ![d] = "suppressed"]
    /\ UNCHANGED <<tries, copies>>

\* One sweep may give up several doubtful tries.
Quarantine ==
    /\ \E S \in SUBSET {d \in Deliveries : phase[d] = "open"} :
         phase' = [d \in Deliveries |-> IF d \in S THEN "quarantined" ELSE phase[d]]
    /\ UNCHANGED <<tries, copies>>

Next ==
    \/ \E d \in Deliveries : \/ Try(d) \/ Take(d) \/ Requeue(d) \/ Accept(d)
                             \/ Bury(d) \/ Suppress(d)
    \/ Quarantine

Spec == Init /\ [][Next]_promise

=============================================================================
