------------------------- MODULE IncidentEscalation -------------------------
(***************************************************************************)
(* Slice 10D: a notification that needs an incident is activated once, its *)
(* escalation steps are claimed under leases, emitted as operational       *)
(* events into slice 10B and settled when their notifications have come to *)
(* rest, until somebody acknowledges or ends the incident.                 *)
(*                                                                         *)
(* One incident; every SQL function is one action.  Due times are the      *)
(* delay before a claim.  The loops whose work is a single transaction     *)
(* (activation, deadline, settlement) have no worker: a late one raises    *)
(* and changes nothing, and a dead one is a lease that lapses.  A row that *)
(* goes back to PENDING between the two UPDATEs of an acknowledgement is   *)
(* taken as one that goes back after it: neither is claimed again.         *)
(***************************************************************************)
EXTENDS Naturals, FiniteSets

CONSTANTS
    Steps,           \* steps of the frozen escalation plan
    NeedsAck,        \* steps with require_ack
    Repeats,         \* max_repeats of a step
    Workers,         \* escalation workers
    Targets,         \* statuses that people move the incident to
    MaxActivations,  \* activation attempts before FAILED_FINAL: 5
    MaxEmissions,    \* max_emission_attempts
    NoOne            \* NULL: no lease, no event

ASSUME EscalationAssumption ==
    /\ NeedsAck \subseteq Steps
    /\ Repeats \in Nat \ {0} /\ MaxActivations \in Nat \ {0} /\ MaxEmissions \in Nat \ {0}
    /\ NoOne \notin Workers \cup (Steps \X (1..Repeats))

Events == Steps \X (1..Repeats)
Over == {"RESOLVED", "CLOSED", "CANCELLED"}

VARIABLES
    activation, tries, overdue,   \* activation queue: state, attempt_count, lease over
    status, acked,                \* incidents.status; an ACK or OWN is on record
    deadline, late,               \* ack deadline: state, lease over
    runtime, repeat, cancel,      \* escalation runtime: state, next_repeat_number, cancel_requested
    owner, lapsed,                \* escalation runtime: lease owner, lease over
    emission, attempts, lease,    \* emissions: state, emission_attempt_count, settlement lease
    fate,                         \* the event in slices 10B and 10C
    afterStop,                    \* history: events accepted after the step was stopped
    todo, at, job                 \* a worker: claims left, place, event in hand

intake == <<activation, tries, overdue>>
incident == <<status, acked>>
timer == <<deadline, late>>
steps == <<runtime, repeat, cancel, owner, lapsed>>
emissions == <<emission, attempts, lease>>
outside == <<fate, afterStop>>
worker == <<todo, at, job>>
vars == <<intake, incident, timer, steps, emissions, outside, worker>>

Init ==
    /\ activation = "PENDING" /\ tries = 0 /\ overdue = FALSE
    /\ status = "none" /\ acked = FALSE
    /\ deadline = "none" /\ late = FALSE
    /\ runtime = [s \in Steps |-> "none"] /\ repeat = [s \in Steps |-> 1]
    /\ cancel = [s \in Steps |-> FALSE]
    /\ owner = [s \in Steps |-> NoOne] /\ lapsed = [s \in Steps |-> FALSE]
    /\ emission = [e \in Events |-> "none"] /\ attempts = [e \in Events |-> 0]
    /\ lease = [e \in Events |-> "free"]
    /\ fate = [e \in Events |-> "none"] /\ afterStop = {}
    /\ todo = [w \in Workers |-> {}] /\ at = [w \in Workers |-> "idle"]
    /\ job = [w \in Workers |-> NoOne]

-----------------------------------------------------------------------------
(* Activation.                                                             *)

ActivationFree == activation = "PENDING" \/ (activation = "CLAIMED" /\ overdue)

ClaimActivation ==
    /\ ActivationFree
    /\ activation' = "CLAIMED" /\ overdue' = FALSE
    /\ tries' = IF tries < MaxActivations THEN tries + 1 ELSE tries
    /\ UNCHANGED <<incident, timer, steps, emissions, outside, worker>>

\* activate_incident_from_notification_10d: the incident, its deadline when one is
\* required, and its plan when the policy has one; unbound steps are blocked.
ActivateIncident ==
    /\ activation = "CLAIMED" /\ ~overdue
    /\ activation' = "COMPLETED"
    /\ status' = "OPEN"
    /\ \E required \in BOOLEAN : deadline' = IF required THEN "PENDING" ELSE "none"
    /\ \/ UNCHANGED runtime
       \/ \E bound \in SUBSET Steps :
             runtime' = [s \in Steps |-> IF s \in bound THEN "PENDING" ELSE "BLOCKED_CONFIGURATION"]
    /\ UNCHANGED <<tries, overdue, acked, late, repeat, cancel, owner, lapsed, emissions, outside, worker>>

AfterFailure == IF tries >= MaxActivations THEN "FAILED_FINAL" ELSE "PENDING"

\* fail_incident_activation_10d does not ask for the time.
FailActivation ==
    /\ activation = "CLAIMED"
    /\ activation' = AfterFailure /\ overdue' = FALSE
    /\ UNCHANGED <<tries, incident, timer, steps, emissions, outside, worker>>

-----------------------------------------------------------------------------
(* People: commands and transitions of the incident.                       *)

\* The two UPDATEs of the runtimes that a command or a terminal transition makes.
Cancels(S) ==
    /\ runtime' = [s \in Steps |->
            IF s \in S /\ runtime[s] \in {"PENDING", "BLOCKED_CONFIGURATION"} THEN "CANCELLED" ELSE runtime[s]]
    /\ cancel' = [s \in Steps |->
            cancel[s] \/ (s \in S /\ runtime[s] \in {"PENDING", "BLOCKED_CONFIGURATION", "CLAIMED", "WAITING_SETTLEMENT"})]

Decided(d) ==
    IF deadline \in {"PENDING", "CLAIMED"}
    THEN deadline' = d /\ late' = FALSE ELSE UNCHANGED timer

\* apply_incident_command_10d with ACK or OWN; on an ended incident it is a NOOP.
Acknowledge ==
    /\ status \notin Over \cup {"none"}
    /\ acked' = TRUE
    /\ status' = IF status = "OPEN" THEN "ACKNOWLEDGED" ELSE status
    /\ Decided("SATISFIED")
    /\ Cancels(NeedsAck)
    /\ UNCHANGED <<intake, repeat, owner, lapsed, emissions, outside, worker>>

\* The transitions that the trigger of slice 10A lets pass.
Allowed == {<<"OPEN", "INVESTIGATING">>, <<"OPEN", "CANCELLED">>, <<"ACKNOWLEDGED", "INVESTIGATING">>,
            <<"ACKNOWLEDGED", "MITIGATED">>, <<"ACKNOWLEDGED", "CANCELLED">>, <<"INVESTIGATING", "MITIGATED">>,
            <<"INVESTIGATING", "RESOLVED">>, <<"INVESTIGATING", "CANCELLED">>, <<"MITIGATED", "INVESTIGATING">>,
            <<"MITIGATED", "RESOLVED">>, <<"MITIGATED", "CANCELLED">>, <<"RESOLVED", "CLOSED">>}

TransitionIncident(target) ==
    /\ <<status, target>> \in Allowed
    /\ status' = target
    /\ IF target \in Over THEN Decided("CANCELLED") /\ Cancels(Steps)
                          ELSE UNCHANGED <<timer, runtime, cancel>>
    /\ UNCHANGED <<intake, acked, repeat, owner, lapsed, emissions, outside, worker>>

-----------------------------------------------------------------------------
(* The acknowledgement deadline.                                           *)

Answered == Over \cup {"ACKNOWLEDGED"}

ClaimDeadline ==
    /\ deadline = "PENDING" \/ (deadline = "CLAIMED" /\ late)
    /\ deadline' = IF status \in Answered THEN "PENDING" ELSE "CLAIMED"
    /\ late' = FALSE
    /\ UNCHANGED <<intake, incident, steps, emissions, outside, worker>>

RecordBreach ==
    /\ deadline = "CLAIMED" /\ ~late
    /\ deadline' = IF status \in Answered \/ acked THEN "SATISFIED" ELSE "BREACHED"
    /\ UNCHANGED <<intake, incident, late, steps, emissions, outside, worker>>

-----------------------------------------------------------------------------
(* The escalation worker.                                                  *)

\* Mutant: acknowledgements are left to the cancellation of the rows.
StoppedByStatus(s) == status \in Over

\* The recheck that claim, prepare and settle share.
Stopped(s) == cancel[s] \/ status \in Over \/ (s \in NeedsAck /\ acked)

\* Mutant: claims that may not run again stay claimed.
SweptRunnable == {s \in Steps : runtime[s] = "CLAIMED" /\ lapsed[s] /\ ~cancel[s]}

Swept == {s \in Steps : runtime[s] = "CLAIMED" /\ lapsed[s]}

Claimable == {s \in Steps : (runtime[s] = "PENDING" \/ s \in Swept) /\ ~Stopped(s)}

ClaimDueEscalations(w) ==
    /\ at[w] = "idle" /\ todo[w] = {}
    /\ Swept \cup Claimable # {}
    /\ \E batch \in SUBSET Claimable :
        /\ Claimable # {} => batch # {}
        /\ runtime' = [s \in Steps |->
                IF s \in batch THEN "CLAIMED" ELSE IF s \in Swept THEN "PENDING" ELSE runtime[s]]
        /\ owner' = [s \in Steps |-> IF s \in batch THEN w ELSE IF s \in Swept THEN NoOne ELSE owner[s]]
        /\ lapsed' = [s \in Steps |-> lapsed[s] /\ s \notin Swept]
        /\ todo' = [todo EXCEPT ![w] = batch]
    /\ UNCHANGED <<intake, incident, timer, repeat, cancel, emissions, outside, at, job>>

Goes(w, place, e) == at' = [at EXCEPT ![w] = place] /\ job' = [job EXCEPT ![w] = e]

Owns(w, s) == runtime[s] = "CLAIMED" /\ owner[s] = w

\* The row leaves the lease for another state.
Leaves(s, new) ==
    /\ runtime' = [runtime EXCEPT ![s] = new]
    /\ owner' = [owner EXCEPT ![s] = NoOne] /\ lapsed' = [lapsed EXCEPT ![s] = FALSE]

Current(s) == <<s, repeat[s]>>

Exhausted(s) == attempts[Current(s)] >= MaxEmissions

\* prepare_escalation_emission_10d: a lost lease raises, outside the worker's try.
PrepareEmission(w) ==
    /\ at[w] = "idle"
    /\ \E s \in todo[w] :
        LET e == Current(s)
            Ends(new) == Leaves(s, new) /\ UNCHANGED <<at, job>>
            Holds == Owns(w, s) /\ ~lapsed[s]
        IN  /\ todo' = [todo EXCEPT ![w] = @ \ {s}]
            /\ \/ ~Holds /\ UNCHANGED <<steps, emissions, at, job>>
               \/ Holds /\ Stopped(s) /\ Ends("CANCELLED") /\ UNCHANGED emissions
               \/ Holds /\ ~Stopped(s) /\ Ends("BLOCKED_CONFIGURATION") /\ UNCHANGED emissions
               \/ /\ Holds /\ ~Stopped(s) /\ Exhausted(s)
                  /\ Ends("COMPLETE")
                  /\ emission' = [emission EXCEPT ![e] = "FAILED"] /\ UNCHANGED <<attempts, lease>>
               \/ /\ Holds /\ ~Stopped(s) /\ ~Exhausted(s)
                  /\ Goes(w, "prepared", e) /\ UNCHANGED <<runtime, owner, lapsed>>
                  /\ emission' = [emission EXCEPT ![e] = "PREPARED"]
                  /\ attempts' = [attempts EXCEPT ![e] = @ + 1] /\ UNCHANGED lease
    /\ UNCHANGED <<intake, incident, timer, repeat, cancel, outside>>

\* What people said of the incident, for the history.
Ended(s) == status \in Over \/ (s \in NeedsAck /\ acked)

\* acceptOperationalEvent: occurredAt is the time of the call, so slice 10B takes a
\* replay for another event under the same id and raises; the answer may be lost.
AcceptEvent(w) ==
    LET e == job[w] IN
    /\ at[w] = "prepared"
    /\ \/ /\ fate[e] = "none"
          /\ fate' = [fate EXCEPT ![e] = "undecided"]
          /\ afterStop' = IF Ended(e[1]) THEN afterStop \cup {e} ELSE afterStop
          /\ Goes(w, "accepted", e) \/ Goes(w, "failing", e)
       \/ Goes(w, "failing", e) /\ UNCHANGED outside
    /\ UNCHANGED <<intake, incident, timer, steps, emissions, todo>>

\* mark_escalation_event_emitted_10d, or "Escalation emission lease lost".
MarkEmitted(w) ==
    LET e == job[w]
        s == e[1]
    IN  /\ at[w] = "accepted"
        /\ IF Owns(w, s) /\ ~lapsed[s]
           THEN /\ emission' = [emission EXCEPT ![e] = "EMITTED"]
                /\ Leaves(s, "WAITING_SETTLEMENT")
                /\ Goes(w, "idle", NoOne)
           ELSE Goes(w, "failing", e) /\ UNCHANGED <<emission, runtime, owner, lapsed>>
        /\ UNCHANGED <<intake, incident, timer, repeat, cancel, attempts, lease, outside, todo>>

\* Mutant: the failure of a worker that lost its claim is recorded too.
MayFailAnyone(w, s) == TRUE

MayFail(w, s) == Owns(w, s)

\* fail_escalation_emission_10d does not ask for the time.
FailEmission(w) ==
    LET s == job[w][1]
        e == Current(s)
    IN  /\ at[w] = "failing"
        /\ IF MayFail(w, s)
           THEN /\ Leaves(s, IF Exhausted(s) THEN "COMPLETE" ELSE "PENDING")
                /\ emission' = IF Exhausted(s) /\ emission[e] = "PREPARED"
                               THEN [emission EXCEPT ![e] = "FAILED"] ELSE emission
           ELSE UNCHANGED <<runtime, owner, lapsed, emission>>
        /\ Goes(w, "idle", NoOne)
        /\ UNCHANGED <<intake, incident, timer, repeat, cancel, attempts, lease, outside, todo>>

Escalate(w) ==
    \/ ClaimDueEscalations(w) \/ PrepareEmission(w)
    \/ AcceptEvent(w) \/ MarkEmitted(w) \/ FailEmission(w)

-----------------------------------------------------------------------------
(* Settlement.                                                             *)

Out == {"EMITTED", "WAITING_DELIVERY"}

ClaimSettlement(e) ==
    /\ emission[e] \in Out /\ lease[e] # "held"
    /\ lease' = [lease EXCEPT ![e] = "held"]
    /\ UNCHANGED <<intake, incident, timer, steps, emission, attempts, outside, worker>>

\* Mutant: a notification with pending deliveries is settled.
AtRestDecided(e) == fate[e] \in {"pending", "rest"}

\* A decision that is no notification, or deliveries of which none is pending.
AtRest(e) == fate[e] = "rest"

\* settle_escalation_emission_10d answers PENDING.
SettleLater(e) ==
    /\ emission[e] \in Out /\ lease[e] = "held" /\ ~AtRest(e)
    /\ emission' = [emission EXCEPT ![e] = IF fate[e] = "undecided" THEN "EMITTED" ELSE "WAITING_DELIVERY"]
    /\ lease' = [lease EXCEPT ![e] = "free"]
    /\ UNCHANGED <<intake, incident, timer, steps, attempts, outside, worker>>

\* Mutant: one repeat more than the plan has.
MoreRepeatsAlways(s) == repeat[s] <= Repeats

MoreRepeats(s) == repeat[s] < Repeats

SettleEmission(e) ==
    LET s == e[1]
        more == ~Stopped(s) /\ MoreRepeats(s)
    IN  /\ emission[e] \in Out /\ lease[e] = "held" /\ AtRest(e)
        /\ emission' = [emission EXCEPT ![e] = "SETTLED"] /\ lease' = [lease EXCEPT ![e] = "free"]
        /\ Leaves(s, IF Stopped(s) THEN "CANCELLED" ELSE IF more THEN "PENDING" ELSE "COMPLETE")
        /\ repeat' = [repeat EXCEPT ![s] = IF more THEN @ + 1 ELSE @]
        /\ UNCHANGED <<intake, incident, timer, cancel, attempts, outside, worker>>

-----------------------------------------------------------------------------
(* Slices 10B and 10C, and faults.                                         *)

\* The event is decided and its deliveries come to rest, if ever: planning may give
\* up, and UNKNOWN_PROVIDER_OUTCOME, which no code of 10C leaves, counts as pending.
EventDecided(e) ==
    /\ fate[e] = "undecided"
    /\ \E f \in {"pending", "rest"} : fate' = [fate EXCEPT ![e] = f]
    /\ UNCHANGED <<intake, incident, timer, steps, emissions, afterStop, worker>>

DeliveriesRest(e) ==
    /\ fate[e] = "pending"
    /\ fate' = [fate EXCEPT ![e] = "rest"]
    /\ UNCHANGED <<intake, incident, timer, steps, emissions, afterStop, worker>>

WorkerDies(w) ==
    /\ at[w] # "idle" \/ todo[w] # {}
    /\ Goes(w, "idle", NoOne) /\ todo' = [todo EXCEPT ![w] = {}]
    /\ UNCHANGED <<intake, incident, timer, steps, emissions, outside>>

StepLapses(s) ==
    /\ runtime[s] = "CLAIMED" /\ ~lapsed[s] /\ lapsed' = [lapsed EXCEPT ![s] = TRUE]
    /\ UNCHANGED <<intake, incident, timer, runtime, repeat, cancel, owner, emissions, outside, worker>>

ActivationLapses ==
    /\ activation = "CLAIMED" /\ ~overdue /\ overdue' = TRUE
    /\ UNCHANGED <<activation, tries, incident, timer, steps, emissions, outside, worker>>

DeadlineLapses ==
    /\ deadline = "CLAIMED" /\ ~late /\ late' = TRUE
    /\ UNCHANGED <<intake, incident, deadline, steps, emissions, outside, worker>>

SettlementLapses(e) ==
    /\ lease[e] = "held" /\ lease' = [lease EXCEPT ![e] = "lapsed"]
    /\ UNCHANGED <<intake, incident, timer, steps, emission, attempts, outside, worker>>

People == Acknowledge \/ \E target \in Targets : TransitionIncident(target)

Activate == ClaimActivation \/ ActivateIncident \/ FailActivation

Watch == ClaimDeadline \/ RecordBreach

Settle(e) == ClaimSettlement(e) \/ SettleLater(e) \/ SettleEmission(e)

Lapse == ActivationLapses \/ DeadlineLapses \/ (\E e \in Events : SettlementLapses(e))

Next ==
    \/ Activate \/ People \/ Watch \/ Lapse
    \/ \E w \in Workers : Escalate(w) \/ WorkerDies(w)
    \/ \E s \in Steps : StepLapses(s)
    \/ \E e \in Events : Settle(e) \/ EventDecided(e) \/ DeliveriesRest(e)

Spec == Init /\ [][Next]_vars

-----------------------------------------------------------------------------
(* Properties.                                                             *)

\* The rows hold values of their columns and a worker is at one of its statements.
TypeOK ==
    /\ activation \in {"PENDING", "CLAIMED", "COMPLETED", "FAILED_FINAL"}
    /\ tries \in 0..MaxActivations /\ overdue \in BOOLEAN
    /\ status \in Over \cup {"none", "OPEN", "ACKNOWLEDGED", "INVESTIGATING", "MITIGATED"} /\ acked \in BOOLEAN
    /\ deadline \in {"none", "PENDING", "CLAIMED", "BREACHED", "SATISFIED", "CANCELLED"} /\ late \in BOOLEAN
    /\ runtime \in [Steps -> {"none", "PENDING", "CLAIMED", "WAITING_SETTLEMENT", "COMPLETE", "CANCELLED",
                              "BLOCKED_CONFIGURATION"}]
    /\ repeat \in [Steps -> 1..Repeats] /\ cancel \in [Steps -> BOOLEAN]
    /\ owner \in [Steps -> Workers \cup {NoOne}] /\ lapsed \in [Steps -> BOOLEAN]
    /\ emission \in [Events -> Out \cup {"none", "PREPARED", "SETTLED", "FAILED"}]
    /\ attempts \in [Events -> 0..MaxEmissions] /\ lease \in [Events -> {"free", "held", "lapsed"}]
    /\ fate \in [Events -> {"none", "undecided", "pending", "rest"}] /\ afterStop \subseteq Events
    /\ todo \in [Workers -> SUBSET Steps] /\ at \in [Workers -> {"idle", "prepared", "accepted", "failing"}]
    /\ job \in [Workers -> Events \cup {NoOne}]

\* After somebody acknowledged or ended the incident a step notifies at most once
\* more: the event that was already prepared when the command came.
AtMostOneAfterStop == \A s \in Steps : Cardinality({n \in 1..Repeats : <<s, n>> \in afterStop}) <= 1

\* A step waits for settlement exactly while its present emission is out, whatever
\* workers whose claim went to another still mark or fail.
WaitingIsOut ==
    \A s \in Steps : \A n \in 1..Repeats :
        emission[<<s, n>>] \in Out <=> runtime[s] = "WAITING_SETTLEMENT" /\ n = repeat[s]

\* A step repeats only after the notification of the repeat before came to rest.
RepeatsInOrder ==
    \A s \in Steps : \A n \in 1..Repeats :
        fate[<<s, n>>] # "none" => \A m \in 1..(n - 1) : fate[<<s, m>>] = "rest" /\ emission[<<s, m>>] = "SETTLED"

\* If an event was accepted before a crash, 10B returns the same event id on the
\* replay: an emission is not given up when its event was taken.
TakenIsNotFailed == \A e \in Events : emission[e] = "FAILED" => fate[e] = "none"

=============================================================================
