----------------------- MODULE IncidentEscalation_proof -----------------------
(***************************************************************************)
(* Proofs about IncidentEscalation for any steps, repeats, workers and     *)
(* attempts.                                                               *)
(*                                                                         *)
(* The number of the present repeat orders everything: the repeats before  *)
(* it came to rest, those after it have no event yet, and whoever works on *)
(* a step works on a repeat up to it.  A worker that is late can be told   *)
(* from the one that holds the claim only by the owner of the row; the     *)
(* holder works on the present repeat.                                     *)
(***************************************************************************)
EXTENDS IncidentEscalation, FiniteSetTheorems, TLAPS

\* Nothing is planned before the incident exists.
PlannedOnceActive ==
    activation # "COMPLETED" => status = "none" /\ \A s \in Steps : runtime[s] = "none"

\* The repeats before the present one are done, those after it not begun.
InOrder(s) ==
    \A n \in 1..Repeats :
        /\ n < repeat[s] => fate[<<s, n>>] = "rest" /\ emission[<<s, n>>] = "SETTLED"
        /\ n > repeat[s] => fate[<<s, n>>] = "none"

\* A worker with an event in hand; the one that holds the claim prepared the present repeat.
Holding(w) ==
    at[w] # "idle" =>
        /\ job[w] \in Events
        /\ job[w][2] <= repeat[job[w][1]]
        /\ Owns(w, job[w][1]) => job[w] = Current(job[w][1]) /\ emission[job[w]] = "PREPARED"

\* An event that came after the stop is of the repeat at which the step stopped.
StoppedThere == \A e \in afterStop : Ended(e[1]) /\ e[2] = repeat[e[1]]

IInv ==
    /\ TypeOK /\ PlannedOnceActive /\ WaitingIsOut /\ StoppedThere
    /\ \A s \in Steps : InOrder(s)
    /\ \A w \in Workers : Holding(w)

-----------------------------------------------------------------------------
(* Type correctness.                                                       *)

USE DEF Over, Out

LEMMA EventParts ==
    /\ \A e \in Events : e[1] \in Steps /\ e[2] \in 1..Repeats /\ e = <<e[1], e[2]>>
    /\ \A s \in Steps, n \in 1..Repeats : <<s, n>> \in Events /\ <<s, n>>[1] = s /\ <<s, n>>[2] = n
BY DEF Events

LEMMA InitTyped == Init => TypeOK
<1> SUFFICES ASSUME Init PROVE TypeOK
  OBVIOUS
<1>1. 1 \in 1..Repeats /\ 0 \in 0..MaxActivations /\ 0 \in 0..MaxEmissions
  BY EscalationAssumption
<1>2. tries \in 0..MaxActivations /\ repeat \in [Steps -> 1..Repeats] /\ attempts \in [Events -> 0..MaxEmissions]
  BY <1>1 DEF Init
<1>3. /\ owner \in [Steps -> Workers \cup {NoOne}] /\ job \in [Workers -> Events \cup {NoOne}]
      /\ todo \in [Workers -> SUBSET Steps] /\ afterStop \subseteq Events
  BY DEF Init
<1> QED
  BY <1>2, <1>3 DEF Init, TypeOK

LEMMA CurrentTyped == ASSUME TypeOK, NEW s \in Steps PROVE Current(s) \in Events
BY EventParts DEF Current, TypeOK

LEMMA IntakeTyped ==
    ASSUME TypeOK, Activate \/ Watch \/ Lapse \/ (\E s \in Steps : StepLapses(s))
    PROVE  TypeOK'
<1>1. CASE ClaimActivation
  <2>1. tries' \in 0..MaxActivations
    BY <1>1, EscalationAssumption DEF ClaimActivation, TypeOK
  <2> QED
    BY <1>1, <2>1 DEF ClaimActivation, TypeOK, incident, timer, steps, emissions, outside, worker
<1>2. CASE ActivateIncident
  <2>1. runtime' \in [Steps -> {"none", "PENDING", "CLAIMED", "WAITING_SETTLEMENT", "COMPLETE", "CANCELLED",
                              "BLOCKED_CONFIGURATION"}]
    BY <1>2 DEF ActivateIncident, TypeOK
  <2> QED
    BY <1>2, <2>1 DEF ActivateIncident, TypeOK, emissions, outside, worker
<1>3. CASE FailActivation
  BY <1>3 DEF FailActivation, AfterFailure, TypeOK, incident, timer, steps, emissions, outside, worker
<1>4. CASE Watch
  BY <1>4, ZenonT(40)
     DEF Watch, ClaimDeadline, RecordBreach, TypeOK, intake, incident, steps, emissions, outside, worker
<1>5. CASE ActivationLapses \/ DeadlineLapses
  BY <1>5, ZenonT(40)
     DEF ActivationLapses, DeadlineLapses, TypeOK, intake, incident, timer, steps, emissions, outside, worker
<1>6. CASE \E e \in Events : SettlementLapses(e)
  BY <1>6 DEF SettlementLapses, TypeOK, intake, incident, timer, steps, emissions, outside, worker
<1>7. CASE \E s \in Steps : StepLapses(s)
  BY <1>7 DEF StepLapses, TypeOK, intake, incident, timer, steps, emissions, outside, worker
<1> QED
  BY <1>1, <1>2, <1>3, <1>4, <1>5, <1>6, <1>7 DEF Activate, Lapse

LEMMA CancelsTyped ==
    ASSUME TypeOK, NEW S, Cancels(S)
    PROVE  /\ runtime' \in [Steps -> {"none", "PENDING", "CLAIMED", "WAITING_SETTLEMENT", "COMPLETE", "CANCELLED",
                              "BLOCKED_CONFIGURATION"}]
           /\ cancel' \in [Steps -> BOOLEAN]
BY DEF Cancels, TypeOK

LEMMA PeopleTyped == ASSUME TypeOK, People PROVE TypeOK'
<1>1. CASE Acknowledge
  <2>1. Cancels(NeedsAck)
    BY <1>1 DEF Acknowledge
  <2>2. deadline' \in {"none", "PENDING", "CLAIMED", "BREACHED", "SATISFIED", "CANCELLED"} /\ late' \in BOOLEAN
    BY <1>1 DEF Acknowledge, Decided, timer, TypeOK
  <2> QED
    BY <1>1, <2>1, <2>2, CancelsTyped DEF Acknowledge, TypeOK, intake, emissions, outside, worker
<1>2. ASSUME NEW target, TransitionIncident(target) PROVE TypeOK'
  <2>1. deadline' \in {"none", "PENDING", "CLAIMED", "BREACHED", "SATISFIED", "CANCELLED"} /\ late' \in BOOLEAN
    BY <1>2 DEF TransitionIncident, Decided, timer, TypeOK
  <2>2. /\ runtime' \in [Steps -> {"none", "PENDING", "CLAIMED", "WAITING_SETTLEMENT", "COMPLETE", "CANCELLED",
                              "BLOCKED_CONFIGURATION"}]
        /\ cancel' \in [Steps -> BOOLEAN]
    BY <1>2, CancelsTyped DEF TransitionIncident, TypeOK
  <2>3. status' \in Over \cup {"none", "OPEN", "ACKNOWLEDGED", "INVESTIGATING", "MITIGATED"}
    BY <1>2 DEF TransitionIncident, Allowed
  <2> QED
    BY <1>2, <2>1, <2>2, <2>3 DEF TransitionIncident, TypeOK, intake, emissions, outside, worker
<1> QED
  BY <1>1, <1>2 DEF People

LEMMA LeavesTyped ==
    ASSUME TypeOK, NEW s \in Steps,
           NEW new \in {"PENDING", "WAITING_SETTLEMENT", "COMPLETE", "CANCELLED", "BLOCKED_CONFIGURATION"},
           Leaves(s, new)
    PROVE  /\ runtime' \in [Steps -> {"none", "PENDING", "CLAIMED", "WAITING_SETTLEMENT", "COMPLETE", "CANCELLED",
                              "BLOCKED_CONFIGURATION"}]
           /\ owner' \in [Steps -> Workers \cup {NoOne}] /\ lapsed' \in [Steps -> BOOLEAN]
           /\ runtime'[s] = new /\ owner'[s] = NoOne
           /\ \A t \in Steps \ {s} : runtime'[t] = runtime[t] /\ owner'[t] = owner[t]
BY DEF Leaves, TypeOK

LEMMA GoesTyped ==
    ASSUME TypeOK, NEW w \in Workers, NEW place \in {"idle", "prepared", "accepted", "failing"},
           NEW e \in Events \cup {NoOne}, Goes(w, place, e)
    PROVE  /\ at' \in [Workers -> {"idle", "prepared", "accepted", "failing"}]
           /\ job' \in [Workers -> Events \cup {NoOne}]
           /\ at'[w] = place /\ job'[w] = e
           /\ \A v \in Workers \ {w} : at'[v] = at[v] /\ job'[v] = job[v]
BY DEF Goes, TypeOK

LEMMA SettleTyped ==
    ASSUME TypeOK, NEW e \in Events, Settle(e) \/ EventDecided(e) \/ DeliveriesRest(e)
    PROVE  TypeOK'
<1>1. CASE ClaimSettlement(e) \/ SettleLater(e)
  BY <1>1 DEF ClaimSettlement, SettleLater, TypeOK, intake, incident, timer, steps, outside, worker
<1>2. CASE SettleEmission(e)
  <2>0. e[1] \in Steps
    BY EventParts
  <2>1. \E new \in {"PENDING", "COMPLETE", "CANCELLED"} : Leaves(e[1], new)
    BY <1>2 DEF SettleEmission
  <2>2. /\ runtime' \in [Steps -> {"none", "PENDING", "CLAIMED", "WAITING_SETTLEMENT", "COMPLETE", "CANCELLED",
                              "BLOCKED_CONFIGURATION"}]
        /\ owner' \in [Steps -> Workers \cup {NoOne}] /\ lapsed' \in [Steps -> BOOLEAN]
    BY <2>0, <2>1, LeavesTyped
  <2>3. repeat' \in [Steps -> 1..Repeats]
    BY <1>2, <2>0, EscalationAssumption DEF SettleEmission, MoreRepeats, TypeOK
  <2> QED
    BY <1>2, <2>2, <2>3 DEF SettleEmission, TypeOK, intake, incident, timer, outside, worker
<1>3. CASE EventDecided(e) \/ DeliveriesRest(e)
  BY <1>3 DEF EventDecided, DeliveriesRest, TypeOK, intake, incident, timer, steps, emissions, worker
<1> QED
  BY <1>1, <1>2, <1>3 DEF Settle

LEMMA WorkTyped ==
    ASSUME TypeOK, NEW w \in Workers, Holding(w), Escalate(w) \/ WorkerDies(w)
    PROVE  TypeOK'
<1>1. CASE ClaimDueEscalations(w)
  <2>1. PICK batch \in SUBSET Claimable :
        /\ runtime' = [s \in Steps |->
                IF s \in batch THEN "CLAIMED" ELSE IF s \in Swept THEN "PENDING" ELSE runtime[s]]
        /\ owner' = [s \in Steps |-> IF s \in batch THEN w ELSE IF s \in Swept THEN NoOne ELSE owner[s]]
        /\ lapsed' = [s \in Steps |-> lapsed[s] /\ s \notin Swept]
        /\ todo' = [todo EXCEPT ![w] = batch]
    BY <1>1 DEF ClaimDueEscalations
  <2>2. batch \in SUBSET Steps
    BY DEF Claimable
  <2>3. /\ runtime' \in [Steps -> {"none", "PENDING", "CLAIMED", "WAITING_SETTLEMENT", "COMPLETE", "CANCELLED",
                              "BLOCKED_CONFIGURATION"}]
        /\ owner' \in [Steps -> Workers \cup {NoOne}] /\ lapsed' \in [Steps -> BOOLEAN]
        /\ todo' \in [Workers -> SUBSET Steps]
    BY <2>1, <2>2 DEF TypeOK
  <2> QED
    BY <1>1, <2>3 DEF ClaimDueEscalations, TypeOK, intake, incident, timer, emissions, outside
<1>2. CASE PrepareEmission(w)
  <2>1. PICK s \in todo[w] :
          /\ todo' = [todo EXCEPT ![w] = @ \ {s}]
          /\ \/ UNCHANGED <<runtime, owner, lapsed>>
             \/ \E new \in {"CANCELLED", "BLOCKED_CONFIGURATION", "COMPLETE"} : Leaves(s, new)
          /\ UNCHANGED <<at, job>> \/ Goes(w, "prepared", Current(s))
          /\ \/ UNCHANGED <<emission, attempts>>
             \/ emission' = [emission EXCEPT ![Current(s)] = "FAILED"] /\ UNCHANGED attempts
             \/ /\ emission' = [emission EXCEPT ![Current(s)] = "PREPARED"]
                /\ attempts' = [attempts EXCEPT ![Current(s)] = @ + 1]
                /\ ~Exhausted(s)
          /\ UNCHANGED lease
    BY <1>2 DEF PrepareEmission, steps, emissions
  <2>2. s \in Steps /\ Current(s) \in Events /\ UNCHANGED <<repeat, cancel>>
    BY <1>2, CurrentTyped DEF TypeOK, PrepareEmission
  <2>3. /\ runtime' \in [Steps -> {"none", "PENDING", "CLAIMED", "WAITING_SETTLEMENT", "COMPLETE", "CANCELLED",
                              "BLOCKED_CONFIGURATION"}]
        /\ owner' \in [Steps -> Workers \cup {NoOne}] /\ lapsed' \in [Steps -> BOOLEAN]
    <3>1. CASE UNCHANGED <<runtime, owner, lapsed>>
      BY <3>1 DEF TypeOK
    <3>2. CASE \E new \in {"CANCELLED", "BLOCKED_CONFIGURATION", "COMPLETE"} : Leaves(s, new)
      BY <2>2, <3>2, LeavesTyped
    <3> QED
      BY <2>1, <3>1, <3>2
  <2>4. /\ at' \in [Workers -> {"idle", "prepared", "accepted", "failing"}]
        /\ job' \in [Workers -> Events \cup {NoOne}]
    <3>1. CASE UNCHANGED <<at, job>>
      BY <3>1 DEF TypeOK
    <3>2. CASE Goes(w, "prepared", Current(s))
      BY <2>2, <3>2, GoesTyped
    <3> QED
      BY <2>1, <3>1, <3>2
  <2>5. /\ emission' \in [Events -> Out \cup {"none", "PREPARED", "SETTLED", "FAILED"}]
        /\ todo' \in [Workers -> SUBSET Steps]
    BY <2>1, <2>2 DEF TypeOK
  <2>6. attempts' \in [Events -> 0..MaxEmissions]
    BY <2>1, <2>2, EscalationAssumption DEF Exhausted, TypeOK
  <2> QED
    BY <1>2, <2>1, <2>2, <2>3, <2>4, <2>5, <2>6 DEF PrepareEmission, TypeOK, intake, incident, timer, outside
<1>3. CASE AcceptEvent(w)
  <2>1. job[w] \in Events
    BY <1>3 DEF AcceptEvent, Holding
  <2>2. \E place \in {"accepted", "failing"} : Goes(w, place, job[w])
    BY <1>3 DEF AcceptEvent
  <2>3. /\ at' \in [Workers -> {"idle", "prepared", "accepted", "failing"}]
        /\ job' \in [Workers -> Events \cup {NoOne}]
    BY <2>1, <2>2, GoesTyped
  <2> QED
    BY <1>3, <2>1, <2>3 DEF AcceptEvent, TypeOK, intake, incident, timer, steps, emissions, outside
<1>4. CASE MarkEmitted(w)
  <2>1. job[w] \in Events /\ job[w][1] \in Steps
    BY <1>4, EventParts DEF MarkEmitted, Holding
  <2>2. \E place \in {"idle", "failing"}, e \in Events \cup {NoOne} : Goes(w, place, e)
    BY <1>4, <2>1 DEF MarkEmitted
  <2>3. /\ at' \in [Workers -> {"idle", "prepared", "accepted", "failing"}]
        /\ job' \in [Workers -> Events \cup {NoOne}]
    BY <2>2, GoesTyped
  <2>4. UNCHANGED <<runtime, owner, lapsed>> \/ Leaves(job[w][1], "WAITING_SETTLEMENT")
    BY <1>4 DEF MarkEmitted
  <2>5. /\ runtime' \in [Steps -> {"none", "PENDING", "CLAIMED", "WAITING_SETTLEMENT", "COMPLETE", "CANCELLED",
                              "BLOCKED_CONFIGURATION"}]
        /\ owner' \in [Steps -> Workers \cup {NoOne}] /\ lapsed' \in [Steps -> BOOLEAN]
    <3>1. CASE UNCHANGED <<runtime, owner, lapsed>>
      BY <3>1 DEF TypeOK
    <3>2. CASE Leaves(job[w][1], "WAITING_SETTLEMENT")
      BY <2>1, <3>2, LeavesTyped
    <3> QED
      BY <2>4, <3>1, <3>2
  <2>6. emission' \in [Events -> Out \cup {"none", "PREPARED", "SETTLED", "FAILED"}]
    BY <1>4, <2>1 DEF MarkEmitted, TypeOK
  <2> QED
    BY <1>4, <2>3, <2>5, <2>6 DEF MarkEmitted, TypeOK, intake, incident, timer, outside
<1>5. CASE FailEmission(w)
  <2>1. job[w] \in Events /\ job[w][1] \in Steps /\ Current(job[w][1]) \in Events
    BY <1>5, EventParts, CurrentTyped DEF FailEmission, Holding
  <2>2. /\ at' \in [Workers -> {"idle", "prepared", "accepted", "failing"}]
        /\ job' \in [Workers -> Events \cup {NoOne}]
    BY <1>5, GoesTyped DEF FailEmission
  <2>3. UNCHANGED <<runtime, owner, lapsed>> \/ \E new \in {"COMPLETE", "PENDING"} : Leaves(job[w][1], new)
    BY <1>5 DEF FailEmission
  <2>4. /\ runtime' \in [Steps -> {"none", "PENDING", "CLAIMED", "WAITING_SETTLEMENT", "COMPLETE", "CANCELLED",
                              "BLOCKED_CONFIGURATION"}]
        /\ owner' \in [Steps -> Workers \cup {NoOne}] /\ lapsed' \in [Steps -> BOOLEAN]
    <3>1. CASE UNCHANGED <<runtime, owner, lapsed>>
      BY <3>1 DEF TypeOK
    <3>2. CASE \E new \in {"COMPLETE", "PENDING"} : Leaves(job[w][1], new)
      BY <2>1, <3>2, LeavesTyped
    <3> QED
      BY <2>3, <3>1, <3>2
  <2>5. emission' \in [Events -> Out \cup {"none", "PREPARED", "SETTLED", "FAILED"}]
    BY <1>5, <2>1 DEF FailEmission, TypeOK
  <2> QED
    BY <1>5, <2>2, <2>4, <2>5 DEF FailEmission, TypeOK, intake, incident, timer, outside
<1>6. CASE WorkerDies(w)
  <2>1. /\ at' \in [Workers -> {"idle", "prepared", "accepted", "failing"}]
        /\ job' \in [Workers -> Events \cup {NoOne}]
    BY <1>6, GoesTyped DEF WorkerDies
  <2> QED
    BY <1>6, <2>1, ZenonT(40) DEF WorkerDies, TypeOK, intake, incident, timer, steps, emissions, outside
<1> QED
  BY <1>1, <1>2, <1>3, <1>4, <1>5, <1>6 DEF Escalate

LEMMA NextTyped == ASSUME TypeOK, \A w \in Workers : Holding(w), [Next]_vars PROVE TypeOK'
<1>1. CASE UNCHANGED vars
  BY <1>1 DEF vars, intake, incident, timer, steps, emissions, outside, worker, TypeOK
<1> QED
  BY <1>1, IntakeTyped, PeopleTyped, SettleTyped, WorkTyped DEF Next

-----------------------------------------------------------------------------
(* The repeats of a step.                                                  *)

Waits(s) ==
    \A n \in 1..Repeats :
        emission[<<s, n>>] \in Out <=> runtime[s] = "WAITING_SETTLEMENT" /\ n = repeat[s]

\* A step that stays at its repeat and touches no other one.
SameRepeat(s) ==
    /\ repeat'[s] = repeat[s]
    /\ \A n \in 1..Repeats : n # repeat[s] => emission'[<<s, n>>] = emission[<<s, n>>] /\ fate'[<<s, n>>] = fate[<<s, n>>]
    /\ emission'[Current(s)] \in Out <=> runtime'[s] = "WAITING_SETTLEMENT"

LEMMA SameRepeatKeepsOrder ==
    ASSUME TypeOK, NEW s \in Steps, Waits(s), InOrder(s), SameRepeat(s)
    PROVE  Waits(s)' /\ InOrder(s)'
<1>1. repeat[s] \in 1..Repeats /\ repeat'[s] = repeat[s]
  BY DEF TypeOK, SameRepeat
<1>2. ASSUME NEW n \in 1..Repeats
      PROVE  emission'[<<s, n>>] \in Out <=> runtime'[s] = "WAITING_SETTLEMENT" /\ n = repeat[s]
  <2>1. CASE n = repeat[s]
    BY <2>1 DEF SameRepeat, Current
  <2>2. CASE n # repeat[s]
    BY <2>2 DEF SameRepeat, Waits
  <2> QED
    BY <2>1, <2>2
<1>3. ASSUME NEW n \in 1..Repeats
      PROVE  /\ n < repeat[s] => fate'[<<s, n>>] = "rest" /\ emission'[<<s, n>>] = "SETTLED"
             /\ n > repeat[s] => fate'[<<s, n>>] = "none"
  BY <1>1 DEF SameRepeat, InOrder
<1> QED
  BY <1>1, <1>2, <1>3 DEF Waits, InOrder

\* What is out is the present repeat of its step; what is not at rest is not before it.
LEMMA OutIsCurrent ==
    ASSUME IInv, NEW e \in Events, emission[e] \in Out
    PROVE  e = Current(e[1]) /\ runtime[e[1]] = "WAITING_SETTLEMENT"
BY EventParts DEF IInv, WaitingIsOut, Current

LEMMA UnsettledIsCurrent ==
    ASSUME IInv, NEW e \in Events, fate[e] # "rest", e[2] <= repeat[e[1]] \/ fate[e] # "none"
    PROVE  e[2] = repeat[e[1]]
<1>1. e[1] \in Steps /\ e[2] \in 1..Repeats /\ e = <<e[1], e[2]>>
  BY EventParts
<1>2. /\ e[2] < repeat[e[1]] => fate[<<e[1], e[2]>>] = "rest"
      /\ e[2] > repeat[e[1]] => fate[<<e[1], e[2]>>] = "none"
  BY <1>1 DEF IInv, InOrder
<1>3. repeat[e[1]] \in 1..Repeats
  BY <1>1 DEF IInv, TypeOK
<1>4. ~(e[2] < repeat[e[1]]) /\ ~(e[2] > repeat[e[1]])
  BY <1>1, <1>2, <1>3
<1> QED
  BY <1>1, <1>3, <1>4

LEMMA StepFacts ==
    ASSUME IInv, NEW s \in Steps
    PROVE  /\ Waits(s) /\ InOrder(s) /\ repeat[s] \in 1..Repeats /\ Current(s) \in Events
           /\ emission[Current(s)] \in Out <=> runtime[s] = "WAITING_SETTLEMENT"
<1>1. Waits(s) /\ InOrder(s) /\ repeat[s] \in 1..Repeats
  BY DEF IInv, WaitingIsOut, Waits, TypeOK
<1>2. Current(s) \in Events
  BY CurrentTyped DEF IInv
<1> QED
  BY <1>1, <1>2 DEF Waits, Current

\* What neither the desk nor the timers touch; they move a row only between states
\* in which it has no claim and no emission out.
Quiet ==
    /\ UNCHANGED <<repeat, owner, emission, fate, at, job>>
    /\ \A s \in Steps :
        \/ runtime'[s] = runtime[s]
        \/ {runtime'[s], runtime[s]} \cap {"CLAIMED", "WAITING_SETTLEMENT"} = {}

LEMMA DeskIsQuiet ==
    ASSUME IInv, Activate \/ People \/ Watch \/ Lapse \/ (\E s \in Steps : StepLapses(s))
    PROVE  Quiet /\ UNCHANGED afterStop
<1>1. CASE ClaimActivation \/ FailActivation \/ Watch \/ Lapse \/ (\E s \in Steps : StepLapses(s))
  BY <1>1 DEF ClaimActivation, FailActivation, Watch, ClaimDeadline, RecordBreach, Lapse, ActivationLapses,
      DeadlineLapses, SettlementLapses, StepLapses, Quiet, steps, emissions, outside, worker
<1>2. CASE ActivateIncident
  <2>1. \A s \in Steps : runtime[s] = "none"
    BY <1>2 DEF ActivateIncident, IInv, PlannedOnceActive
  <2> QED
    BY <1>2, <2>1 DEF ActivateIncident, Quiet, emissions, outside, worker
<1>3. CASE People
  BY <1>3 DEF People, Acknowledge, TransitionIncident, Cancels, Quiet, emissions, outside, worker
<1> QED
  BY <1>1, <1>2, <1>3 DEF Activate

LEMMA QuietKeepsRepeat == ASSUME IInv, Quiet, NEW s \in Steps PROVE SameRepeat(s)
<1>1. emission[Current(s)] \in Out <=> runtime[s] = "WAITING_SETTLEMENT"
  BY StepFacts
<1> QED
  BY <1>1 DEF Quiet, SameRepeat

LEMMA SettleKeepsRepeat ==
    ASSUME IInv, NEW e \in Events, ClaimSettlement(e) \/ SettleLater(e) \/ EventDecided(e) \/ DeliveriesRest(e),
           NEW s \in Steps
    PROVE  SameRepeat(s)
<1>1. emission[Current(s)] \in Out <=> runtime[s] = "WAITING_SETTLEMENT"
  BY StepFacts
<1>2. CASE ClaimSettlement(e)
  BY <1>1, <1>2 DEF ClaimSettlement, SameRepeat, steps, outside
<1>3. CASE SettleLater(e)
  <2>1. e = Current(e[1]) /\ runtime[e[1]] = "WAITING_SETTLEMENT" /\ e = <<e[1], e[2]>>
    BY <1>3, OutIsCurrent, EventParts DEF SettleLater
  <2>2. ASSUME NEW n \in 1..Repeats, n # repeat[s] PROVE emission'[<<s, n>>] = emission[<<s, n>>]
    <3>1. <<s, n>> \in Events /\ <<s, n>> # e
      BY <2>1, <2>2, EventParts DEF Current
    <3> QED
      BY <1>3, <3>1 DEF SettleLater, IInv, TypeOK
  <2>3. Current(s) \in Events /\ (emission'[Current(s)] \in Out <=> emission[Current(s)] \in Out)
    BY <1>3, StepFacts DEF SettleLater, IInv, TypeOK
  <2> QED
    BY <1>1, <1>3, <2>2, <2>3 DEF SettleLater, SameRepeat, steps, outside
<1>4. CASE EventDecided(e) \/ DeliveriesRest(e)
  <2>1. e[2] = repeat[e[1]] /\ e = <<e[1], e[2]>>
    BY <1>4, UnsettledIsCurrent, EventParts DEF EventDecided, DeliveriesRest
  <2>2. ASSUME NEW n \in 1..Repeats, n # repeat[s] PROVE fate'[<<s, n>>] = fate[<<s, n>>]
    <3>1. <<s, n>> \in Events /\ <<s, n>> # e
      BY <2>1, <2>2, EventParts
    <3> QED
      BY <1>4, <3>1 DEF EventDecided, DeliveriesRest, IInv, TypeOK
  <2> QED
    BY <1>1, <1>4, <2>2 DEF EventDecided, DeliveriesRest, SameRepeat, steps, emissions
<1> QED
  BY <1>2, <1>3, <1>4

\* A settlement may move its step to the next repeat, and no other step.
LEMMA SettlementMovesOn ==
    ASSUME IInv, NEW e \in Events, SettleEmission(e), NEW s \in Steps
    PROVE  Waits(s)' /\ InOrder(s)'
<1>0. TypeOK /\ e[1] \in Steps /\ e[2] \in 1..Repeats /\ e = <<e[1], e[2]>>
  BY EventParts DEF IInv
<1>1. e[2] = repeat[e[1]] /\ fate[e] = "rest"
  BY OutIsCurrent, <1>0 DEF SettleEmission, Current, AtRest
<1>2. /\ emission' = [emission EXCEPT ![e] = "SETTLED"] /\ UNCHANGED fate
      /\ \E new \in {"CANCELLED", "PENDING", "COMPLETE"} : Leaves(e[1], new)
      /\ repeat' = [repeat EXCEPT ![e[1]] = repeat'[e[1]]]
      /\ repeat'[e[1]] \in {repeat[e[1]], repeat[e[1]] + 1}
  BY <1>0 DEF SettleEmission, outside, TypeOK
<1>3. CASE s # e[1]
  <2>1. \A n \in 1..Repeats : <<s, n>> # e /\ <<s, n>> \in Events
    BY <1>3, <1>0, EventParts
  <2>2. \A n \in 1..Repeats : emission'[<<s, n>>] = emission[<<s, n>>]
    BY <1>0, <1>2, <2>1 DEF TypeOK
  <2>3. runtime'[s] = runtime[s]
    BY <1>0, <1>2, <1>3, LeavesTyped
  <2>4. repeat'[s] = repeat[s]
    BY <1>0, <1>2, <1>3 DEF TypeOK
  <2>5. Waits(s) /\ InOrder(s)
    BY StepFacts
  <2> QED
    BY <1>2, <2>2, <2>3, <2>4, <2>5 DEF Waits, InOrder
<1>4. CASE s = e[1]
  <2>1. runtime'[s] # "WAITING_SETTLEMENT"
    BY <1>0, <1>2, <1>4, LeavesTyped
  <2>2. Waits(s) /\ InOrder(s)
    BY StepFacts
  <2>3. ASSUME NEW n \in 1..Repeats PROVE emission'[<<s, n>>] \notin Out
    <3>1. CASE n = e[2]
      BY <1>0, <1>2, <1>4, <3>1 DEF TypeOK
    <3>2. CASE n # e[2]
      <4>1. <<s, n>> # e /\ <<s, n>> \in Events
        BY <1>0, <3>2, EventParts
      <4>2. emission[<<s, n>>] \notin Out
        BY <1>1, <1>4, <2>2, <3>2 DEF Waits
      <4> QED
        BY <1>0, <1>2, <4>1, <4>2 DEF TypeOK
    <3> QED
      BY <3>1, <3>2
  <2>4. ASSUME NEW n \in 1..Repeats, n < repeat'[s]
        PROVE  fate[<<s, n>>] = "rest" /\ emission'[<<s, n>>] = "SETTLED"
    <3>1. CASE n = e[2]
      BY <1>0, <1>1, <1>2, <1>4, <3>1 DEF TypeOK
    <3>2. CASE n # e[2]
      <4>1. n < repeat[s]
        BY <1>0, <1>1, <1>2, <1>4, <2>4, <3>2 DEF TypeOK
      <4>2. <<s, n>> # e /\ <<s, n>> \in Events
        BY <1>0, <3>2, EventParts
      <4>3. fate[<<s, n>>] = "rest" /\ emission[<<s, n>>] = "SETTLED"
        BY <2>2, <4>1 DEF InOrder
      <4> QED
        BY <1>0, <1>2, <4>2, <4>3 DEF TypeOK
    <3> QED
      BY <3>1, <3>2
  <2>5. ASSUME NEW n \in 1..Repeats, n > repeat'[s] PROVE fate[<<s, n>>] = "none"
    <3>1. n > repeat[s]
      BY <1>0, <1>2, <1>4, <2>5 DEF TypeOK
    <3> QED
      BY <2>2, <3>1 DEF InOrder
  <2> QED
    BY <1>2, <2>1, <2>3, <2>4, <2>5 DEF Waits, InOrder
<1> QED
  BY <1>3, <1>4

-----------------------------------------------------------------------------
(* The worker that holds the claim works on the present repeat.            *)

\* A worker that a step leaves alone; it wins no claim and keeps what it has one for.
LEMMA HoldingKept ==
    ASSUME IInv, NEW w \in Workers, at'[w] = at[w], job'[w] = job[w],
           \A s \in Steps : repeat'[s] \in {repeat[s], repeat[s] + 1},
           \A s \in Steps : Owns(w, s)' =>
               Owns(w, s) /\ repeat'[s] = repeat[s] /\ emission'[Current(s)] = emission[Current(s)]
    PROVE  Holding(w)'
<1> SUFFICES ASSUME at[w] # "idle" PROVE Holding(w)'
  BY DEF Holding
<1>0. Holding(w) /\ TypeOK
  BY DEF IInv
<1>1. job[w] \in Events /\ job[w][1] \in Steps /\ job[w][2] \in 1..Repeats /\ job[w][2] <= repeat[job[w][1]]
  BY <1>0, EventParts DEF Holding
<1>2. job[w][2] <= repeat'[job[w][1]]
  BY <1>0, <1>1 DEF TypeOK
<1>3. ASSUME Owns(w, job[w][1])'
      PROVE  job[w] = <<job[w][1], repeat'[job[w][1]]>> /\ emission'[job[w]] = "PREPARED"
  <2>1. Owns(w, job[w][1]) /\ repeat'[job[w][1]] = repeat[job[w][1]]
        /\ emission'[Current(job[w][1])] = emission[Current(job[w][1])]
    BY <1>1, <1>3 DEF Owns
  <2>2. job[w] = Current(job[w][1]) /\ emission[job[w]] = "PREPARED"
    BY <1>0, <2>1 DEF Holding
  <2> QED
    BY <2>1, <2>2 DEF Current
<1> QED
  BY <1>1, <1>2, <1>3 DEF Holding, Owns, Current

LEMMA QuietKeepsHolding == ASSUME IInv, Quiet, NEW w \in Workers PROVE Holding(w)'
<1>1. \A s \in Steps : runtime'[s] = "CLAIMED" => runtime[s] = "CLAIMED"
  BY DEF Quiet
<1>2. \A s \in Steps : Owns(w, s)' =>
               Owns(w, s) /\ repeat'[s] = repeat[s] /\ emission'[Current(s)] = emission[Current(s)]
  BY <1>1 DEF Quiet, Owns
<1>3. at'[w] = at[w] /\ job'[w] = job[w] /\ \A s \in Steps : repeat'[s] \in {repeat[s], repeat[s] + 1}
  BY DEF Quiet
<1> QED
  BY <1>2, <1>3, HoldingKept

LEMMA SettleKeepsHolding ==
    ASSUME IInv, NEW e \in Events, Settle(e) \/ EventDecided(e) \/ DeliveriesRest(e), NEW w \in Workers
    PROVE  Holding(w)'
<1>0. TypeOK /\ e[1] \in Steps /\ e = <<e[1], e[2]>>
  BY EventParts DEF IInv
<1>1. CASE ClaimSettlement(e) \/ EventDecided(e) \/ DeliveriesRest(e)
  BY <1>1, HoldingKept DEF ClaimSettlement, EventDecided, DeliveriesRest, steps, worker, emissions, Owns
<1>2. CASE SettleLater(e) \/ SettleEmission(e)
  <2>1. runtime[e[1]] = "WAITING_SETTLEMENT" /\ e = Current(e[1])
    BY <1>2, OutIsCurrent DEF SettleLater, SettleEmission
  <2>2. ASSUME NEW s \in Steps, s # e[1] PROVE emission'[Current(s)] = emission[Current(s)]
    <3>1. Current(s) \in Events /\ Current(s) # e
      BY <1>0, <2>2, CurrentTyped, EventParts DEF Current
    <3> QED
      BY <1>0, <1>2, <3>1 DEF SettleLater, SettleEmission, TypeOK
  <2>3. /\ runtime'[e[1]] # "CLAIMED"
        /\ \A s \in Steps \ {e[1]} : runtime'[s] = runtime[s] /\ owner'[s] = owner[s] /\ repeat'[s] = repeat[s]
        /\ repeat'[e[1]] \in {repeat[e[1]], repeat[e[1]] + 1}
        /\ UNCHANGED worker
    <3>1. CASE SettleLater(e)
      BY <2>1, <3>1 DEF SettleLater, steps
    <3>2. CASE SettleEmission(e)
      <4>1. \E new \in {"CANCELLED", "PENDING", "COMPLETE"} : Leaves(e[1], new)
        BY <3>2 DEF SettleEmission
      <4>2. /\ runtime'[e[1]] # "CLAIMED"
            /\ \A s \in Steps \ {e[1]} : runtime'[s] = runtime[s] /\ owner'[s] = owner[s]
        BY <1>0, <4>1, LeavesTyped
      <4> QED
        BY <1>0, <3>2, <4>2 DEF SettleEmission, TypeOK
    <3> QED
      BY <1>2, <3>1, <3>2
  <2>4. \A s \in Steps : Owns(w, s)' =>
               Owns(w, s) /\ repeat'[s] = repeat[s] /\ emission'[Current(s)] = emission[Current(s)]
    BY <2>2, <2>3 DEF Owns
  <2>5. \A s \in Steps : repeat'[s] \in {repeat[s], repeat[s] + 1}
    BY <2>3
  <2> QED
    BY <2>3, <2>4, <2>5, HoldingKept DEF worker
<1> QED
  BY <1>1, <1>2 DEF Settle

-----------------------------------------------------------------------------
(* The worker's statements.                                                *)

\* A step that changes at most the row that its worker owns and its present emission.
OnlyRow(w, s) ==
    /\ UNCHANGED <<repeat, fate>>
    /\ \A t \in Steps \ {s} : runtime'[t] = runtime[t] /\ owner'[t] = owner[t]
    /\ owner'[s] \in {w, NoOne}
    /\ \A e \in Events \ {Current(s)} : emission'[e] = emission[e]
    /\ emission'[Current(s)] \in Out <=> runtime'[s] = "WAITING_SETTLEMENT"

LEMMA OtherCurrent ==
    ASSUME TypeOK, NEW s \in Steps, NEW t \in Steps, NEW n \in 1..Repeats, <<t, n>> = Current(s)
    PROVE  t = s /\ n = repeat[s]
BY DEF Current

LEMMA OnlyRowKeepsRepeat ==
    ASSUME IInv, NEW w \in Workers, NEW s \in Steps, OnlyRow(w, s), NEW t \in Steps
    PROVE  SameRepeat(t)
<1>0. TypeOK /\ Current(t) \in Events /\ (emission[Current(t)] \in Out <=> runtime[t] = "WAITING_SETTLEMENT")
  BY StepFacts DEF IInv
<1>1. ASSUME NEW n \in 1..Repeats, n # repeat[t] PROVE emission'[<<t, n>>] = emission[<<t, n>>]
  <2>1. <<t, n>> \in Events /\ <<t, n>> # Current(s)
    BY <1>0, <1>1, OtherCurrent, EventParts
  <2> QED
    BY <2>1 DEF OnlyRow
<1>2. CASE t = s
  BY <1>1, <1>2 DEF OnlyRow, SameRepeat
<1>3. CASE t # s
  <2>1. Current(t) # Current(s)
    BY <1>3 DEF Current
  <2>2. emission'[Current(t)] = emission[Current(t)] /\ runtime'[t] = runtime[t]
    BY <1>0, <1>3, <2>1 DEF OnlyRow
  <2> QED
    BY <1>0, <1>1, <2>2 DEF OnlyRow, SameRepeat
<1> QED
  BY <1>2, <1>3

LEMMA OnlyRowKeepsOthers ==
    ASSUME IInv, NEW w \in Workers, NEW s \in Steps, OnlyRow(w, s),
           NEW v \in Workers, v # w, at'[v] = at[v], job'[v] = job[v]
    PROVE  Holding(v)'
<1>1. ASSUME NEW t \in Steps, Owns(v, t)'
      PROVE  Owns(v, t) /\ repeat'[t] = repeat[t] /\ emission'[Current(t)] = emission[Current(t)]
  <2>1. t # s
    BY <1>1, EscalationAssumption DEF OnlyRow, Owns
  <2>2. Current(t) # Current(s) /\ Current(t) \in Events
    BY <2>1, StepFacts DEF Current
  <2> QED
    BY <1>1, <2>1, <2>2 DEF OnlyRow, Owns
<1> QED
  BY <1>1, HoldingKept DEF OnlyRow

\* A worker whose step leaves the rows and emissions alone.
LEMMA NoRowKeeps ==
    ASSUME IInv, UNCHANGED <<repeat, fate, runtime, owner, emission>>, NEW s \in Steps
    PROVE  SameRepeat(s)
BY StepFacts DEF SameRepeat

LEMMA ClaimKeeps ==
    ASSUME IInv, NEW w \in Workers, ClaimDueEscalations(w)
    PROVE  (\A s \in Steps : SameRepeat(s)) /\ (\A v \in Workers : Holding(v)')
<1>0. TypeOK
  BY DEF IInv
<1>1. PICK batch \in SUBSET Claimable :
        /\ runtime' = [s \in Steps |->
                IF s \in batch THEN "CLAIMED" ELSE IF s \in Swept THEN "PENDING" ELSE runtime[s]]
        /\ owner' = [s \in Steps |-> IF s \in batch THEN w ELSE IF s \in Swept THEN NoOne ELSE owner[s]]
  BY DEF ClaimDueEscalations
<1>2. UNCHANGED <<repeat, fate, emission, at, job>> /\ at[w] = "idle"
  BY DEF ClaimDueEscalations, emissions, outside
<1>3. ASSUME NEW s \in Steps PROVE SameRepeat(s)
  <2>1. runtime'[s] = "WAITING_SETTLEMENT" <=> runtime[s] = "WAITING_SETTLEMENT"
    BY <1>1 DEF Claimable, Swept
  <2> QED
    BY <1>2, <2>1, StepFacts DEF SameRepeat
<1>4. ASSUME NEW v \in Workers, v # w PROVE Holding(v)'
  <2>1. \A s \in Steps : Owns(v, s)' => Owns(v, s)
    BY <1>1, <1>4 DEF Owns, Claimable
  <2> QED
    BY <1>2, <2>1, HoldingKept
<1>5. Holding(w)'
  BY <1>2 DEF Holding
<1> QED
  BY <1>3, <1>4, <1>5

LEMMA PrepareKeeps ==
    ASSUME IInv, NEW w \in Workers, PrepareEmission(w)
    PROVE  (\A s \in Steps : SameRepeat(s)) /\ (\A v \in Workers : Holding(v)')
<1>0. TypeOK /\ at[w] = "idle"
  BY DEF IInv, PrepareEmission
<1>1. PICK s \in todo[w] :
        \/ UNCHANGED <<steps, emissions, at, job>>
        \/ /\ Owns(w, s)
           /\ \/ /\ \E new \in {"CANCELLED", "BLOCKED_CONFIGURATION", "COMPLETE"} : Leaves(s, new)
                 /\ emission' = emission \/ emission' = [emission EXCEPT ![Current(s)] = "FAILED"]
                 /\ UNCHANGED <<at, job>>
              \/ /\ Goes(w, "prepared", Current(s)) /\ UNCHANGED <<runtime, owner>>
                 /\ emission' = [emission EXCEPT ![Current(s)] = "PREPARED"]
  BY DEF PrepareEmission, emissions
<1>2. s \in Steps /\ Current(s) \in Events /\ UNCHANGED <<repeat, fate>>
  BY <1>0, CurrentTyped DEF TypeOK, PrepareEmission, outside
<1>3. CASE UNCHANGED <<steps, emissions, at, job>>
  <2>1. \A t \in Steps : SameRepeat(t)
    BY <1>2, <1>3, NoRowKeeps DEF steps, emissions
  <2>2. \A v \in Workers : Holding(v)'
    BY <1>2, <1>3, HoldingKept DEF steps, emissions, Owns
  <2> QED
    BY <2>1, <2>2
<1>4. CASE /\ Owns(w, s)
           /\ \E new \in {"CANCELLED", "BLOCKED_CONFIGURATION", "COMPLETE"} : Leaves(s, new)
           /\ emission' = emission \/ emission' = [emission EXCEPT ![Current(s)] = "FAILED"]
           /\ UNCHANGED <<at, job>>
  <2>1. /\ runtime'[s] \in {"CANCELLED", "BLOCKED_CONFIGURATION", "COMPLETE"} /\ owner'[s] = NoOne
        /\ \A t \in Steps \ {s} : runtime'[t] = runtime[t] /\ owner'[t] = owner[t]
    BY <1>0, <1>2, <1>4, LeavesTyped
  <2>2. emission[Current(s)] \notin Out
    BY <1>2, <1>4, StepFacts DEF Owns
  <2>3. /\ \A e \in Events \ {Current(s)} : emission'[e] = emission[e]
        /\ emission'[Current(s)] \notin Out
    BY <1>0, <1>2, <1>4, <2>2 DEF TypeOK
  <2>4. OnlyRow(w, s)
    BY <1>2, <2>1, <2>3 DEF OnlyRow
  <2>5. Holding(w)'
    BY <1>0, <1>4 DEF Holding
  <2> QED
    BY <1>2, <1>4, <2>4, <2>5, OnlyRowKeepsRepeat, OnlyRowKeepsOthers
<1>5. CASE /\ Owns(w, s)
           /\ Goes(w, "prepared", Current(s)) /\ UNCHANGED <<runtime, owner>>
           /\ emission' = [emission EXCEPT ![Current(s)] = "PREPARED"]
  <2>1. /\ \A e \in Events \ {Current(s)} : emission'[e] = emission[e]
        /\ emission'[Current(s)] = "PREPARED"
    BY <1>0, <1>2, <1>5 DEF TypeOK
  <2>2. OnlyRow(w, s)
    BY <1>2, <1>5, <2>1 DEF OnlyRow, Owns
  <2>3. /\ job'[w] = Current(s)
        /\ \A v \in Workers \ {w} : at'[v] = at[v] /\ job'[v] = job[v]
    BY <1>0, <1>2, <1>5, GoesTyped
  <2>4. Current(s)[1] = s /\ Current(s)[2] = repeat[s] /\ repeat[s] <= repeat[s]
    BY <1>0, <1>2 DEF Current, TypeOK
  <2>5. Holding(w)'
    BY <1>2, <2>1, <2>3, <2>4 DEF Holding, Current
  <2> QED
    BY <1>2, <2>2, <2>3, <2>5, OnlyRowKeepsRepeat, OnlyRowKeepsOthers
<1> QED
  BY <1>1, <1>3, <1>4, <1>5

LEMMA AcceptKeeps ==
    ASSUME IInv, NEW w \in Workers, AcceptEvent(w)
    PROVE  (\A s \in Steps : SameRepeat(s)) /\ (\A v \in Workers : Holding(v)')
<1>0. TypeOK /\ Holding(w) /\ at[w] = "prepared"
  BY DEF IInv, AcceptEvent
<1>1. job[w] \in Events /\ job[w][2] <= repeat[job[w][1]]
  BY <1>0 DEF Holding
<1>2. UNCHANGED <<repeat, runtime, owner, emission>> /\ \E place \in {"accepted", "failing"} : Goes(w, place, job[w])
  BY DEF AcceptEvent, steps, emissions
<1>3. \A e \in Events : e[2] # repeat[e[1]] => fate'[e] = fate[e]
  <2>1. CASE fate[job[w]] = "none"
    <3>1. job[w][2] = repeat[job[w][1]]
      BY <1>1, <2>1, UnsettledIsCurrent
    <3> QED
      BY <1>0, <1>1, <3>1 DEF AcceptEvent, outside, TypeOK
  <2>2. CASE fate[job[w]] # "none"
    BY <2>2 DEF AcceptEvent, outside
  <2> QED
    BY <2>1, <2>2
<1>4. ASSUME NEW s \in Steps PROVE SameRepeat(s)
  <2>1. \A n \in 1..Repeats : n # repeat[s] => fate'[<<s, n>>] = fate[<<s, n>>]
    BY <1>3, EventParts
  <2> QED
    BY <1>2, <2>1, StepFacts DEF SameRepeat
<1>5. /\ \A v \in Workers \ {w} : at'[v] = at[v] /\ job'[v] = job[v]
      /\ at'[w] # "idle" /\ job'[w] = job[w]
  BY <1>0, <1>1, <1>2, GoesTyped
<1>6. \A v \in Workers \ {w} : Holding(v)'
  BY <1>2, <1>5, HoldingKept DEF Owns
<1>7. Holding(w)'
  BY <1>0, <1>2, <1>5 DEF Holding, Owns, Current
<1> QED
  BY <1>4, <1>6, <1>7

\* Marking an event emitted, or recording the failure, needs the claim; without
\* it the row and the emission stay as they are.
LEMMA ReportKeeps ==
    ASSUME IInv, NEW w \in Workers, MarkEmitted(w) \/ FailEmission(w)
    PROVE  (\A s \in Steps : SameRepeat(s)) /\ (\A v \in Workers : Holding(v)')
<1>0. TypeOK /\ Holding(w) /\ at[w] # "idle"
  BY DEF IInv, MarkEmitted, FailEmission
<1> DEFINE s == job[w][1]
<1>1. job[w] \in Events /\ s \in Steps /\ Current(s) \in Events
  BY <1>0, EventParts, CurrentTyped DEF Holding
<1>2. UNCHANGED <<repeat, fate>>
  BY DEF MarkEmitted, FailEmission, outside
<1>3. /\ \A v \in Workers \ {w} : at'[v] = at[v] /\ job'[v] = job[v]
      /\ at'[w] # "idle" => job'[w] = job[w] /\ UNCHANGED <<runtime, owner, emission>>
  <2>1. CASE Goes(w, "idle", NoOne)
    BY <1>0, <2>1, GoesTyped
  <2>2. CASE Goes(w, "failing", job[w]) /\ UNCHANGED <<runtime, owner, emission>>
    BY <1>0, <1>1, <2>2, GoesTyped
  <2> QED
    BY <2>1, <2>2 DEF MarkEmitted, FailEmission
<1>4. Holding(w)'
  BY <1>0, <1>2, <1>3 DEF Holding, Owns, Current
<1>5. CASE UNCHANGED <<runtime, owner, emission>>
  <2>1. \A t \in Steps : SameRepeat(t)
    BY <1>2, <1>5, NoRowKeeps
  <2>2. \A v \in Workers \ {w} : Holding(v)'
    BY <1>2, <1>3, <1>5, HoldingKept DEF Owns
  <2> QED
    BY <1>4, <2>1, <2>2
<1>6. CASE OnlyRow(w, s)
  BY <1>1, <1>3, <1>4, <1>6, OnlyRowKeepsRepeat, OnlyRowKeepsOthers
<1>7. CASE MarkEmitted(w)
  <2>1. CASE Owns(w, s) /\ ~lapsed[s]
    <3>1. job[w] = Current(s)
      BY <1>0, <2>1 DEF Holding
    <3>2. emission' = [emission EXCEPT ![Current(s)] = "EMITTED"] /\ Leaves(s, "WAITING_SETTLEMENT")
      BY <1>7, <2>1, <3>1 DEF MarkEmitted
    <3>3. /\ runtime'[s] = "WAITING_SETTLEMENT" /\ owner'[s] = NoOne
          /\ \A t \in Steps \ {s} : runtime'[t] = runtime[t] /\ owner'[t] = owner[t]
      BY <1>0, <1>1, <3>2, LeavesTyped
    <3>4. /\ \A e \in Events \ {Current(s)} : emission'[e] = emission[e]
          /\ emission'[Current(s)] = "EMITTED"
      BY <1>0, <1>1, <3>2 DEF TypeOK
    <3> QED
      BY <1>2, <1>6, <3>3, <3>4 DEF OnlyRow
  <2>2. CASE ~(Owns(w, s) /\ ~lapsed[s])
    BY <1>5, <1>7, <2>2 DEF MarkEmitted
  <2> QED
    BY <2>1, <2>2
<1>8. CASE FailEmission(w)
  <2>1. CASE MayFail(w, s)
    <3>1. /\ \E new \in {"COMPLETE", "PENDING"} : Leaves(s, new)
          /\ emission' = emission \/ emission' = [emission EXCEPT ![Current(s)] = "FAILED"]
      BY <1>8, <2>1 DEF FailEmission
    <3>2. /\ runtime'[s] \in {"COMPLETE", "PENDING"} /\ owner'[s] = NoOne
          /\ \A t \in Steps \ {s} : runtime'[t] = runtime[t] /\ owner'[t] = owner[t]
      BY <1>0, <1>1, <3>1, LeavesTyped
    <3>3. emission[Current(s)] \notin Out
      BY <1>1, <2>1, StepFacts DEF MayFail, Owns
    <3>4. /\ \A e \in Events \ {Current(s)} : emission'[e] = emission[e]
          /\ emission'[Current(s)] \notin Out
      BY <1>0, <1>1, <3>1, <3>3 DEF TypeOK
    <3> QED
      BY <1>2, <1>6, <3>2, <3>4 DEF OnlyRow
  <2>2. CASE ~MayFail(w, s)
    BY <1>5, <1>8, <2>2 DEF FailEmission
  <2> QED
    BY <2>1, <2>2
<1> QED
  BY <1>7, <1>8

LEMMA DeathKeeps ==
    ASSUME IInv, NEW w \in Workers, WorkerDies(w)
    PROVE  (\A s \in Steps : SameRepeat(s)) /\ (\A v \in Workers : Holding(v)')
<1>0. TypeOK
  BY DEF IInv
<1>1. UNCHANGED <<repeat, fate, runtime, owner, emission>>
  BY DEF WorkerDies, steps, emissions, outside
<1>2. at'[w] = "idle" /\ \A v \in Workers \ {w} : at'[v] = at[v] /\ job'[v] = job[v]
  BY <1>0, GoesTyped DEF WorkerDies
<1>3. \A s \in Steps : SameRepeat(s)
  BY <1>1, NoRowKeeps
<1>4. \A v \in Workers \ {w} : Holding(v)'
  BY <1>1, <1>2, HoldingKept DEF Owns
<1>5. Holding(w)'
  BY <1>2 DEF Holding
<1> QED
  BY <1>3, <1>4, <1>5

LEMMA RepeatsAndHolders ==
    ASSUME IInv, [Next]_vars
    PROVE  WaitingIsOut' /\ (\A s \in Steps : InOrder(s)') /\ (\A w \in Workers : Holding(w)')
<1>0. TypeOK /\ \A s \in Steps : Waits(s) /\ InOrder(s)
  BY StepFacts DEF IInv
<1>1. CASE Quiet
  <2>1. \A s \in Steps : Waits(s)' /\ InOrder(s)'
    BY <1>0, <1>1, QuietKeepsRepeat, SameRepeatKeepsOrder
  <2>2. \A w \in Workers : Holding(w)'
    BY <1>1, QuietKeepsHolding
  <2> QED
    BY <2>1, <2>2 DEF Waits, WaitingIsOut
<1>2. ASSUME NEW w \in Workers, Escalate(w) \/ WorkerDies(w)
      PROVE  (\A s \in Steps : Waits(s)' /\ InOrder(s)') /\ (\A v \in Workers : Holding(v)')
  <2>1. (\A s \in Steps : SameRepeat(s)) /\ (\A v \in Workers : Holding(v)')
    BY <1>2, ClaimKeeps, PrepareKeeps, AcceptKeeps, ReportKeeps, DeathKeeps DEF Escalate
  <2> QED
    BY <1>0, <2>1, SameRepeatKeepsOrder
<1>3. ASSUME NEW e \in Events, Settle(e) \/ EventDecided(e) \/ DeliveriesRest(e)
      PROVE  (\A s \in Steps : Waits(s)' /\ InOrder(s)') /\ (\A v \in Workers : Holding(v)')
  <2>1. \A v \in Workers : Holding(v)'
    BY <1>3, SettleKeepsHolding
  <2>2. CASE SettleEmission(e)
    BY <2>1, <2>2, SettlementMovesOn
  <2>3. CASE ~SettleEmission(e)
    <3>1. \A s \in Steps : SameRepeat(s)
      BY <1>3, <2>3, SettleKeepsRepeat DEF Settle
    <3> QED
      BY <1>0, <2>1, <3>1, SameRepeatKeepsOrder
  <2> QED
    BY <2>2, <2>3
<1>4. CASE UNCHANGED vars
  BY <1>1, <1>4 DEF vars, steps, emissions, outside, worker, Quiet
<1>5. CASE Activate \/ People \/ Watch \/ Lapse \/ (\E s \in Steps : StepLapses(s))
  BY <1>1, <1>5, DeskIsQuiet
<1> QED
  BY <1>2, <1>3, <1>4, <1>5 DEF Next, Waits, WaitingIsOut

-----------------------------------------------------------------------------
(* Activation and the stop.                                                *)

LEMMA ActivationOnce == ASSUME IInv, [Next]_vars PROVE PlannedOnceActive'
<1>0. TypeOK
  BY DEF IInv
<1>1. CASE activation = "COMPLETED"
  <2>1. activation' = "COMPLETED"
    <3>1. CASE Activate
      BY <1>1, <3>1 DEF Activate, ClaimActivation, ActivationFree, ActivateIncident, FailActivation
    <3>2. CASE ~Activate
      BY <1>1, <3>2 DEF Next, People, Acknowledge, TransitionIncident, Watch, ClaimDeadline, RecordBreach, Lapse,
         ActivationLapses, DeadlineLapses, SettlementLapses, Escalate, ClaimDueEscalations, PrepareEmission,
         AcceptEvent, MarkEmitted, FailEmission, WorkerDies, StepLapses, Settle, ClaimSettlement, SettleLater,
         SettleEmission, EventDecided, DeliveriesRest, intake, vars
    <3> QED
      BY <3>1, <3>2
  <2> QED
    BY <2>1 DEF PlannedOnceActive
<1>2. CASE activation # "COMPLETED"
  <2>1. status = "none" /\ \A s \in Steps : runtime[s] = "none"
    BY <1>2 DEF IInv, PlannedOnceActive
  <2>2. CASE Activate
    BY <2>1, <2>2 DEF Activate, ClaimActivation, ActivateIncident, FailActivation, PlannedOnceActive, incident, steps
  <2>3. ~People
    BY <2>1 DEF People, Acknowledge, TransitionIncident, Allowed
  <2>4. CASE Watch \/ Lapse \/ UNCHANGED vars
    BY <2>1, <2>4 DEF Watch, ClaimDeadline, RecordBreach, Lapse, ActivationLapses, DeadlineLapses,
       SettlementLapses, PlannedOnceActive, incident, steps, vars
  <2>5. ASSUME NEW s \in Steps PROVE ~StepLapses(s)
    BY <2>1, <2>5 DEF StepLapses
  <2>6. ASSUME NEW e \in Events, Settle(e) \/ EventDecided(e) \/ DeliveriesRest(e) PROVE PlannedOnceActive'
    <3>1. emission[e] \notin Out
      BY <2>1, OutIsCurrent, EventParts
    <3> QED
      BY <2>1, <2>6, <3>1 DEF Settle, ClaimSettlement, SettleLater, SettleEmission, EventDecided, DeliveriesRest,
          PlannedOnceActive, incident, steps
  <2>7. ASSUME NEW w \in Workers, Escalate(w) \/ WorkerDies(w) PROVE PlannedOnceActive'
    <3>1. Swept = {} /\ Claimable = {} /\ \A s \in Steps : ~Owns(w, s)
      BY <2>1 DEF Swept, Claimable, Owns
    <3>2. UNCHANGED <<status, runtime>>
      <4>1. ~ClaimDueEscalations(w)
        BY <3>1 DEF ClaimDueEscalations
      <4>2. CASE PrepareEmission(w)
        <5>1. todo[w] \subseteq Steps
          BY <1>0 DEF TypeOK
        <5> QED
          BY <3>1, <4>2, <5>1 DEF PrepareEmission, incident, steps
      <4>3. CASE AcceptEvent(w) \/ WorkerDies(w)
        BY <4>3 DEF AcceptEvent, WorkerDies, incident, steps
      <4>4. CASE MarkEmitted(w) \/ FailEmission(w)
        <5>1. job[w][1] \in Steps
          BY <4>4, EventParts DEF MarkEmitted, FailEmission, IInv, Holding
        <5> QED
          BY <3>1, <4>4, <5>1 DEF MarkEmitted, FailEmission, MayFail, incident
      <4> QED
        BY <2>7, <4>1, <4>2, <4>3, <4>4 DEF Escalate
    <3> QED
      BY <2>1, <3>2 DEF PlannedOnceActive
  <2> QED
    BY <2>2, <2>3, <2>4, <2>5, <2>6, <2>7 DEF Next
<1> QED
  BY <1>1, <1>2

\* An acknowledgement and the end of an incident are never taken back.
LEMMA StopStays == ASSUME IInv, [Next]_vars, NEW s \in Steps, Ended(s) PROVE Ended(s)'
<1>1. status \in Over => status' \in Over
  <2>1. CASE Activate
    BY <2>1 DEF Activate, ClaimActivation, ActivateIncident, FailActivation, IInv, PlannedOnceActive, incident
  <2>2. CASE People
    BY <2>2 DEF People, Acknowledge, TransitionIncident, Allowed
  <2>3. CASE ~(Activate \/ People)
    BY <2>3 DEF Next, Watch, ClaimDeadline, RecordBreach, Lapse,
         ActivationLapses, DeadlineLapses, SettlementLapses, Escalate, ClaimDueEscalations, PrepareEmission,
         AcceptEvent, MarkEmitted, FailEmission, WorkerDies, StepLapses, Settle, ClaimSettlement, SettleLater,
         SettleEmission, EventDecided, DeliveriesRest, incident, vars
  <2> QED
    BY <2>1, <2>2, <2>3
<1>2. acked => acked'
  <2>1. CASE People
    BY <2>1 DEF People, Acknowledge, TransitionIncident
  <2>2. CASE ~People
    BY <2>2 DEF Next, Activate, ClaimActivation, ActivateIncident, FailActivation, Watch, ClaimDeadline,
         RecordBreach, Lapse, ActivationLapses, DeadlineLapses, SettlementLapses, Escalate, ClaimDueEscalations,
         PrepareEmission, AcceptEvent, MarkEmitted, FailEmission, WorkerDies, StepLapses, Settle, ClaimSettlement,
         SettleLater, SettleEmission, EventDecided, DeliveriesRest, incident, vars
  <2> QED
    BY <2>1, <2>2
<1> QED
  BY <1>1, <1>2 DEF Ended

\* A step that was stopped does not move to another repeat.
LEMMA StoppedStep == ASSUME IInv, [Next]_vars, NEW s \in Steps, Ended(s) PROVE repeat'[s] = repeat[s]
<1>0. TypeOK
  BY DEF IInv
<1>1. ASSUME NEW e \in Events, SettleEmission(e) PROVE repeat'[s] = repeat[s]
  <2>1. CASE s = e[1]
    <3>1. Stopped(s)
      BY DEF Ended, Stopped
    <3> QED
      BY <1>0, <1>1, <2>1, <3>1 DEF SettleEmission, TypeOK
  <2>2. CASE s # e[1]
    BY <1>0, <1>1, <2>2 DEF SettleEmission, TypeOK
  <2> QED
    BY <2>1, <2>2
<1>2. UNCHANGED repeat \/ \E e \in Events : SettleEmission(e)
  BY DEF Next, Activate, ClaimActivation, ActivateIncident, FailActivation, People, Acknowledge, TransitionIncident,
         Watch, ClaimDeadline, RecordBreach, Lapse, ActivationLapses, DeadlineLapses, SettlementLapses, Escalate,
         ClaimDueEscalations, PrepareEmission, AcceptEvent, MarkEmitted, FailEmission, WorkerDies, StepLapses,
         Settle, ClaimSettlement, SettleLater, EventDecided, DeliveriesRest, steps, vars
<1> QED
  BY <1>1, <1>2

LEMMA StopIsKept == ASSUME IInv, [Next]_vars PROVE StoppedThere'
<1>0. TypeOK /\ StoppedThere
  BY DEF IInv
<1>1. SUFFICES ASSUME NEW e \in afterStop' PROVE Ended(e[1])' /\ e[2] = repeat'[e[1]]
  BY DEF StoppedThere, Ended
<1>2. CASE e \in afterStop
  <2>1. e \in Events /\ e[1] \in Steps
    BY <1>0, <1>2, EventParts DEF TypeOK
  <2>2. Ended(e[1]) /\ e[2] = repeat[e[1]]
    BY <1>0, <1>2 DEF StoppedThere
  <2>3. PICK s \in Steps : s = e[1]
    BY <2>1
  <2>4. Ended(s)' /\ repeat'[s] = repeat[s]
    BY <2>2, <2>3, StopStays, StoppedStep
  <2> QED
    BY <2>2, <2>3, <2>4 DEF Ended
<1>3. CASE e \notin afterStop
  <2>1. \E w \in Workers : AcceptEvent(w)
    BY <1>1, <1>3 DEF Next, Activate, ClaimActivation, ActivateIncident, FailActivation, People, Acknowledge,
         TransitionIncident, Watch, ClaimDeadline, RecordBreach, Lapse, ActivationLapses, DeadlineLapses,
         SettlementLapses, Escalate, ClaimDueEscalations, PrepareEmission, MarkEmitted, FailEmission, WorkerDies,
         StepLapses, Settle, ClaimSettlement, SettleLater, SettleEmission, EventDecided, DeliveriesRest, outside, vars
  <2>2. PICK w \in Workers : AcceptEvent(w)
    BY <2>1
  <2>3. e = job[w] /\ fate[e] = "none" /\ Ended(e[1]) /\ UNCHANGED <<status, acked, repeat>>
    BY <1>1, <1>3, <2>2 DEF AcceptEvent, outside, incident, steps
  <2>4. e \in Events /\ e[2] <= repeat[e[1]]
    BY <2>2, <2>3 DEF AcceptEvent, IInv, Holding
  <2>5. e[2] = repeat[e[1]]
    BY <2>3, <2>4, UnsettledIsCurrent
  <2> QED
    BY <2>3, <2>5 DEF Ended
<1> QED
  BY <1>2, <1>3

-----------------------------------------------------------------------------
(* The theorems.                                                           *)

LEMMA InitHolds == Init => IInv
<1> SUFFICES ASSUME Init PROVE IInv
  OBVIOUS
<1>1. TypeOK
  BY InitTyped
<1>2. PlannedOnceActive /\ StoppedThere /\ \A w \in Workers : Holding(w)
  BY DEF Init, PlannedOnceActive, StoppedThere, Holding
<1>3. WaitingIsOut /\ \A s \in Steps : InOrder(s)
  BY EventParts DEF Init, WaitingIsOut, InOrder
<1> QED
  BY <1>1, <1>2, <1>3 DEF IInv

\* Every reachable state has the invariant, whatever is acknowledged, claimed, lost or
\* answered late.
THEOREM Inductive == Spec => []IInv
<1>1. IInv /\ [Next]_vars => IInv'
  <2>1. IInv /\ [Next]_vars => TypeOK'
    BY NextTyped DEF IInv
  <2> QED
    BY <2>1, RepeatsAndHolders, ActivationOnce, StopIsKept DEF IInv
<1> QED
  BY <1>1, InitHolds, PTL DEF Spec

\* The rows of the incident, its steps and its emissions keep the values of their
\* columns, and no counter leaves its bound.
THEOREM TypeCorrect == Spec => []TypeOK
<1>1. IInv => TypeOK
  BY DEF IInv
<1> QED
  BY <1>1, Inductive, PTL

\* A step waits for a settlement exactly while its present emission is out, although
\* workers that lost their claim still mark and fail.
THEOREM WaitsForWhatIsOut == Spec => []WaitingIsOut
<1>1. IInv => WaitingIsOut
  BY DEF IInv
<1> QED
  BY <1>1, Inductive, PTL

\* Nobody is notified by a repeat of a step before the repeat before it came to rest.
THEOREM RepeatsAreOrdered == Spec => []RepeatsInOrder
<1>1. IInv => RepeatsInOrder
  <2> SUFFICES ASSUME IInv, NEW s \in Steps, NEW n \in 1..Repeats, fate[<<s, n>>] # "none", NEW m \in 1..(n - 1)
               PROVE  fate[<<s, m>>] = "rest" /\ emission[<<s, m>>] = "SETTLED"
    BY DEF RepeatsInOrder
  <2>1. InOrder(s) /\ repeat[s] \in 1..Repeats
    BY StepFacts
  <2>2. ~(n > repeat[s])
    BY <2>1 DEF InOrder
  <2>3. m \in 1..Repeats /\ m < repeat[s]
    BY <2>1, <2>2, EscalationAssumption
  <2> QED
    BY <2>1, <2>3 DEF InOrder
<1> QED
  BY <1>1, Inductive, PTL

\* An acknowledgement or the end of an incident lets at most one more event of a
\* step out, whatever was claimed, prepared or settling when it came.
THEOREM StopIsFelt == Spec => []AtMostOneAfterStop
<1>1. IInv => AtMostOneAfterStop
  <2> SUFFICES ASSUME IInv, NEW s \in Steps
               PROVE  Cardinality({n \in 1..Repeats : <<s, n>> \in afterStop}) <= 1
    BY DEF AtMostOneAfterStop
  <2> DEFINE Late == {n \in 1..Repeats : <<s, n>> \in afterStop}
  <2>1. Late \subseteq {repeat[s]}
    BY DEF IInv, StoppedThere
  <2>2. IsFiniteSet({repeat[s]}) /\ Cardinality({repeat[s]}) = 1
    BY FS_Singleton
  <2>3. Cardinality(Late) <= Cardinality({repeat[s]})
    BY <2>1, <2>2, FS_Subset
  <2> QED
    BY <2>2, <2>3
<1> QED
  BY <1>1, Inductive, PTL

\* Nobody takes back an acknowledgement or the end of an incident, and a step that
\* was stopped by one stays at its repeat.
THEOREM StopIsFinal ==
    Spec => [][\A s \in Steps : Ended(s) => Ended(s)' /\ repeat'[s] = repeat[s]]_vars
<1>1. IInv /\ [Next]_vars => [\A s \in Steps : Ended(s) => Ended(s)' /\ repeat'[s] = repeat[s]]_vars
  BY StopStays, StoppedStep
<1> QED
  BY <1>1, Inductive, PTL DEF Spec

=============================================================================
