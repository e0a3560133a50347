--------------------------- MODULE EventPlanning ---------------------------
(***************************************************************************)
(* Slice 10B: operational events are accepted once, queued for planning,   *)
(* claimed in batches under a lease and turned into one sealed decision:   *)
(* notify, suppress, or do nothing.                                        *)
(*                                                                         *)
(* Every SQL function, and the decision transaction, is one action; what a *)
(* planner read before the transaction is in its plan.  All events belong  *)
(* to one suppression group and the clock of decision_basis_at is the      *)
(* order of receipt.  The lock columns of event_planning_outbox only make  *)
(* two simultaneous claims exclusive (they are set and end with the        *)
(* lease), and an attempt row is written by its own planner only: neither  *)
(* is kept.  attempt_count counts up to MaxAttempts, the only number it is *)
(* compared with.                                                          *)
(***************************************************************************)
EXTENDS Naturals, FiniteSets

CONSTANTS
    Events,       \* source events, by (source_id, source_event_id)
    Workers,      \* planner processes
    Rules,        \* enabled suppression rules that match, numbered by rule_key
    Channels,     \* EMAIL, SMS
    Scope,        \* Scope[r]: the channel of rule r, or Everything
    Everything,   \* NULL: a rule without a channel
    Window,       \* window_seconds, in events received
    MaxAttempts,  \* DOMAIN10_PLANNER_MAX_ATTEMPTS
    BatchSize,    \* DOMAIN10_PLANNER_BATCH_SIZE
    NoOne         \* NULL: no lease, no event

ASSUME PlanningAssumption ==
    /\ IsFiniteSet(Events)
    /\ Window \in Nat /\ MaxAttempts \in Nat \ {0} /\ BatchSize \in Nat \ {0}
    /\ Rules \subseteq Nat /\ Scope \in [Rules -> Channels \cup {Everything}] /\ Everything \notin Channels
    /\ NoOne \notin Events \cup Workers

Waiting == {"PENDING", "FAILED"}
Outcomes == {"NOTIFY", "SUPPRESSED", "NO_POLICY", "NO_RECIPIENTS"}

VARIABLES
    basis,                   \* decision_basis_at: place in the order of receipt, 0 before it
    state, owner, lapsed,    \* event_processing: state, lease owner, lease over
    attempts,                \* event_processing.attempt_count
    due, closed,             \* event_planning_outbox: available, completed_at set
    decision,                \* notification_decisions
    passed,                  \* suppression_decisions with suppressed = false: the rules
    dropped,                 \* events with an attempt that ended in FINAL_FAILURE
    todo, at, job, number,   \* a planner: batch left, place, event, attempt number
    plan                     \* a planner: what it read and decided

queue == <<due, closed>>
processing == <<state, owner, lapsed, attempts>>
evidence == <<decision, passed>>
planner == <<todo, at, job, number, plan>>
vars == <<basis, processing, queue, evidence, dropped, planner>>

NoPlan == [outcome |-> "none", unread |-> Rules, passes |-> {}, retryable |-> TRUE]

Init ==
    /\ basis = [e \in Events |-> 0]
    /\ state = [e \in Events |-> "none"] /\ owner = [e \in Events |-> NoOne]
    /\ lapsed = [e \in Events |-> FALSE] /\ attempts = [e \in Events |-> 0]
    /\ due = [e \in Events |-> TRUE] /\ closed = [e \in Events |-> FALSE]
    /\ decision = [e \in Events |-> "none"] /\ passed = [e \in Events |-> {}]
    /\ dropped = {}
    /\ todo = [w \in Workers |-> {}] /\ at = [w \in Workers |-> "idle"]
    /\ job = [w \in Workers |-> NoOne] /\ number = [w \in Workers |-> 0]
    /\ plan = [w \in Workers |-> NoPlan]

-----------------------------------------------------------------------------
(* Intake.  A replay with the same envelope changes nothing, another        *)
(* envelope under the same source event id is refused.                     *)

Received == {e \in Events : basis[e] > 0}

\* Mutant: a replayed event is received again.
IngestAgain(e) ==
    /\ state[e] \in {"none"} \cup Waiting
    /\ basis' = [basis EXCEPT ![e] = Cardinality(Received) + 1]
    /\ state' = [state EXCEPT ![e] = "PENDING"]
    /\ UNCHANGED <<owner, lapsed, attempts, queue, evidence, dropped, planner>>

IngestOperationalEvent(e) ==
    /\ e \notin Received
    /\ basis' = [basis EXCEPT ![e] = Cardinality(Received) + 1]
    /\ state' = [state EXCEPT ![e] = "PENDING"]
    /\ UNCHANGED <<owner, lapsed, attempts, queue, evidence, dropped, planner>>

-----------------------------------------------------------------------------
(* The planner.                                                            *)

Swept == {e \in Events : state[e] = "PLANNING" /\ lapsed[e]}

Claimable == {e \in Events : due[e] /\ ~closed[e] /\ (state[e] \in Waiting \/ e \in Swept)}

\* claim_event_planning_outbox: expired leases return to PENDING, then a batch is taken.
ClaimPlanningItems(w) ==
    /\ at[w] = "idle" /\ todo[w] = {}
    /\ Swept \cup Claimable # {}
    /\ \E batch \in SUBSET Claimable :
        /\ Cardinality(batch) <= BatchSize /\ (Claimable # {} => batch # {})
        /\ state' = [e \in Events |->
                        IF e \in batch THEN "PLANNING" ELSE IF e \in Swept THEN "PENDING" ELSE state[e]]
        /\ owner' = [e \in Events |->
                        IF e \in batch THEN w ELSE IF e \in Swept THEN NoOne ELSE owner[e]]
        /\ lapsed' = [e \in Events |-> lapsed[e] /\ e \notin batch \cup Swept]
        /\ todo' = [todo EXCEPT ![w] = batch]
    /\ UNCHANGED <<basis, attempts, queue, evidence, dropped, at, job, number, plan>>

Goes(w, place, e, n, p) ==
    /\ at' = [at EXCEPT ![w] = place]
    /\ job' = [job EXCEPT ![w] = e]
    /\ number' = [number EXCEPT ![w] = n]
    /\ plan' = [plan EXCEPT ![w] = p]

Owns(w, e) == state[e] = "PLANNING" /\ owner[e] = w

CountUp(n) == IF n < MaxAttempts THEN n + 1 ELSE n

\* begin_event_planning_attempt, or "Planner lease lost": the item is skipped.
BeginPlanningAttempt(w) ==
    /\ at[w] = "idle"
    /\ \E e \in todo[w] :
        /\ todo' = [todo EXCEPT ![w] = @ \ {e}]
        /\ \/ /\ Owns(w, e) /\ ~lapsed[e]
              /\ attempts' = [attempts EXCEPT ![e] = CountUp(@)]
              /\ Goes(w, "read", e, CountUp(attempts[e]), NoPlan)
           \/ /\ ~(Owns(w, e) /\ ~lapsed[e])
              /\ UNCHANGED <<attempts, at, job, number, plan>>
    /\ UNCHANGED <<basis, state, owner, lapsed, queue, evidence, dropped>>

\* hasRecentMatchingDecision.
Recent(r, e) ==
    \E f \in Events : r \in passed[f] /\ basis[f] < basis[e] /\ basis[f] + Window >= basis[e]

\* evaluateSuppression: one query per rule, in the order of rule_key.
EvaluateRule(w, r) ==
    /\ at[w] = "read" /\ r \in plan[w].unread /\ \A q \in plan[w].unread : r <= q
    /\ Goes(w, "read", job[w], number[w],
            [plan[w] EXCEPT !.unread = @ \ {r},
                            !.passes = IF Recent(r, job[w]) THEN @ ELSE @ \cup {r}])
    /\ UNCHANGED <<basis, processing, queue, evidence, dropped, todo>>

Failing(w) == Rules \ plan[w].passes

\* globalSuppression.
Suppressed(w) == \E r \in Failing(w) : Scope[r] = Everything

\* Channels that are authorised for somebody and that no rule mutes.
Selected(w, authorized) == authorized \ {Scope[r] : r \in Failing(w)}

\* planNotificationForEvent after the suppression rules; no policy matching ends
\* it before them, an ambiguous or invalid configuration anywhere.
Decide(w) ==
    LET Decided(o) == Goes(w, "commit", job[w], number[w], [plan[w] EXCEPT !.outcome = o])
    IN  /\ at[w] = "read"
        /\ \/ plan[w].unread = Rules /\ Decided("NO_POLICY")
           \/ /\ plan[w].unread = {}
              /\ \/ Suppressed(w) /\ Decided("SUPPRESSED")
                 \/ /\ ~Suppressed(w)
                    /\ \E authorized \in SUBSET Channels :
                          IF Selected(w, authorized) = {}
                          THEN Decided("NO_RECIPIENTS") ELSE Decided("NOTIFY")
           \/ \E again \in BOOLEAN :
                 Goes(w, "fail", job[w], number[w], [NoPlan EXCEPT !.retryable = again])
        /\ UNCHANGED <<basis, processing, queue, evidence, dropped, todo>>

\* Mutant: suppressed evaluations are persisted like the others.
LoggedAll(w) == IF plan[w].outcome = "NO_POLICY" THEN {} ELSE Rules

\* persistSuppressionEvaluations: the rules the event passed.
Logged(w) == plan[w].passes

Idle(w) == Goes(w, "idle", NoOne, 0, NoPlan) /\ UNCHANGED todo

\* complete_event_planning asks for the owner, not for the time.
CommitAllowed(w) == Owns(w, job[w]) /\ decision[job[w]] = "none"

\* commitNoActionDecision and commitNotificationPlan: decision, evidence and
\* completion in one transaction.
CommitDecision(w) ==
    LET e == job[w] IN
    /\ at[w] = "commit" /\ CommitAllowed(w)
    /\ decision' = [decision EXCEPT ![e] = plan[w].outcome]
    /\ passed' = [passed EXCEPT ![e] = Logged(w)]
    /\ state' = [state EXCEPT ![e] = IF plan[w].outcome = "SUPPRESSED" THEN "SUPPRESSED" ELSE "PLANNED"]
    /\ owner' = [owner EXCEPT ![e] = NoOne]
    /\ lapsed' = [lapsed EXCEPT ![e] = FALSE]
    /\ closed' = [closed EXCEPT ![e] = TRUE]
    /\ Idle(w)
    /\ UNCHANGED <<basis, attempts, due, dropped>>

\* The transaction rolls back: the event is not its own any more, the database
\* rejects the winner, the candidates or a recipient, or it fails.
CommitRolledBack(w) ==
    /\ at[w] = "commit"
    /\ Goes(w, "fail", job[w], number[w], NoPlan)
    /\ UNCHANGED <<basis, processing, queue, evidence, dropped, todo>>

\* Mutant: retryable failures are retried for ever.
RetriesAlways(w) == plan[w].retryable

\* The count compared is the planner's own number and the row's present one.
Retries(w) == plan[w].retryable /\ number[w] < MaxAttempts /\ attempts[job[w]] < MaxAttempts

\* Mutant: a failure is recorded on the event whoever owns it.
OwnRowAnyone(w) == TRUE

OwnRow(w) == owner[job[w]] = w

\* fail_event_planning: event_processing only for the lease owner, the queue
\* entry whoever owns it now.
FailEventPlanning(w) ==
    LET e == job[w] IN
    /\ at[w] = "fail"
    /\ IF OwnRow(w)
       THEN /\ state' = [state EXCEPT ![e] = "FAILED"]
            /\ owner' = [owner EXCEPT ![e] = NoOne]
            /\ lapsed' = [lapsed EXCEPT ![e] = FALSE]
       ELSE UNCHANGED <<state, owner, lapsed>>
    /\ due' = [due EXCEPT ![e] = @ /\ ~Retries(w)]
    /\ closed' = [closed EXCEPT ![e] = ~Retries(w)]
    /\ dropped' = IF Retries(w) THEN dropped ELSE dropped \cup {e}
    /\ Idle(w)
    /\ UNCHANGED <<basis, attempts, evidence>>

BecomesDue(e) ==
    /\ ~due[e] /\ due' = [due EXCEPT ![e] = TRUE]
    /\ UNCHANGED <<basis, processing, closed, evidence, dropped, planner>>

Plan(w) ==
    \/ ClaimPlanningItems(w) \/ BeginPlanningAttempt(w) \/ Decide(w)
    \/ (\E r \in Rules : EvaluateRule(w, r))
    \/ CommitDecision(w) \/ CommitRolledBack(w) \/ FailEventPlanning(w)

-----------------------------------------------------------------------------
(* Faults.                                                                 *)

\* The process dies, or a statement of its own bookkeeping fails.
PlannerDies(w) ==
    /\ at[w] # "idle" \/ todo[w] # {}
    /\ Goes(w, "idle", NoOne, 0, NoPlan) /\ todo' = [todo EXCEPT ![w] = {}]
    /\ UNCHANGED <<basis, processing, queue, evidence, dropped>>

LeaseLapses(e) ==
    /\ state[e] = "PLANNING" /\ ~lapsed[e]
    /\ lapsed' = [lapsed EXCEPT ![e] = TRUE]
    /\ UNCHANGED <<basis, state, owner, attempts, queue, evidence, dropped, planner>>

Next ==
    \/ \E e \in Events : IngestOperationalEvent(e) \/ BecomesDue(e) \/ LeaseLapses(e)
    \/ \E w \in Workers : Plan(w) \/ PlannerDies(w)

Spec == Init /\ [][Next]_vars

-----------------------------------------------------------------------------
(* Properties.                                                             *)

Plans == [outcome : Outcomes \cup {"none"}, unread : SUBSET Rules, passes : SUBSET Rules, retryable : BOOLEAN]

\* The rows hold values of their columns and a planner is at one of its statements.
TypeOK ==
    /\ basis \in [Events -> 0..Cardinality(Events)]
    /\ state \in [Events -> Waiting \cup {"none", "PLANNING", "PLANNED", "SUPPRESSED"}]
    /\ owner \in [Events -> Workers \cup {NoOne}] /\ lapsed \in [Events -> BOOLEAN]
    /\ attempts \in [Events -> 0..MaxAttempts]
    /\ due \in [Events -> BOOLEAN] /\ closed \in [Events -> BOOLEAN]
    /\ decision \in [Events -> Outcomes \cup {"none"}] /\ passed \in [Events -> SUBSET Rules]
    /\ dropped \subseteq Events
    /\ todo \in [Workers -> SUBSET Events] /\ job \in [Workers -> Events \cup {NoOne}]
    /\ at \in [Workers -> {"idle", "read", "commit", "fail"}]
    /\ number \in [Workers -> 0..MaxAttempts] /\ plan \in [Workers -> Plans]

\* An event is decided exactly when it left the planning states, whatever late
\* planners, whose lease went to another, still commit or fail.
DecidedIsPlanned ==
    \A e \in Events :
        /\ decision[e] # "none" <=> state[e] \in {"PLANNED", "SUPPRESSED"}
        /\ decision[e] = "SUPPRESSED" <=> state[e] = "SUPPRESSED"

\* Suppression never feeds on itself: an event is suppressed only by an earlier
\* one in its window that the same rule let through.
SuppressionHasCause ==
    \A e \in Events : decision[e] = "SUPPRESSED" =>
        \E f \in Received, r \in Rules \ passed[e] :
            /\ Scope[r] = Everything /\ r \in passed[f]
            /\ basis[f] < basis[e] /\ basis[f] + Window >= basis[e]

=============================================================================
