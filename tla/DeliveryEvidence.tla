-------------------------- MODULE DeliveryEvidence --------------------------
(***************************************************************************)
(* What happens to an SMS after the executor handed it to Telnyx: the      *)
(* delivery-status webhooks that settle it (apply_telnyx_delivery_event_   *)
(* 10c), the reconciliation tasks for everything doubtful, the worker that *)
(* surfaces them for review and the operator that resolves them.           *)
(*                                                                         *)
(* The webhook layer hands over every event at least once and in any       *)
(* order.  The executor appears only by the ways in which a send ends;     *)
(* DeliveryExecution models it.  A stored function is one action: it locks *)
(* the delivery or the task it changes.                                    *)
(***************************************************************************)
EXTENDS Naturals, FiniteSets

CONSTANTS
    Deliveries,      \* SMS deliveries, each with the message id of its last attempt
    Events,          \* provider_event_id of the status webhooks
    Workers,         \* reconciliation processes, by worker id
    MaxTime,         \* occurred_at is in 1 .. MaxTime
    BatchSize,       \* DOMAIN10_RECONCILIATION_BATCH_SIZE
    NoOne            \* NULL: no lease owner

ASSUME EvidenceAssumption == /\ IsFiniteSet(Events)
                             /\ MaxTime \in Nat \ {0}
                             /\ BatchSize \in Nat \ {0}
                             /\ NoOne \notin Workers

States == {"SENDING", "ACCEPTED_BY_PROVIDER", "UNKNOWN_PROVIDER_OUTCOME",
           "DELIVERED", "DEAD_LETTERED"}

\* message.sent carries "sent"; message.finalized one of the others.
Failures == {"sending_failed", "delivery_failed"}
Terminal == {"delivered"} \cup Failures
Reports == {"sent", "delivery_unconfirmed"} \cup Terminal

TaskStates == {"NONE", "PENDING", "CLAIMED", "MANUAL_REVIEW_REQUIRED",
               "RESOLVED", "CANCELLED"}
Kinds == {"UNMATCHED_DELIVERY_EVENT", "STALE_DELIVERY_EVENT", "TELNYX_SENT",
          "TELNYX_FINALIZED"}

VARIABLES
    says,            \* what each webhook says: delivery, status, occurred_at
    state,           \* notification_deliveries.state
    known,           \* deliveries whose attempt row holds the message id
    kind,            \* provider_receipts.receipt_type of each event on file
    order,           \* receipt_id: position of each event on file, 0 otherwise
    task, taskOwner, taskLive,    \* delivery_reconciliation_tasks_10c
    todo             \* claimed tasks a worker has yet to surface

vars == <<says, state, known, kind, order, task, taskOwner, taskLive, todo>>
delivery == <<says, state, known>>
receipts == <<kind, order>>
tasks == <<task, taskOwner, taskLive>>

Init ==
    /\ says \in [Events -> [of : Deliveries, status : Reports, at : 1 .. MaxTime]]
    /\ state = [d \in Deliveries |-> "SENDING"]
    /\ known = {}
    /\ kind = [e \in Events |-> "NONE"]
    /\ order = [e \in Events |-> 0]
    /\ task = [d \in Deliveries |-> "NONE"]
    /\ taskOwner = [d \in Deliveries |-> NoOne]
    /\ taskLive = [d \in Deliveries |-> FALSE]
    /\ todo = [w \in Workers |-> {}]

-----------------------------------------------------------------------------
(* How a send ends.                                                        *)

\* INSERT ... ON CONFLICT(delivery_id) DO NOTHING
Asks(d) == task' = [task EXCEPT ![d] = IF @ = "NONE" THEN "PENDING" ELSE @]

\* record_provider_acceptance stores the message id Telnyx returned.
Accepted(d) ==
    /\ state[d] = "SENDING"
    /\ state' = [state EXCEPT ![d] = "ACCEPTED_BY_PROVIDER"]
    /\ known' = known \cup {d}
    /\ UNCHANGED <<says, receipts, tasks, todo>>

\* fail_delivery_execution_10c after a doubtful answer.
Doubtful(d) ==
    /\ state[d] = "SENDING"
    /\ state' = [state EXCEPT ![d] = "UNKNOWN_PROVIDER_OUTCOME"]
    /\ Asks(d)
    /\ UNCHANGED <<says, known, receipts, taskOwner, taskLive, todo>>

\* The lease of the send lapses, or the failure is final: no task, no message id.
GivenUp(d) ==
    /\ state[d] = "SENDING"
    /\ \E s \in {"UNKNOWN_PROVIDER_OUTCOME", "DEAD_LETTERED"} :
         state' = [state EXCEPT ![d] = s]
    /\ UNCHANGED <<says, known, receipts, tasks, todo>>

-----------------------------------------------------------------------------
(* apply_telnyx_delivery_event_10c, one operator per way it returns.       *)

OnFile == {e \in Events : kind[e] # "NONE"}

\* Files the event under a type; receipt_id counts up.
Files(e, k) ==
    /\ kind' = [kind EXCEPT ![e] = k]
    /\ order' = [order EXCEPT ![e] = Cardinality(OnFile) + 1]

Duplicate(e) ==
    /\ e \in OnFile
    /\ UNCHANGED vars

Unmatched(e) ==
    /\ e \notin OnFile /\ says[e].of \notin known
    /\ Files(e, "UNMATCHED_DELIVERY_EVENT")
    /\ UNCHANGED <<delivery, tasks, todo>>

Filed(d) == {f \in OnFile : says[f].of = d}

Newer(e, f) == \/ says[e].at > says[f].at
               \/ says[e].at = says[f].at /\ order[e] > order[f]

\* The event the newest-first query of the receipts finds; unmatched and stale
\* ones are of the same evidence source and count.
Latest(d) == {e \in Filed(d) : \A f \in Filed(d) \ {e} : Newer(e, f)}

\* Mutant: every event is taken for the newest.
IsStaleNever(e) == FALSE

IsStale(e) == \E f \in Latest(says[e].of) : says[e].at < says[f].at

Stale(e) ==
    /\ e \notin OnFile /\ says[e].of \in known /\ IsStale(e)
    /\ Files(e, "STALE_DELIVERY_EVENT")
    /\ UNCHANGED <<delivery, tasks, todo>>

\* A matched event that is not stale.
Applies(e) == e \notin OnFile /\ says[e].of \in known /\ ~IsStale(e)

Contradicts(e) ==
    \E f \in Latest(says[e].of) :
        /\ {says[e].status, says[f].status} \subseteq Terminal
        /\ says[e].status # says[f].status

Sent(e) ==
    /\ Applies(e) /\ says[e].status = "sent"
    /\ Files(e, "TELNYX_SENT")
    /\ UNCHANGED <<delivery, tasks, todo>>

\* The task goes (back) to PENDING, but the trigger of 517 lets only CLAIMED
\* tasks go back: an update of a task under review, resolved or cancelled raises
\* and takes the receipt down with it.
Reopenable(d) == task[d] \in {"NONE", "PENDING", "CLAIMED"}

\* Mutant: the contradictory event is filed and nothing else happens.
ConflictUnrouted(e) ==
    /\ Applies(e) /\ Contradicts(e) /\ Reopenable(says[e].of)
    /\ Files(e, "TELNYX_FINALIZED")
    /\ UNCHANGED <<delivery, tasks, todo>>

Conflict(e) ==
    LET d == says[e].of
    IN  /\ Applies(e) /\ Contradicts(e) /\ Reopenable(d)
        /\ Files(e, "TELNYX_FINALIZED")
        /\ task' = [task EXCEPT ![d] = "PENDING"]
        /\ UNCHANGED <<delivery, taskOwner, taskLive, todo>>

ConflictRaises(e) ==
    /\ Applies(e) /\ Contradicts(e) /\ ~Reopenable(says[e].of)
    /\ UNCHANGED vars

Finalized(e, S) ==
    /\ Applies(e) /\ ~Contradicts(e) /\ says[e].status \in S
    /\ Files(e, "TELNYX_FINALIZED")
    /\ UNCHANGED <<says, known, taskOwner, taskLive, todo>>

Settles(d, s) ==
    /\ state[d] = "ACCEPTED_BY_PROVIDER"
    /\ state' = [state EXCEPT ![d] = s]
    /\ UNCHANGED task

\* record_final_delivery, or a task when the delivery is dead already.
Delivered(e) ==
    LET d == says[e].of
    IN  /\ Finalized(e, {"delivered"})
        /\ \/ Settles(d, "DELIVERED")
           \/ /\ state[d] \notin {"ACCEPTED_BY_PROVIDER", "DELIVERED"}
              /\ Asks(d) /\ UNCHANGED state
           \/ state[d] = "DELIVERED" /\ UNCHANGED <<state, task>>

\* FAILED_FINAL and on to DEAD_LETTERED in one transaction.
Failed(e) ==
    LET d == says[e].of
    IN  /\ Finalized(e, Failures)
        /\ \/ Settles(d, "DEAD_LETTERED")
           \/ /\ state[d] \notin {"ACCEPTED_BY_PROVIDER", "DEAD_LETTERED"}
              /\ Asks(d) /\ UNCHANGED state
           \/ state[d] = "DEAD_LETTERED" /\ UNCHANGED <<state, task>>

Unconfirmed(e) ==
    /\ Finalized(e, {"delivery_unconfirmed"})
    /\ Asks(says[e].of) /\ UNCHANGED state

Webhook(e) ==
    \/ Duplicate(e) \/ Unmatched(e) \/ Stale(e) \/ Sent(e) \/ Conflict(e)
    \/ ConflictRaises(e) \/ Delivered(e) \/ Failed(e) \/ Unconfirmed(e)

-----------------------------------------------------------------------------
(* Reconciliation.                                                         *)

Lapsed == {d \in Deliveries : task[d] = "CLAIMED" /\ ~taskLive[d]}
\* Mutant: lapsed claims are not recovered.
ReadyNoRecovery == {d \in Deliveries : task[d] = "PENDING" /\ ~taskLive[d]}

Ready == Lapsed \cup {d \in Deliveries : task[d] = "PENDING" /\ ~taskLive[d]}

\* claim_delivery_reconciliation_10c: lapsed claims go back to PENDING, then a
\* batch of the pending tasks without a live lease is claimed.
ClaimTasks(w) ==
    /\ todo[w] = {}
    /\ \E picked \in (SUBSET Ready) \ {{}} :
         /\ Cardinality(picked) <= BatchSize
         /\ task' = [d \in Deliveries |-> IF d \in picked THEN "CLAIMED"
                                          ELSE IF d \in Lapsed THEN "PENDING" ELSE task[d]]
         /\ taskOwner' = [d \in Deliveries |-> IF d \in picked THEN w
                                          ELSE IF d \in Lapsed THEN NoOne ELSE taskOwner[d]]
         /\ taskLive' = [d \in Deliveries |-> d \in picked \/ taskLive[d]]
         /\ todo' = [todo EXCEPT ![w] = picked]
    /\ UNCHANGED <<delivery, receipts>>

Holds(w, d) == task[d] = "CLAIMED" /\ taskOwner[d] = w /\ taskLive[d]

\* Mutant: the lease outlives its owner.
SurfaceKeepsLease(w, d) ==
    /\ d \in todo[w] /\ Holds(w, d)
    /\ task' = [task EXCEPT ![d] = "MANUAL_REVIEW_REQUIRED"]
    /\ taskOwner' = [taskOwner EXCEPT ![d] = NoOne]
    /\ todo' = [todo EXCEPT ![w] = @ \ {d}]
    /\ UNCHANGED <<delivery, receipts, taskLive>>

\* mark_delivery_reconciliation_manual_review_10c on the next task of the batch.
Surface(w, d) ==
    /\ d \in todo[w] /\ Holds(w, d)
    /\ task' = [task EXCEPT ![d] = "MANUAL_REVIEW_REQUIRED"]
    /\ taskOwner' = [taskOwner EXCEPT ![d] = NoOne]
    /\ taskLive' = [taskLive EXCEPT ![d] = FALSE]
    /\ todo' = [todo EXCEPT ![w] = @ \ {d}]
    /\ UNCHANGED <<delivery, receipts>>

\* The lease is lost: the exception leaves surfaceReconciliationBatch, and the
\* rest of the batch stays claimed.
SurfaceRaises(w, d) ==
    /\ d \in todo[w] /\ ~Holds(w, d)
    /\ todo' = [todo EXCEPT ![w] = {}]
    /\ UNCHANGED <<delivery, receipts, tasks>>

\* resolve_delivery_reconciliation_10c, called for an operator.
Resolve(d, s) ==
    /\ task[d] \in {"MANUAL_REVIEW_REQUIRED", "CLAIMED"}
    /\ task' = [task EXCEPT ![d] = s]
    /\ taskOwner' = [taskOwner EXCEPT ![d] = NoOne]
    /\ taskLive' = [taskLive EXCEPT ![d] = FALSE]
    /\ UNCHANGED <<delivery, receipts, todo>>

LeaseExpires(d) ==
    /\ taskLive[d]
    /\ taskLive' = [taskLive EXCEPT ![d] = FALSE]
    /\ UNCHANGED <<delivery, receipts, task, taskOwner, todo>>

\* A process dies, or its connection, in the middle of a batch.
Crash(w) ==
    /\ todo[w] # {}
    /\ todo' = [todo EXCEPT ![w] = {}]
    /\ UNCHANGED <<delivery, receipts, tasks>>

Work(w) == ClaimTasks(w) \/ \E d \in Deliveries : Surface(w, d) \/ SurfaceRaises(w, d)

Next ==
    \/ \E d \in Deliveries : Accepted(d) \/ Doubtful(d) \/ GivenUp(d) \/ LeaseExpires(d)
    \/ \E d \in Deliveries, s \in {"RESOLVED", "CANCELLED"} : Resolve(d, s)
    \/ \E e \in Events : Webhook(e)
    \/ \E w \in Workers : Work(w) \/ Crash(w)

Spec == Init /\ [][Next]_vars

-----------------------------------------------------------------------------
(* Properties.                                                             *)

TypeOK ==
    /\ state \in [Deliveries -> States]
    /\ known \subseteq Deliveries
    /\ kind \in [Events -> Kinds \cup {"NONE"}]
    /\ order \in [Events -> 0 .. Cardinality(Events)]
    /\ task \in [Deliveries -> TaskStates]
    /\ taskOwner \in [Deliveries -> Workers \cup {NoOne}]
    /\ taskLive \in [Deliveries -> BOOLEAN]
    /\ todo \in [Workers -> SUBSET Deliveries]
    /\ \A d \in Deliveries : taskLive[d] => taskOwner[d] # NoOne

\* Evidence that was applied shows: in the state of the delivery or, where it
\* does not agree with the state, in a task.  So contradictory evidence always
\* has a task, in whatever order it came.
EvidenceShows ==
    \A e \in Events : kind[e] = "TELNYX_FINALIZED" =>
        LET d == says[e].of
        IN  \/ task[d] # "NONE"
            \/ says[e].status = "delivered" /\ state[d] = "DELIVERED"
            \/ says[e].status \in Failures /\ state[d] = "DEAD_LETTERED"

\* A delivery whose send ended in doubt is never settled by a webhook: no event
\* can be matched to it, and what is settled stays settled.
OnlyAcceptedSettles ==
    [][\A d \in Deliveries :
          state[d] \notin {"SENDING", state'[d]} =>
          /\ state[d] = "ACCEPTED_BY_PROVIDER"
          /\ \E e \in Events : /\ kind[e] = "NONE" /\ kind'[e] = "TELNYX_FINALIZED"
                                /\ says[e].of = d
                                /\ \A f \in Filed(d) : says[f].at <= says[e].at]_vars

=============================================================================
