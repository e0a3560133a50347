------------------------- MODULE DeliveryExecution -------------------------
(***************************************************************************)
(* Domain 10 delivery execution: the 10A delivery, attempt and outbox      *)
(* tables, the stored functions that move them, and the 10C executor       *)
(* processes that claim rows, call the provider once and record what the   *)
(* provider said.                                                          *)
(*                                                                         *)
(* Every stored function runs in one transaction under the row lock of its *)
(* delivery, so it is one action.  Everything the executor does between    *)
(* two calls of the database or of the provider is open to interleaving.   *)
(*                                                                         *)
(* Time is abstracted: a lease, an outbox lock and an outbox availability  *)
(* time are Booleans that say on which side of the clock they are.         *)
(***************************************************************************)
EXTENDS Naturals, FiniteSets

CONSTANTS
    Deliveries,      \* rows of operations.notification_deliveries
    Workers,         \* executor processes, by worker id (host:pid)
    Channels,        \* the channels the processes serve
    ChannelOf,       \* the channel of each delivery
    MaxAttempts,     \* notification_deliveries.max_attempts
    BatchSize,       \* DOMAIN10_DELIVERY_BATCH_SIZE
    MaxPerMinute,    \* channel_rate_limits.max_submissions_per_minute
    GatewayMasks,    \* may an HTTP 5xx of a gateway hide an accepted message?
    NoOne            \* NULL: no lease owner, no current delivery

ASSUME ChannelAssumption == /\ Channels \subseteq {"EMAIL", "SMS"}
                            /\ ChannelOf \in [Deliveries -> Channels]
ASSUME BoundAssumption == /\ MaxAttempts \in Nat \ {0}
                          /\ BatchSize \in Nat \ {0}
                          /\ MaxPerMinute \in Nat \ {0}
                          /\ GatewayMasks \in BOOLEAN
ASSUME NullAssumption == NoOne \notin Workers \cup Deliveries

(***************************************************************************)
(* One process runs one batch loop per channel; the loops share its id.    *)
(***************************************************************************)
Loops == Workers \X Channels

States == {"PENDING", "CLAIMED", "SENDING", "ACCEPTED_BY_PROVIDER",
           "UNKNOWN_PROVIDER_OUTCOME", "FAILED_RETRYABLE", "DEAD_LETTERED",
           "SUPPRESSED"}

Outcomes == {"NONE", "STARTED", "ACCEPTED", "RETRYABLE_FAILURE",
             "FINAL_FAILURE", "UNKNOWN"}

Replies == {"accepted", "retryable", "final", "ambiguous"}

\* What became of one request at the provider.
Fates == {"none", "inflight", "accepted", "refused"}

Numbers == 1 .. MaxAttempts

VARIABLES
    \* operations.notification_deliveries
    state, owner, leaseLive, attemptCount,
    \* operations.notification_outbox
    completed, lockLive, due,
    \* operations.delivery_attempts: outcome of attempt n, "NONE" = no row
    outcome,
    \* deliveries with a row in delivery_reconciliation_tasks_10c
    tasks,
    \* channel_controls: enabled AND NOT emergency_stop; the permit bucket of
    \* the current minute; sms_subscriptions.status = SUBSCRIBED
    control, bucket, subscribed,
    \* an executor loop: where it is, the claimed rows left, the current one
    pc, batch, cur, num, reply,
    \* the provider's side of attempt n
    fate

row       == <<state, owner, leaseLive, attemptCount>>
outbox    == <<completed, lockLive, due>>
gates     == <<control, bucket, subscribed>>
loop      == <<pc, batch, cur, num, reply>>
vars      == <<row, outbox, outcome, tasks, gates, loop, fate>>

Queued == {"PENDING", "CLAIMED", "FAILED_RETRYABLE"}
Settled == {"ACCEPTED_BY_PROVIDER", "UNKNOWN_PROVIDER_OUTCOME",
            "DEAD_LETTERED", "SUPPRESSED"}

Init ==
    /\ state = [d \in Deliveries |-> "PENDING"]
    /\ owner = [d \in Deliveries |-> NoOne]
    /\ leaseLive = [d \in Deliveries |-> FALSE]
    /\ attemptCount = [d \in Deliveries |-> 0]
    /\ completed = [d \in Deliveries |-> FALSE]
    /\ lockLive = [d \in Deliveries |-> FALSE]
    /\ due = [d \in Deliveries |-> TRUE]
    /\ outcome = [d \in Deliveries |-> [n \in Numbers |-> "NONE"]]
    /\ tasks = {}
    /\ control \in [Channels -> BOOLEAN]
    /\ bucket = [c \in Channels |-> 0]
    /\ subscribed \in {s \in [Deliveries -> BOOLEAN] :
                        \A d \in Deliveries : ChannelOf[d] # "SMS" => s[d]}
    /\ pc = [l \in Loops |-> "idle"]
    /\ batch = [l \in Loops |-> {}]
    /\ cur = [l \in Loops |-> NoOne]
    /\ num = [l \in Loops |-> 1]
    /\ reply = [l \in Loops |-> "ambiguous"]
    /\ fate = [d \in Deliveries |-> [n \in Numbers |-> "none"]]

-----------------------------------------------------------------------------
(* Claiming: claim_notification_outbox, then the detail query.             *)

\* Rows of the channel whose worker lost its lease while SENDING.
LapsedSends(c) ==
    {d \in Deliveries : ChannelOf[d] = c /\ state[d] = "SENDING" /\ ~leaseLive[d]}

\* Mutant: rows being sent may be claimed again once their lock has run out.
ClaimableMidSend(c) ==
    {d \in Deliveries : /\ ChannelOf[d] = c
                        /\ state[d] \in Queued \cup {"SENDING"}
                        /\ ~completed[d] /\ due[d] /\ ~lockLive[d]}

\* Mutant: rows left CLAIMED by a dead process are not picked up again.
ClaimableNoRecovery(c) ==
    {d \in Deliveries : /\ ChannelOf[d] = c
                        /\ state[d] \in Queued \ {"CLAIMED"}
                        /\ ~completed[d] /\ due[d] /\ ~lockLive[d]}

Claimable(c) ==
    {d \in Deliveries : /\ ChannelOf[d] = c
                        /\ state[d] \in Queued
                        /\ ~completed[d] /\ due[d] /\ ~lockLive[d]}

\* The lapsed sends are quarantined and their outbox rows closed in the same
\* transaction that picks the batch.
ClaimRows(l, picked) ==
    LET lapsed == LapsedSends(l[2])
    IN  /\ pc[l] = "idle"
        /\ Cardinality(picked) <= BatchSize
        /\ picked = {} => Claimable(l[2]) = {}
        /\ state' = [d \in Deliveries |->
                       IF d \in lapsed THEN "UNKNOWN_PROVIDER_OUTCOME"
                       ELSE IF d \in picked THEN "CLAIMED" ELSE state[d]]
        /\ owner' = [d \in Deliveries |->
                       IF d \in lapsed THEN NoOne
                       ELSE IF d \in picked THEN l[1] ELSE owner[d]]
        /\ leaseLive' = [d \in Deliveries |-> d \in picked \/ leaseLive[d]]
        /\ completed' = [d \in Deliveries |-> d \in lapsed \/ completed[d]]
        /\ lockLive' = [d \in Deliveries |->
                          d \in picked \/ (lockLive[d] /\ d \notin lapsed)]
        /\ UNCHANGED <<attemptCount, due, outcome, tasks, gates, cur, num, reply, fate>>

Claim(l) ==
    \E picked \in SUBSET Claimable(l[2]) :
        /\ ClaimRows(l, picked)
        /\ batch' = [batch EXCEPT ![l] = picked]
        /\ pc' = [pc EXCEPT ![l] = IF picked = {} THEN "idle" ELSE "next"]

\* The details are read by a second statement: when it fails the rows stay
\* claimed and nobody works on them.
ClaimUnread(l) ==
    \E picked \in SUBSET Claimable(l[2]) :
        /\ picked # {}
        /\ ClaimRows(l, picked)
        /\ UNCHANGED <<pc, batch>>

-----------------------------------------------------------------------------
(* The executor loop: runDeliveryOrchestrationBatch over                   *)
(* executeClaimedDelivery.                                                 *)

\* Leaving a delivery, by return or by an exception the loop catches.
NextInBatch(l) ==
    /\ pc' = [pc EXCEPT ![l] = IF batch[l] = {} THEN "idle" ELSE "next"]
    /\ cur' = [cur EXCEPT ![l] = NoOne]
    /\ num' = [num EXCEPT ![l] = 1]
    /\ reply' = [reply EXCEPT ![l] = "ambiguous"]
    /\ UNCHANGED batch

\* Mutant: the bucket is compared with <= instead of <.
AcquirePermitOffByOne(l) ==
    LET c == l[2]
        granted == control[c] /\ bucket[c] <= MaxPerMinute
    IN  /\ pc[l] = "next"
        /\ \E d \in batch[l] :
             /\ cur' = [cur EXCEPT ![l] = d]
             /\ batch' = [batch EXCEPT ![l] = @ \ {d}]
        /\ bucket' = IF granted THEN [bucket EXCEPT ![c] = @ + 1] ELSE bucket
        /\ pc' = [pc EXCEPT ![l] = IF granted THEN "permitted" ELSE "denied"]
        /\ UNCHANGED <<row, outbox, outcome, tasks, control, subscribed, num, reply, fate>>

\* acquire_channel_rate_permit_10c: a permit is spent even if no call follows.
AcquirePermit(l) ==
    LET c == l[2]
        granted == control[c] /\ bucket[c] < MaxPerMinute
    IN  /\ pc[l] = "next"
        /\ \E d \in batch[l] :
             /\ cur' = [cur EXCEPT ![l] = d]
             /\ batch' = [batch EXCEPT ![l] = @ \ {d}]
        /\ bucket' = IF granted THEN [bucket EXCEPT ![c] = @ + 1] ELSE bucket
        /\ pc' = [pc EXCEPT ![l] = IF granted THEN "permitted" ELSE "denied"]
        /\ UNCHANGED <<row, outbox, outcome, tasks, control, subscribed, num, reply, fate>>

HoldsLease(w, d) == state[d] = "CLAIMED" /\ owner[d] = w /\ leaseLive[d]

\* The effect of release_delivery_claim_10c on a row whose lease is held.
ReleaseRow(d) ==
    /\ state' = [state EXCEPT ![d] = "PENDING"]
    /\ owner' = [owner EXCEPT ![d] = NoOne]
    /\ leaseLive' = [leaseLive EXCEPT ![d] = FALSE]
    /\ due' = [due EXCEPT ![d] = FALSE]
    /\ lockLive' = [lockLive EXCEPT ![d] = FALSE]
    /\ UNCHANGED <<attemptCount, completed>>

ReleaseClaim(l) ==
    /\ pc[l] = "denied"
    /\ HoldsLease(l[1], cur[l])
    /\ ReleaseRow(cur[l])
    /\ NextInBatch(l)
    /\ UNCHANGED <<outcome, tasks, gates, fate>>

Abandon(l) ==
    /\ NextInBatch(l)
    /\ UNCHANGED <<row, outbox, outcome, tasks, gates, fate>>

\* release_delivery_claim_10c and begin_delivery_execution_10c raise when the
\* lease is gone, begin also when no attempt is left; the batch goes on.
ClaimRaises(l) ==
    /\ pc[l] \in {"denied", "permitted"}
    /\ ~ /\ HoldsLease(l[1], cur[l])
         /\ pc[l] = "permitted" => attemptCount[cur[l]] < MaxAttempts
    /\ Abandon(l)

\* The connection breaks during a permit, release, begin or failure call,
\* before or after its commit; the row is left to lease recovery.
ConnectionLost(l) ==
    /\ \/ pc[l] \in {"denied", "permitted", "send"}
       \/ pc[l] = "answered" /\ reply[l] # "accepted"
    /\ Abandon(l)

-----------------------------------------------------------------------------
(* begin_delivery_execution_10c: the ways it returns.                      *)

\* sms_delivery_currently_eligible looks at the consent and at the channel.
Eligible(d) == ChannelOf[d] = "SMS" => subscribed[d] /\ control["SMS"]

BeginReleased(l) ==
    /\ pc[l] = "permitted"
    /\ HoldsLease(l[1], cur[l])
    /\ ~control[l[2]]
    /\ ReleaseRow(cur[l])
    /\ NextInBatch(l)
    /\ UNCHANGED <<outcome, tasks, gates, fate>>

\* The channel was read by an earlier statement than the consent: a switch in
\* between suppresses the message of a subscriber.
BeginSuppressed(l) ==
    LET d == cur[l]
    IN  /\ pc[l] = "permitted"
        /\ HoldsLease(l[1], d)
        /\ ~Eligible(d)
        /\ state' = [state EXCEPT ![d] = "SUPPRESSED"]
        /\ owner' = [owner EXCEPT ![d] = NoOne]
        /\ leaseLive' = [leaseLive EXCEPT ![d] = FALSE]
        /\ completed' = [completed EXCEPT ![d] = TRUE]
        /\ lockLive' = [lockLive EXCEPT ![d] = FALSE]
        /\ NextInBatch(l)
        /\ UNCHANGED <<attemptCount, due, outcome, tasks, gates, fate>>

BeginStarted(l) ==
    LET d == cur[l]
        n == attemptCount[d] + 1
    IN  /\ pc[l] = "permitted"
        /\ HoldsLease(l[1], d)
        /\ control[l[2]] /\ Eligible(d)
        /\ n <= MaxAttempts
        /\ state' = [state EXCEPT ![d] = "SENDING"]
        /\ attemptCount' = [attemptCount EXCEPT ![d] = n]
        /\ outcome' = [outcome EXCEPT ![d][n] = "STARTED"]
        /\ num' = [num EXCEPT ![l] = n]
        /\ pc' = [pc EXCEPT ![l] = "send"]
        /\ UNCHANGED <<owner, leaseLive, outbox, tasks, gates, batch, cur, reply, fate>>

-----------------------------------------------------------------------------
(* The provider call: sendOnce through the Graph and Telnyx adapters.      *)

\* A delivery without recipient or subject, or a failed token request: the
\* adapter throws before any request leaves the process.
RejectBeforeCall(l) ==
    /\ pc[l] = "send"
    /\ reply' = [reply EXCEPT ![l] = "final"]
    /\ pc' = [pc EXCEPT ![l] = "answered"]
    /\ UNCHANGED <<row, outbox, outcome, tasks, gates, batch, cur, num, fate>>

CallProvider(l) ==
    /\ pc[l] = "send"
    /\ fate' = [fate EXCEPT ![cur[l]][num[l]] = "inflight"]
    /\ pc' = [pc EXCEPT ![l] = "await"]
    /\ UNCHANGED <<row, outbox, outcome, tasks, gates, batch, cur, num, reply>>

\* The provider takes or refuses a request, whether or not anyone still waits.
ProviderDecides(d, n) ==
    /\ fate[d][n] = "inflight"
    /\ \E f \in {"accepted", "refused"} : fate' = [fate EXCEPT ![d][n] = f]
    /\ UNCHANGED <<row, outbox, outcome, tasks, gates, loop>>

\* Mutant: a timeout is classified as retryable.
ClassifiedTimeoutRetried(c, f) ==
    {r \in Replies : r = "accepted" => f = "accepted"}

\* Mutant: the HTTP status of the answer is not looked at.
ClassifiedAnyStatus(c, f) == {"accepted", "ambiguous"}

\* How the adapters classify what comes back.  A 2xx that is not the contract
\* (Graph: not 202; Telnyx: no message id in the body) is PROTOCOL, which is
\* final.  Telnyx errors carry no retryable class; Graph 408/429/5xx do.  A
\* broken or timed-out request is ambiguous whatever the provider did.
Classified(c, f) ==
    {r \in Replies :
        /\ r = "accepted" => f = "accepted"
        /\ r = "final" => f # "inflight"
        /\ r = "retryable" => c = "EMAIL" /\ (f = "refused" \/ GatewayMasks)}

Answer(l) ==
    /\ pc[l] = "await"
    /\ \E r \in Classified(l[2], fate[cur[l]][num[l]]) :
         reply' = [reply EXCEPT ![l] = r]
    /\ pc' = [pc EXCEPT ![l] = "answered"]
    /\ UNCHANGED <<row, outbox, outcome, tasks, gates, batch, cur, num, fate>>

-----------------------------------------------------------------------------
(* Recording the answer.                                                   *)

\* Mutant: only the attempt is checked, not the delivery.
MayRecordByAttempt(l) == outcome[cur[l]][num[l]] = "STARTED"

MayRecord(l) == /\ state[cur[l]] = "SENDING"
                /\ owner[cur[l]] = l[1]
                /\ outcome[cur[l]][num[l]] = "STARTED"

\* Common to all recordings: the attempt row closes and the delivery moves on.
Close(l, s, o) ==
    /\ state' = [state EXCEPT ![cur[l]] = s]
    /\ owner' = [owner EXCEPT ![cur[l]] = NoOne]
    /\ leaseLive' = [leaseLive EXCEPT ![cur[l]] = FALSE]
    /\ lockLive' = [lockLive EXCEPT ![cur[l]] = FALSE]
    /\ outcome' = [outcome EXCEPT ![cur[l]][num[l]] = o]
    /\ UNCHANGED <<attemptCount, gates, fate>>

\* record_provider_acceptance_10c commits.  If the answer of the database is
\* lost the executor takes the error for an ambiguous provider failure.
RecordAcceptance(l) ==
    /\ pc[l] = "answered" /\ reply[l] = "accepted"
    /\ MayRecord(l) /\ leaseLive[cur[l]]
    /\ Close(l, "ACCEPTED_BY_PROVIDER", "ACCEPTED")
    /\ completed' = [completed EXCEPT ![cur[l]] = TRUE]
    /\ UNCHANGED <<due, tasks>>
    /\ \/ NextInBatch(l)
       \/ /\ reply' = [reply EXCEPT ![l] = "ambiguous"]
          /\ UNCHANGED <<pc, batch, cur, num>>

\* record_provider_acceptance_10c raises (lease expired, row moved on) or the
\* connection breaks.  The call shares the try block of the provider call, so
\* normalizeFailure turns the exception into UNKNOWN, not retryable, ambiguous.
AcceptanceNotRecorded(l) ==
    /\ pc[l] = "answered" /\ reply[l] = "accepted"
    /\ reply' = [reply EXCEPT ![l] = "ambiguous"]
    /\ UNCHANGED <<row, outbox, outcome, tasks, gates, pc, batch, cur, num, fate>>

Failing(l, r) == pc[l] = "answered" /\ reply[l] = r /\ MayRecord(l)

\* Mutant: an ambiguous failure goes back to the queue.
FailUnknownRequeued(l) ==
    /\ Failing(l, "ambiguous")
    /\ Close(l, "FAILED_RETRYABLE", "UNKNOWN")
    /\ due' = [due EXCEPT ![cur[l]] = FALSE]
    /\ NextInBatch(l)
    /\ UNCHANGED <<completed, tasks>>

\* fail_delivery_execution_10c checks neither the lease nor the clock.
FailUnknown(l) ==
    /\ Failing(l, "ambiguous")
    /\ Close(l, "UNKNOWN_PROVIDER_OUTCOME", "UNKNOWN")
    /\ completed' = [completed EXCEPT ![cur[l]] = TRUE]
    /\ tasks' = tasks \cup {cur[l]}
    /\ NextInBatch(l)
    /\ UNCHANGED <<due>>

\* Mutant: the ceiling is tested with <= instead of <.
FailRetryOffByOne(l) ==
    /\ Failing(l, "retryable")
    /\ attemptCount[cur[l]] <= MaxAttempts
    /\ Close(l, "FAILED_RETRYABLE", "RETRYABLE_FAILURE")
    /\ due' = [due EXCEPT ![cur[l]] = FALSE]
    /\ NextInBatch(l)
    /\ UNCHANGED <<completed, tasks>>

FailRetry(l) ==
    /\ Failing(l, "retryable")
    /\ attemptCount[cur[l]] < MaxAttempts
    /\ Close(l, "FAILED_RETRYABLE", "RETRYABLE_FAILURE")
    /\ due' = [due EXCEPT ![cur[l]] = FALSE]
    /\ NextInBatch(l)
    /\ UNCHANGED <<completed, tasks>>

\* Mutant: the outbox row of a dead letter stays open.
FailDeadOutboxOpen(l) ==
    /\ \/ Failing(l, "final")
       \/ Failing(l, "retryable") /\ attemptCount[cur[l]] >= MaxAttempts
    /\ Close(l, "DEAD_LETTERED", "FINAL_FAILURE")
    /\ NextInBatch(l)
    /\ UNCHANGED <<completed, due, tasks>>

FailDead(l) ==
    /\ \/ Failing(l, "final")
       \/ Failing(l, "retryable") /\ attemptCount[cur[l]] >= MaxAttempts
    /\ Close(l, "DEAD_LETTERED", "FINAL_FAILURE")
    /\ completed' = [completed EXCEPT ![cur[l]] = TRUE]
    /\ NextInBatch(l)
    /\ UNCHANGED <<due, tasks>>

\* fail_delivery_execution_10c raises; the batch loop logs it and goes on.
FailureRefused(l) ==
    /\ pc[l] = "answered" /\ reply[l] # "accepted"
    /\ ~MayRecord(l)
    /\ Abandon(l)

-----------------------------------------------------------------------------
(* The environment: clock, operators, subscribers, process manager.        *)

\* The outbox lock is stamped before the lease, so it runs out no later.
LockExpires(d) ==
    /\ lockLive[d]
    /\ lockLive' = [lockLive EXCEPT ![d] = FALSE]
    /\ UNCHANGED <<row, completed, due, outcome, tasks, gates, loop, fate>>

LeaseExpires(d) ==
    /\ leaseLive[d] /\ ~lockLive[d]
    /\ leaseLive' = [leaseLive EXCEPT ![d] = FALSE]
    /\ UNCHANGED <<state, owner, attemptCount, outbox, outcome, tasks, gates, loop, fate>>

BecomesDue(d) ==
    /\ ~due[d]
    /\ due' = [due EXCEPT ![d] = TRUE]
    /\ UNCHANGED <<row, completed, lockLive, outcome, tasks, gates, loop, fate>>

MinuteRolls(c) ==
    /\ bucket[c] > 0
    /\ bucket' = [bucket EXCEPT ![c] = 0]
    /\ UNCHANGED <<row, outbox, outcome, tasks, control, subscribed, loop, fate>>

SwitchChannel(c) ==
    /\ control' = [control EXCEPT ![c] = ~@]
    /\ UNCHANGED <<row, outbox, outcome, tasks, bucket, subscribed, loop, fate>>

ConsentChanges(d) ==
    /\ ChannelOf[d] = "SMS"
    /\ subscribed' = [subscribed EXCEPT ![d] = ~@]
    /\ UNCHANGED <<row, outbox, outcome, tasks, control, bucket, loop, fate>>

\* pm2 restarts a dead process; under a container the worker id is the same.
Crash(w) ==
    /\ \E l \in Loops : l[1] = w /\ pc[l] # "idle"
    /\ pc' = [l \in Loops |-> IF l[1] = w THEN "idle" ELSE pc[l]]
    /\ batch' = [l \in Loops |-> IF l[1] = w THEN {} ELSE batch[l]]
    /\ cur' = [l \in Loops |-> IF l[1] = w THEN NoOne ELSE cur[l]]
    /\ num' = [l \in Loops |-> IF l[1] = w THEN 1 ELSE num[l]]
    /\ reply' = [l \in Loops |-> IF l[1] = w THEN "ambiguous" ELSE reply[l]]
    /\ UNCHANGED <<row, outbox, outcome, tasks, gates, fate>>

Execute(l) ==
    \/ Claim(l)          \/ AcquirePermit(l)    \/ ReleaseClaim(l)
    \/ ClaimRaises(l)    \/ BeginReleased(l)    \/ BeginSuppressed(l)
    \/ BeginStarted(l)   \/ RejectBeforeCall(l) \/ CallProvider(l)
    \/ Answer(l)         \/ RecordAcceptance(l) \/ AcceptanceNotRecorded(l)
    \/ FailUnknown(l)    \/ FailRetry(l)        \/ FailDead(l)
    \/ FailureRefused(l)

Clock ==
    \/ \E d \in Deliveries : LockExpires(d) \/ LeaseExpires(d) \/ BecomesDue(d)
    \/ \E c \in Channels : MinuteRolls(c)

Outside ==
    \/ \E d \in Deliveries : ConsentChanges(d)
    \/ \E c \in Channels : SwitchChannel(c)
    \/ \E d \in Deliveries, n \in Numbers : ProviderDecides(d, n)

Fault ==
    \/ \E l \in Loops : ClaimUnread(l) \/ ConnectionLost(l)
    \/ \E w \in Workers : Crash(w)

Next == (\E l \in Loops : Execute(l)) \/ Clock \/ Outside \/ Fault

Spec == Init /\ [][Next]_vars

-----------------------------------------------------------------------------
(* Type invariant.                                                         *)

TypeOK ==
    /\ state \in [Deliveries -> States]
    /\ owner \in [Deliveries -> Workers \cup {NoOne}]
    /\ leaseLive \in [Deliveries -> BOOLEAN]
    /\ attemptCount \in [Deliveries -> 0 .. MaxAttempts]
    /\ completed \in [Deliveries -> BOOLEAN]
    /\ lockLive \in [Deliveries -> BOOLEAN]
    /\ due \in [Deliveries -> BOOLEAN]
    /\ outcome \in [Deliveries -> [Numbers -> Outcomes]]
    /\ tasks \subseteq Deliveries
    /\ control \in [Channels -> BOOLEAN]
    /\ bucket \in [Channels -> 0 .. MaxPerMinute]
    /\ subscribed \in [Deliveries -> BOOLEAN]
    /\ pc \in [Loops -> {"idle", "next", "denied", "permitted", "send", "await", "answered"}]
    /\ batch \in [Loops -> SUBSET Deliveries]
    /\ cur \in [Loops -> Deliveries \cup {NoOne}]
    /\ num \in [Loops -> Numbers]
    /\ reply \in [Loops -> Replies]
    /\ fate \in [Deliveries -> [Numbers -> Fates]]
    /\ \A l \in Loops : pc[l] \notin {"idle", "next"} => cur[l] \in Deliveries

-----------------------------------------------------------------------------
(* Safety.                                                                 *)

\* A loop between begin_delivery_execution_10c and the recording of the answer.
Sending(l) == pc[l] \in {"send", "await", "answered"}

\* No two executor loops are ever inside the send of the same delivery, although
\* the lease is not renewed by the send and other loops may claim meanwhile.
OneSenderPerDelivery ==
    \A l, m \in Loops : Sending(l) /\ Sending(m) /\ cur[l] = cur[m] => l = m

\* "Timeout/network ambiguity is never auto-retried": attempt n+1 exists only
\* after attempt n was recorded as an explicit retryable failure.
NoResendAfterAmbiguity ==
    \A d \in Deliveries : \A n \in Numbers :
        n < attemptCount[d] => outcome[d][n] = "RETRYABLE_FAILURE"

\* The recipient gets the message at most once: at most one of the requests of
\* a delivery was, or can still be, taken by the provider.
AtMostOneAcceptance ==
    \A d \in Deliveries : \A n, m \in Numbers :
        /\ fate[d][n] \in {"inflight", "accepted"}
        /\ fate[d][m] \in {"inflight", "accepted"}
        => n = m

\* ACCEPTED_BY_PROVIDER is never a guess: the provider took the last attempt.
AcceptanceIsReal ==
    \A d \in Deliveries : state[d] = "ACCEPTED_BY_PROVIDER" =>
        /\ attemptCount[d] > 0
        /\ outcome[d][attemptCount[d]] = "ACCEPTED"
        /\ fate[d][attemptCount[d]] = "accepted"

\* The outbox row is closed exactly when the delivery needs no more executor:
\* nothing queued is lost, nothing settled is picked up again.
OutboxAgreesWithDelivery ==
    \A d \in Deliveries : completed[d] <=> state[d] \in Settled

\* The attempt ceiling is never the reason a queued delivery cannot start:
\* fail_delivery_execution_10c buries the delivery before the ceiling is hit.
QueuedHasAttemptLeft ==
    \A d \in Deliveries : state[d] \in Queued => attemptCount[d] < MaxAttempts

\* A delivery suppressed for lack of consent was never taken by the provider.
SuppressedNotSent ==
    \A d \in Deliveries : \A n \in Numbers :
        state[d] = "SUPPRESSED" => fate[d][n] \notin {"inflight", "accepted"}

-----------------------------------------------------------------------------
(* Refinement: the executors keep the promise of DeliveryPromise.          *)

PhaseOf(s) ==
    CASE s \in Queued -> "queued"
      [] s = "SENDING" -> "open"
      [] s = "ACCEPTED_BY_PROVIDER" -> "accepted"
      [] s = "UNKNOWN_PROVIDER_OUTCOME" -> "quarantined"
      [] s = "DEAD_LETTERED" -> "dead"
      [] s = "SUPPRESSED" -> "suppressed"

Taken(d) == \E n \in Numbers : fate[d][n] = "accepted"

Promise == INSTANCE DeliveryPromise WITH
             phase  <- [d \in Deliveries |-> PhaseOf(state[d])],
             tries  <- attemptCount,
             copies <- [d \in Deliveries |-> IF Taken(d) THEN 1 ELSE 0]

\* Every step of the executors, the provider and the clock is a step of the
\* promise or invisible to it.
KeepsPromise == Promise!Spec

=============================================================================
