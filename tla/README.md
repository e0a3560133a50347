# TLA+ for TCDS Arbitrage

Specifications, model checks and proofs for the parts of this repository whose
correctness depends on the order of events: several processes that share
PostgreSQL tables, call outside services, crash, and are restarted. `src/...`
paths below are relative to the repository; 510 to 522 stand for the
migrations of those numbers under `deploy/domain10/package/10A` to `10D`.

## 1. The system

TCDS is a set of Node processes under PM2 (`ecosystem.config.cjs`) and the SQL
functions they call. The parts and where they stand:

| part | state | operations | what is hard | module |
|---|---|---|---|---|
| delivery execution (10A tables, 10C executor) | `notification_deliveries`, `delivery_attempts`, `notification_outbox`, `channel_controls`, `rate_limit_buckets` | claim, permit, release, begin, provider call, record acceptance or failure | leases not renewed by a send, crashes in mid-send, answers lost at two places, retries of what may have happened | `DeliveryExecution`, `DeliveryPromise` |
| SMS consent (10A) | `sms_consent_events`, `sms_subscriptions` | `record_sms_consent_event` | duplicate, reordered and simultaneous reports | `SmsConsent` |
| delivery evidence and reconciliation (10C) | `provider_receipts`, `delivery_reconciliation_tasks_10c`, delivery state | `apply_telnyx_delivery_event_10c`, claim, manual review, resolve | webhooks out of order or before the acceptance, tasks changed by four parties under one trigger | `DeliveryEvidence` |
| comp-analysis pipeline | `arb.listings.comp_*`, `arb.candidates`, `ebay_comps`, `ebay_market`, `comp_dead_letter` | claim, search, persist, complete, retry, dead-letter, stale sweep | one lock column with three times to live, no owner check on any write after the claim | `CompPipeline` |
| event intake and planning (10B) | `operational_events`, `event_processing`, `event_planning_outbox`, `notification_decisions`, `suppression_decisions` | intake, claim, begin, read the suppression rules, commit a decision, fail | rules read before the transaction that commits, leases lost in between, a queue entry closed by event id alone | `EventPlanning` |
| incidents and escalation (10D) | `incidents`, activation queue, deadlines, escalation runtimes, emissions | activate, acknowledge, transition, claim, prepare, emit, settle, repeat | an acknowledgement against a step in the hands of a worker; an event that leaves the database and its replay | `IncidentEscalation` |
| eBay request layer | queue, slots and timer of the limiter, cached token, refresh in flight (in memory); token row | get a token, refresh it once, call, retry | lost wake-ups and slots, a refresh that queues behind those who wait for it | `RateLimiter`, `EbayClient` |
| candidate matching (prong 2) | `arb.candidates`, `arb.opportunity_queue`, search jobs | claim, save the match, queue with its search, retry; drainer | two transactions per match, writes by id after the claim lapsed | `OpportunityQueue` |
| acquisition decision, purchase queue, capital safety | `arb.decisions`, `arb.purchase_queue`, the same queue rows | claim a batch, score, allocate cash, persist; assess safety | three workers set one status column; the allocator's verdict must reach the purchase | `OpportunityQueue`, `AcquisitionGate` |
| assurance (10E), certification (10F) | probe and evidence records | sample, evaluate, sign off | little concurrency | not planned |
| return defence foundation (Domain 8) | outbox, idempotency keys, worker leases | publish, begin and finish an idempotent request, lease | a second claim protocol; fencing | planned |
| shipping relay (Domain 3) | shipping outbox | relay capture signals | at-least-once delivery | planned |
| listing generation queue (Domain 4) | `arb.job_queue` | enqueue, claim, succeed, fail | a crash leaves a job RUNNING | planned |
| capital allocation runs | allocation runs and items | rank, allocate, promote | arithmetic over a snapshot | later |
| process runs | runs and steps | finalise a run | completion from concurrently changing steps | later |
| photography, governance, front ends, IAM tooling | own tables | CRUD, UI | mostly data | not planned |

How the modelled parts interact. 10B inserts a delivery and its outbox row;
the executor claims the row, asks for a permit, begins an attempt, calls the
provider and records what it said. `record_sms_consent_event` changes the
subscription that `begin_delivery_execution_10c` reads. A doubtful end of a
send inserts a reconciliation task; a status webhook is matched to the attempt
by the message id that the recording of the acceptance stored, and settles the
delivery or inserts or reopens a task; the reconciliation worker puts tasks
before an operator, and the operator resolves them. 10D closes the circle: a
notification that needs an incident is activated, an escalation step is emitted
as an operational event into 10B, and is settled when the deliveries of that
event have come to rest in 10C.

The sourcing side runs on tables of its own. A listing is found through the
eBay request layer; the comp pipeline gives it its market; the opportunity-queue
worker matches it to the watchlist and puts it on the queue together with a
search job; the acquisition-decision worker decides batches of that queue and
writes the purchase queue, while the drainer and the capital-safety worker set
the status of the same rows.

## 2. Modules

### DeliveryExecution

One action per stored function, because each runs in one transaction under the
row lock of its delivery; whatever the executor does between two of them can be
interleaved. A *loop* is a process and a channel: the bootstrap runs one batch
function per channel, both with one worker id, and its `guard` never runs a
loop twice at a time.

| action | code |
|---|---|
| `Claim`, `ClaimUnread` | `claim_notification_outbox` (510:277-290) and the detail query after it; the claim first quarantines lapsed sends |
| `AcquirePermit`, `ReleaseClaim`, `ClaimRaises` | permit and release (516:55-161), exceptions that the batch loop logs |
| `BeginReleased`, `BeginSuppressed`, `BeginStarted` | the three ways `begin_delivery_execution_10c` returns |
| `RejectBeforeCall`, `CallProvider`, `Answer` | the adapters; `Classified` is how an answer becomes accepted, retryable, final or ambiguous |
| `RecordAcceptance`, `AcceptanceNotRecorded` | `record_provider_acceptance_10c`; its exception is caught by the try block of the provider call |
| `FailUnknown`, `FailRetry`, `FailDead`, `FailureRefused` | the branches of `fail_delivery_execution_10c` |
| `LockExpires`, `LeaseExpires`, `BecomesDue`, `MinuteRolls` | the clock |
| `ProviderDecides`, `SwitchChannel`, `ConsentChanges`, `Crash`, `ConnectionLost` | everything outside the process |

Abstractions: a time is the side of the clock it is on; a lease never runs out
before its outbox lock, since the claim stamps the lock first; payloads,
templates, headers and backoff lengths are left out; a delivery has one channel
and one provider. Graph's gateways may answer 408, 429 or 5xx; whether such an
answer can hide an accepted message is not decided by this code, so it is the
constant `GatewayMasks`. It is FALSE in the runs and the theorems say where
they need it. With TRUE a retried e-mail can reach its recipient twice.

`DeliveryPromise` is the abstract specification: a delivery is tried while
queued, goes back to the queue only if the provider has not taken it, and a
doubtful try is quarantined and never repeated. `DeliveryExecution!KeepsPromise`
is the refinement: `phase` is a function of the state, `tries` is
`attempt_count`, and `copies` says whether some attempt was taken.

### SmsConsent

`RecordConsentEvent` is the whole stored function of 511 (the later definition
replaces that of 510): the ledger takes a message once and `Upsert` moves the
subscription. The texts are fixed in the initial state, all combinations of
mobile, action and time; the order of arrival is the order of the actions, and
a message may be reported any number of times.

### DeliveryEvidence

The webhook function has one operator for each way it returns: duplicate,
unmatched, stale, sent, conflict, the exception of the trigger of 517,
delivered, failed, unconfirmed. `order` is `receipt_id`, the tie-break of the
newest-first query. The executor appears as `Accepted`, `Doubtful` and
`GivenUp`, the ways in which a send of DeliveryExecution ends. An action that
raises leaves the state as it is, because the exception rolls the transaction
back. Reconciliation is `ClaimTasks`, `Surface`, `SurfaceRaises` (the lost lease
leaves the batch loop) and `Resolve`. The statuses `queued` and `sending` are
handled exactly like `sent` and left out.

### CompPipeline

A worker's `step` is its place in `processClaimedListing`; the steps are the
places between which a crash or another process makes a difference. `Fail` is
the catch block and is possible in every step, the one after `finalizeSuccess`
included. A retrier's `seen` is the row it read when it claimed its batch:
`decideRetryDisposition` works on that. `lockAge` has three values because the
claims (900 s) and the sweep (120 min) compare the same column with two limits.
`Punctual` says that no lock gets older while a live process works on the
listing. `comp_attempts` is counted up to the larger ceiling only. The order in
which a claim prefers listings, heartbeats and the search results themselves
are left out; so is prong 2 taking over a candidate.

### EventPlanning

Every stored function of 513 and 514 is one action (514 replaces
`begin_event_planning_attempt`), and so is each suppression query and the
transaction of `decisionCommitRepository`. `plan` is what a planner carries from
its reads to its commit. Suppression is the part where order matters: all events
belong to one group, and an event silences a later one of its window for every
rule it passed itself. Which policy wins and who is authorised is chosen freely
(`Decide`); a NOTIFY decision creates its deliveries in the same transaction,
which is where `DeliveryExecution` starts.

### IncidentEscalation

One incident, with one action for each function of 519 as replaced by 522.
Activation, deadline and settlement have no worker of their own in the model:
their work is a single transaction, so a late or dead worker is a lease that
lapses. The escalation worker has: between `PrepareEmission` and `MarkEmitted`
it calls 10B outside any transaction (`AcceptEvent`), and the answer may be lost
after the event was taken. `fate` is what 10B and 10C made of the event.
Several functions of 10D use an unqualified column name that is also a column of
their RETURNS TABLE (519:211, 220, 267; 522:239, 421, 443, 448, 455), which
PL/pgSQL by default rejects as ambiguous. The model takes them to mean the
column, as `#variable_conflict use_column` does for the same pattern in 10C.
Command ids, OWN and DECLINE of responders, and the audit rows are left out.

### RateLimiter and EbayClient

JavaScript runs one callback at a time, so the code between two awaits is one
step. `RateLimiter` is the queue, the slots and the one pump timer; `EbayClient`
extends it by the way of a request: cached token, stored token, shared refresh,
attempts. A token is the number of the refresh it came from. The refresh is a
task of the same limiter, which the requests that wait for it may have filled.
Nobody sets the limiter's options `signal`, `timeoutMs` and `jitterMs` or calls
`coolDown`; they are left out. (A 429 therefore never cools the limiter down;
and with `jitterMs` above 0 the pump would redraw the jitter each time it fires
and start a task only when it draws 0.)

### OpportunityQueue and AcquisitionGate

A candidate, its opportunity, its search job and its listing are one item; the
unique index of `arb.opportunity_queue`, which no file of the repository
creates, is taken to be on the candidate, as `ON CONFLICT DO NOTHING` needs. A
matcher works through its batch one candidate at a time and the claim is per
row, so it holds one. Claims may lapse under a busy worker; `overruns` counts how
often one did (`MaxOverruns` bounds it), and `DecidedOnce` leaves the items out
for which it is not 0, since every write after a claim is by id alone and for
them the property is false. A matcher's write may also take effect and throw, its
answer being lost (`AfterWrite`): the catch block (`MatchFails`) then still finds
its token, which no write takes away, and puts a candidate back that is queued, or
by then decided. `unanswered` names the items this may happen to. Their candidate
is matched and queued a second time; `DecidedOnce` says that decision, purchase and
opportunity stand all the same, because the unique index keeps the second row out.

`AcquisitionGate` is the pure part of a decision: which reasons the bridge and
the contract call hard, the capital status, the execution status with the branch
that monitors an auction in spite of `LOW_STARTING_BID_MONITOR_AUCTION_RISK`, and
what the allocator and the hardening after it change. The signal that says BUY,
which reasons are reported, and the status, price and maximum bid of the listing
are free inputs (`Score`); the allocator is reduced to cash for so many
(`Allocation`). `against` keeps the gravest kind of reason (`Gravest`) that spoke
against a purchase when it was queued, and whether it had capital.

### MC modules

`MCDeliveryExecution`, `MCSmsConsent`, `MCCompPipeline`, `MCEbayClient` and
`MCQueue` name the model values and the symmetry. `MCDeliveryFair`,
`MCEvidenceFair`, `MCCompFair`, `MCPlanning` and `MCEscalation` add the fairness,
and the limit on faults, under which the liveness properties hold. No run with a
liveness property uses symmetry; `MCEvidenceFair` instead names its
interchangeable events in the order of their times.

## 3. Runs

Passing runs:

| run | bounds | shows |
|---|---|---|
| DeliveryExecutionEmail | 2 e-mails, 2 processes, 2 attempts, batch 2, 1 permit a minute | one sender per delivery, no resend after doubt, at most one acceptance, acceptances are real, outbox in step, an attempt left while queued, refinement of DeliveryPromise |
| DeliveryExecutionLive | an e-mail and an SMS, 1 process with two loops, 1 permit, finitely many faults | `SuppressedNotSent`; `EveryDeliverySettles` once its channel stays on |
| SmsConsentOrder | 3 messages, 2 numbers, times 1..3 | `ConsentIsNewest`, `StopStands` |
| DeliveryEvidence | 1 SMS, 3 webhooks, 2 reconcilers, 2 times, finitely many faults | `EvidenceShows`, `OnlyAcceptedSettles`; `EveryTaskSurfaces` |
| CompPipelineLocks | 2 listings, 2 workers, 1 retrier, ceilings 2 and 3, punctual | `OneAtATime`, `PutOffUntilDue` |
| CompPipelineLive | 1 recoverable listing, 2 workers, 1 retrier, finitely many faults, not punctual | `CompletedHasMarket`, `EveryListingSettles` |
| EventPlanning | 2 events, 2 planners, 2 rules (one for everything, one for e-mail), window 1, 2 attempts, finitely many faults | `DecidedIsPlanned`, `SuppressionHasCause`; `EveryEventSettles` |
| IncidentEscalation | 1 step that needs an acknowledgement, 2 repeats, 2 workers, 2 activations, 2 emission attempts, finitely many faults | `AtMostOneAfterStop`, `WaitingIsOut`, `RepeatsInOrder`; `NothingStrands` |
| EbayClient | 3 requests, 2 slots, queue of 2, spacing 2 ticks, 1 retry, 1 token that ages | `NoLostWakeup`, `SlotsAccounted`, `OneRefresh`; `EveryRequestEnds` |
| OpportunityQueue | 1 item, 2 matchers, 2 deciders, 1 safety worker, 3 attempts, 1 lapse under a busy worker, 4 reasons (hard, hard for the bridge only, soft, the auction risk) | `QueuedIsSearched`, `DecidedOnce`, `AutoBuyIsClean` |

Every passing run but `DeliveryExecutionLive` and `CompPipelineLive`, whose
modules have a second run, also checks `TypeOK`.

Why the bounds are enough to be of use. Two deliveries, two processes and a
batch of two give every race there is for one row plus a batch whose second row
waits while the first is sent. Two attempts are the fewest at which an attempt
can follow another and the ceiling be met. Three webhooks are the fewest with a
stale, an equal and a newer one; two times let them be ordered or tie; a batch
that a lost lease aborts leaves its other tasks exactly as a crash does, so one
delivery is enough. Two listings let a retrier hold a batch. A throttle ceiling
above the ordinary one is the code's own relation (10 and 5). Two events and a
window of one are the fewest with a cause and an effect of suppression. A second
repeat is what settling one emission can start. Three requests on two slots with
a queue of two fill the limiter and overflow it, with the refresh behind them.
One item suffices for the races on a row, as every statement but the batch of a
decision touches one; the batch of two is in `CapitalSkipped`.

Runs that end in a violation, each a disagreement between the code and what the
repository says of it (PROJECT.json quotes the lines):

| run | disagreement |
|---|---|
| IncidentReplay | a replayed escalation event gets the same event id, says a comment of `escalationService.ts`; it is built with the time of the call, so 10B refuses it as another envelope under a known id, and the emission fails although its notification goes out |
| CapitalSkipped | what the allocator has no capital for is `CAPITAL_LIMIT_SKIPPED` and not executed, say `acquisitionDecisionWorker.ts` and `contracts/acquisitionDecision.ts`; the allocator sets none of the marks the worker looks for, and the item is queued for purchase |

### Disagreements seen in the models that no run checks

The models below contain these, and the corresponding properties are false in
them; each is also a hazard in PROJECT.json.

* 10C_ARCHITECTURE.md:73-77 sends an unknown outcome to quarantine *and* a
  reconciliation task. A send whose lease lapses is quarantined by 10A's claim
  function (510:281), which inserts none.
* The same document, 79-81, dead-letters explicit permanent or exhausted
  failures. A 2xx outside the contract (no message id, a truncated body) is
  dead-lettered too, although the provider took the message.
* 10A/README.md:16: consent events are "duplicate/out-of-order safe". A HELP
  moves `last_event_at` on (511:195), so a STOP sent before and reported after
  it does not unsubscribe the number. `StopStands` leaves these messages out, by
  name (`outdated`), and no others: a newer HELP that comes later takes nothing
  back.
* 516:566: contradictory evidence is routed to reconciliation. If its task is
  under review or closed, the trigger of 517 raises and the receipt is rolled
  back with it.
* 10C_ARCHITECTURE.md:104: a `delivered` event is final evidence. One that
  arrives before the acceptance is recorded is filed as unmatched, and its
  redelivery is a duplicate.
* The comment at 511:202 says an SMS can be *claimed* only with consent. The
  claim does not look; begin suppresses the message.
* 513:558-559: an expired planning lease "can safely return to PENDING". If the
  planner that lost it records a final failure, 513:682-687 closes the queue
  entry of its successor; should that one die, the event stays PENDING for ever.
* The worker's rule 2: "Hard blockers stop execution". Five reasons that are hard
  for the bridge (no accepted comps, price above the maximum bid, expired auction,
  disabled category, a gate that blocks without a reason) are unknown to the
  contract, which calls them informational; `hardenSafetyEvaluation` puts those
  with the soft ones, and the item is queued for review instead of being stopped,
  or for monitoring if the auction risk is among its reasons. `AutoBuyIsClean`
  shows that it is never approved.
* Nothing says what a lost answer should do to a candidate. If that of the commit
  of `queueOpportunityIdempotent` is lost (`prong2Repository.ts:1115`), the catch
  block of the worker sets the candidate back to `retry_needed`, and a decided
  candidate no longer has the status of its decision.

### Fairness

`MCDeliveryFair`: weak fairness of every executor loop (`setInterval` calls the
batch functions for ever and PM2 restarts a dead process), of the orphaned lock
and lease running out, of `available_at` passing and of the minute rolling
(clocks do not stop). Nothing is assumed of the provider, the operator or the
subscriber; the property itself asks that the channel stays on. A fault is a
crash, a broken connection or a lease that runs out under a live process, and
there are finitely many, in any number (`<>[][Ordinary]_vars`): otherwise the
environment may fail every attempt for ever. `MCEvidenceFair` and `MCCompFair`
are built alike: weak fairness of the loops and of clocks, nothing of webhooks,
operators, auctions or eBay. In `MCCompFair` a failed search is not a fault: the catch block handles
it. `EveryListingSettles` says *again and again*, since an operator may ask for
another search at any time; a listing whose auction ended is claimed no more and
stays where it is, which is why the property lets it be.

`MCPlanning`: planners claim for ever and clocks do not stop; failed planning is
not a fault, since attempts are counted. `MCEscalation`: its workers run for ever,
and leases run out; nothing is assumed of people, nor of 10B and 10C. 10B may
give up an event without a decision, and a delivery may stay
`UNKNOWN_PROVIDER_OUTCOME` for ever: 519:469-475 counts that state as pending, and
the one function that leaves it, `resolveAmbiguous` of an e-mail reconciliation
service older than 10C, is called by nothing. `NothingStrands` therefore lets a
step wait for a notification that is not at rest (`AwaitsDelivery`), and for
nothing else: what nobody carries on then is nobody's lease, claim or missing
hand-over. `EbayClient!FairSpec`: timers fire and calls end. A call
has a timeout up to its headers; that its body, and the refresh, which has no
timeout, end is an assumption. `OpportunityQueue` has no liveness: a matched
candidate whose matcher dies between two transactions is claimed by nobody.

## 4. Proofs

Every safety invariant and every action property of the passing runs is proved
for all values of the constants, in one module per component; so are three
action properties that no run checks. Except in `DeliveryExecution_proof`, where
it is a lemma under an assumption, `Inductive` is `Spec => []IInv` and each
theorem on an invariant follows from `IInv` alone.

| module | theorems (property) |
|---|---|
| `DeliveryExecution_proof` | `TypeCorrect` (`TypeOK`), `OutboxInStep` (`OutboxAgreesWithDelivery`); if `~GatewayMasks`: `SingleSender` (`OneSenderPerDelivery`), `NoBlindResend` (`NoResendAfterAmbiguity`), `SingleAcceptance` (`AtMostOneAcceptance`), `AcceptanceHappened` (`AcceptanceIsReal`), `AttemptLeft` (`QueuedHasAttemptLeft`), `SuppressedIsUnsent` (`SuppressedNotSent`), `Implements` (`KeepsPromise`, the refinement) |
| `SmsConsent_proof` | `TypeCorrect`, `OrderDoesNotMatter` (`ConsentIsNewest`), `StopTakesEffect` (`StopStands`) |
| `DeliveryEvidence_proof` | `TypeCorrect`, `EvidenceIsShown` (`EvidenceShows`), `AcceptedSettles` (`OnlyAcceptedSettles`) |
| `CompPipeline_proof` | `TypeCorrect`, `MarketFirst` (`CompletedHasMarket`), `WorkIsExclusive` (`OneAtATime`), `DelayIsKept` (`PutOffUntilDue`) |
| `EventPlanning_proof` | `TypeCorrect`, `DecidedOnlyOnce` (`DecidedIsPlanned`), `SuppressedForACause` (`SuppressionHasCause`), `DecisionIsFinal` |
| `IncidentEscalation_proof` | `TypeCorrect`, `WaitsForWhatIsOut` (`WaitingIsOut`), `RepeatsAreOrdered` (`RepeatsInOrder`), `StopIsFelt` (`AtMostOneAfterStop`), `StopIsFinal` |
| `EbayClient_proof`, with `RateLimiter` | `TypeCorrect`, `WakeupsAreKept` (`NoLostWakeup`), `SlotsAreAccounted` (`SlotsAccounted`), `RefreshIsShared` (`OneRefresh`) |
| `OpportunityQueue_proof`, with `AcquisitionGate` | `TypeCorrect`, `QueuedHasItsSearch` (`QueuedIsSearched`), `NoAutoBuyAgainstAReason` (`AutoBuyIsClean`), `DecisionsDoNotCollide` (`DecidedOnce`), `PurchaseStands` |

Hardly any of the properties is inductive alone. What each invariant adds, and why:

* **DeliveryExecution.** That a loop may record an answer depends on the attempt
  row, on the delivery row and on who else can be in the same send. `Ledger` ties
  them together: attempts are numbered without gaps and every one but the last
  ended as an explicit retryable failure; the state of the row agrees with the
  outcome of the last attempt; an attempt agrees with what became of it at the
  provider; a loop that is sending works on the last attempt, on a row it owned,
  and no other loop does. The key step is that a loop that lost its row (its
  lease lapsed and the claim quarantined it) still holds an attempt that is not
  repeated, because a quarantined row is never claimed. The refinement uses the
  invariant at every step that moves `phase` or `copies`: `Requeue` needs that
  nothing was taken, `Take` that the row is open or quarantined.
* **SmsConsent.** The subscription knows the messages received only through
  `last_event_at`; `LastIsNewest` says that this is the time of the newest of
  them, chat included. An upsert then replaces the status exactly if its message
  is the newest, or a STOP as new as the newest. For `StopStands` the step that
  counts is the arrival of a STOP: if nothing newer asks for no status, only a START
  can be newer, and that is the exception of the property; what arrives after it
  changes the status only by being a newer START.
* **DeliveryEvidence.** The query for the newest receipt must find one
  (`HasNewest`) and receipt ids must be numbered (`Numbered`); an event that is not
  older than the one found is then not older than any.
* **CompPipeline.** The statements that end the work on a listing look at no lock.
  `Held` says what its row shows while a process has it in hand, the candidate
  update after the completion included; `MarketBehind`, that a worker past the
  market has written it. Only `Held` needs `Punctual`, the condition that
  `OneAtATime` and `PutOffUntilDue` have too, and leaves out the listings that an
  operator may send back to search, as they do; the market is there in any case.
* **EventPlanning.** `RowsAgree`: a row has an owner only in planning, so whoever
  still owns it finds it undecided. `PlannerKnows`: the rules a planner found to
  suppress its event have a cause. The cause lasts until the commit since a
  decision and the rules it passed are final, which is `DecisionIsFinal`.
* **IncidentEscalation.** The present repeat orders everything (`InOrder`): the
  repeats before it came to rest, those after it have no event; a worker holds a
  repeat up to it, and the present one if it holds the claim (`Holding`).
  `StoppedThere` says which one event may still go out after a stop: that of the
  present repeat. `AtMostOneAfterStop` counts a subset of that singleton.
* **EbayClient.** `LimiterOK` and `ClientOK` are proved together: the pump may start
  what it finds in the queue only because nothing in the queue runs already, and
  that rests on where the requests and the refresh are. `active` is the
  cardinality of `running`, for any number of slots.
* **OpportunityQueue.** Rows are written by their id alone. `OneDecider`: while a
  decider has an item the claim is held and the item is undecided, once decided
  nobody has it; said of items whose claims never lapsed under a busy worker
  (`overruns` 0), and false of others. `OneMatcher`: until an item has an
  opportunity it is in the hands of at most one matcher, after that of none; and
  `CandidateSpeaks`: its candidate has the status of its decision. These two also
  need that no answer was lost (`unanswered`), and `OneDecider` does without them:
  a matcher only ever adds an opportunity where there is none, and without one
  nothing is decided or in a decider's hands (`Traced`). `Traced`,
  `QueuedIsSearched` and `AutoBuyIsClean` are said of all items. The gate is a
  lemma of its own (`GateSpeaks`): whatever the bridge and the listing report,
  what may be bought has no hard reason, what is bought at once has none, and what
  is monitored has none or the auction risk.

The assumptions on the constants are those named `...Assumption` in the modules
(bounds are positive, null values are no members, the events of 10B, the
webhooks and the items are finite sets because cardinalities are taken of
tables); the runs evaluate all of them. Beyond these the theorems assume only
what they state: `~GatewayMasks` in `DeliveryExecution_proof`, `Punctual` inside
`OneAtATime` and `PutOffUntilDue`, and `overruns[x] = 0` inside `DecidedOnce` and
`PurchaseStands`.

Only model-checked: the liveness properties (fairness and ENABLED are out of the
prover's reach): `EveryDeliverySettles`, `EveryTaskSurfaces`,
`EveryListingSettles`, `EveryEventSettles`, `NothingStrands`, `EveryRequestEnds`.
The violations are counterexamples, which need no proof.

## 5. What is not modelled

* Row locks inside a transaction and the deadlocks PostgreSQL may break; an
  aborted transaction appears as a lost connection. (10D locks emission before
  runtime in mark and settle, runtime before emission in prepare and fail.)
* The environment switches read at the start of a batch; they act like the
  channel control.
* The recipient count of the permit (always 1), dead-letter rows, the audit
  ledger, metrics and logs.
* What an operator does to a delivery when resolving a task: no code does it.
* Scoring, pricing and comp selection: what a match, an execution status or a
  search result depends on is chosen freely.
* Capital that is spent by earlier batches or by other workers: each batch
  starts from the whole cash, in the code as in the model. A safety assessment
  that blocks an item after its purchase was approved withdraws nothing.
* The parts of the table in section 1 marked planned, later or not planned.

## 6. Plan

1. Proofs: abstract specifications of the other claim protocols (an event is
   decided once; a listing has one holder) and the step-by-step refinement to
   them, from the invariants of section 4.
2. A composition of DeliveryExecution and DeliveryEvidence over one delivery
   table, with the executor's ends replaced by the real ones; and of
   EventPlanning with DeliveryExecution's initial state.
3. Domain 8: `IdempotentOutbox` (804, 807): claim, publish, retry, leases; an
   abstract at-least-once queue it implements.
4. The listing generation queue, the shipping relay and capital allocation, the
   last as a function checked over bounded inputs.
