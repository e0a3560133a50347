-------------------------- MODULE OpportunityQueue --------------------------
(***************************************************************************)
(* How a candidate becomes a purchase: the opportunity-queue worker        *)
(* matches candidates, the acquisition-decision worker decides claimed     *)
(* opportunities and writes the purchase queue, while the profit drainer   *)
(* and the capital-safety worker set the status of the same rows.          *)
(*                                                                         *)
(* A candidate, its opportunity, its search job and its listing are one    *)
(* item: the queue holds one row per candidate (ON CONFLICT DO NOTHING).   *)
(* A claim may lapse at any time, also under a worker that is still busy.  *)
(***************************************************************************)
EXTENDS AcquisitionGate

CONSTANTS
    Items,        \* candidates
    Matchers,     \* opportunity-queue workers
    Deciders,     \* acquisition-decision workers
    Assessors,    \* capital-safety (phase 2 hardening) workers
    MaxAttempts,  \* ACQ_DECISION_WORKER_MAX_ATTEMPTS
    BatchSize,    \* ACQ_DECISION_WORKER_BATCH_SIZE
    MaxOverruns,  \* bound: how often a claim of an item lapses under a busy worker
    Cash,         \* how many items the cash on hand pays for
    Reasons,      \* reasons that the capital-safety bridge reports
    None

ASSUME QueueAssumption ==
    /\ IsFiniteSet(Items)
    /\ MaxAttempts \in Nat \ {0} /\ BatchSize \in Nat \ {0}
    /\ Cash \in Nat /\ MaxOverruns \in Nat
    /\ None \notin Items \cup Matchers /\ Reasons \subseteq BridgeHard \cup ContractHard \cup SoftReview

VARIABLES
    candidates,     \* arb.candidates: status, process_attempts, claim
    opportunities,  \* arb.opportunity_queue: status and claim
    searched,       \* items with a candidate_comp search job, active or done
    decisions,      \* arb.decisions: decision is BUY, execution status, by listing
    purchases,      \* arb.purchase_queue: queue status, by listing
    live,           \* items whose auction has not ended
    matchers, deciders, assessors,  \* what each worker has in hand
    overruns,       \* history: how often a claim of the item lapsed under a busy worker
    unanswered,     \* history: items queued by a commit whose answer was lost
    against         \* history: what spoke against the purchase as it was queued

tables == <<candidates, opportunities, searched, decisions, purchases>>
vars == <<tables, live, matchers, deciders, assessors, overruns, unanswered, against>>

CandidateStatuses ==
    {"pending", "retry_needed", "matched", "no_match", "queued",
     "profit_buy", "profit_bid_monitor", "profit_review", "profit_blocked",
     "profit_capital_skipped", "expired"}
OpportunityStatuses == {"none", "queued", "reviewed", "passed", "expired"}

Idle == [at |-> "idle", item |-> None]
AtRest == [todo |-> {}, scored |-> <<>>]
Undecided == [buy |-> FALSE, execution |-> "none"]
Unasked == [item |-> None, buy |-> FALSE]

Init ==
    /\ candidates = [x \in Items |-> [status |-> "pending", attempts |-> 0,
                                      token |-> None, held |-> FALSE]]
    /\ opportunities = [x \in Items |-> [status |-> "none", held |-> FALSE]]
    /\ searched = {}
    /\ decisions = [x \in Items |-> Undecided]
    /\ purchases = [x \in Items |-> "none"]
    /\ live = Items
    /\ matchers = [m \in Matchers |-> Idle]
    /\ deciders = [d \in Deciders |-> AtRest]
    /\ assessors = [a \in Assessors |-> Unasked]
    /\ overruns = [x \in Items |-> 0] /\ unanswered = {}
    /\ against = [x \in Items |-> {}]

Least(a, b) == IF a <= b THEN a ELSE b

-----------------------------------------------------------------------------
(* The opportunity-queue worker.                                           *)

Workable(x) == candidates[x].status \in {"pending", "retry_needed"}

\* Mutant: claims are not looked at.
FreeAlways(x) == x \in Items

\* claim_expires_at is null or past.
Free(x) == ~candidates[x].held

\* claimCandidates: process_attempts only matters below MaxAttempts.
ClaimCandidate(m, x) ==
    /\ matchers[m] = Idle
    /\ Workable(x) /\ Free(x)
    /\ candidates' = [candidates EXCEPT ![x].token = m, ![x].held = TRUE,
                          ![x].attempts = Least(@ + 1, MaxAttempts)]
    /\ matchers' = [matchers EXCEPT ![m] = [at |-> "claimed", item |-> x]]
    /\ UNCHANGED <<opportunities, searched, decisions, purchases, live, deciders, assessors, overruns, unanswered, against>>

\* A write may take effect and still throw, its answer being lost: the matcher
\* is then on its way to the catch block.
AfterWrite(m, answered) == IF answered THEN Idle ELSE [matchers[m] EXCEPT !.at = "unanswered"]

\* saveCandidateBestMatch: by id alone, whoever holds the claim by then.
SaveBestMatch(x, status) ==
    candidates' = [candidates EXCEPT ![x].status = status, ![x].held = FALSE]

SaveNoMatch(m, answered) ==
    /\ matchers[m].at = "claimed"
    /\ SaveBestMatch(matchers[m].item, "no_match")
    /\ matchers' = [matchers EXCEPT ![m] = AfterWrite(m, answered)]
    /\ UNCHANGED <<opportunities, searched, decisions, purchases, live, deciders, assessors, overruns, unanswered, against>>

SaveMatched(m) ==
    /\ matchers[m].at = "claimed"
    /\ SaveBestMatch(matchers[m].item, "matched")
    /\ matchers' = [matchers EXCEPT ![m].at = "saved"]
    /\ UNCHANGED <<opportunities, searched, decisions, purchases, live, deciders, assessors, overruns, unanswered, against>>

\* Mutant: the job is added for the holder of the claim only, which the match
\* has given up.
SearchesClaimed(x) == x \in live /\ candidates[x].held

\* A search job is added unless an active one is there already.
Searches(x) == x \in live

\* queueOpportunityIdempotent: one transaction; only profit_blocked of the
\* final statuses it respects is ever written here.
QueueOpportunity(m, answered) ==
    LET x == matchers[m].item
        open == candidates[x].status # "profit_blocked"
    IN  /\ matchers[m].at = "saved"
        /\ opportunities' = IF open /\ x \in live /\ opportunities[x].status = "none"
                            THEN [opportunities EXCEPT ![x].status = "queued"]
                            ELSE opportunities
        /\ candidates' = IF open
                         THEN [candidates EXCEPT ![x].status = "queued", ![x].held = FALSE]
                         ELSE candidates
        /\ searched' = IF open /\ Searches(x) THEN searched \cup {x} ELSE searched
        /\ matchers' = [matchers EXCEPT ![m] = AfterWrite(m, answered)]
        /\ unanswered' = IF answered THEN unanswered ELSE unanswered \cup {x}
        /\ UNCHANGED <<decisions, purchases, live, deciders, assessors, overruns, against>>

\* The catch block: markCandidateRetryNeeded asks for the token alone, which no
\* write takes away, and throws out of the loop (the process ends and is started
\* again) when it is another's.
MatchFails(m) ==
    LET x == matchers[m].item
    IN  /\ matchers[m] # Idle
        /\ candidates' = IF candidates[x].token = m
                         THEN [candidates EXCEPT ![x].status = "retry_needed", ![x].held = FALSE]
                         ELSE candidates
        /\ matchers' = [matchers EXCEPT ![m] = Idle]
        /\ UNCHANGED <<opportunities, searched, decisions, purchases, live, deciders, assessors, overruns, unanswered, against>>

\* A crash, a stop, or an empty watchlist: what was claimed stays claimed.
Abandon(m) ==
    /\ matchers[m] # Idle
    /\ matchers' = [matchers EXCEPT ![m] = Idle]
    /\ UNCHANGED <<tables, live, deciders, assessors, overruns, unanswered, against>>

\* A claim runs out under a worker that goes on with the item.
Overruns(x) ==
    /\ overruns[x] < MaxOverruns
    /\ overruns' = [overruns EXCEPT ![x] = @ + 1]

CandidateClaimLapses(x) ==
    /\ candidates[x].held
    /\ candidates' = [candidates EXCEPT ![x].held = FALSE]
    /\ IF \E m \in Matchers : matchers[m].item = x THEN Overruns(x) ELSE UNCHANGED overruns
    /\ UNCHANGED <<opportunities, searched, decisions, purchases, live, matchers, deciders, assessors, unanswered, against>>

-----------------------------------------------------------------------------
(* The acquisition-decision worker.                                        *)

\* process_attempts is the matcher's count: deciders never add to it.
Claimable(x) ==
    /\ opportunities[x].status = "queued" /\ ~opportunities[x].held
    /\ candidates[x].attempts < MaxAttempts /\ x \in live

\* claimOpportunityBatch: the status stays queued; only the expiry is written.
ClaimOpportunities(d, batch) ==
    /\ deciders[d] = AtRest
    /\ batch # {} /\ Cardinality(batch) <= BatchSize
    /\ \A x \in batch : Claimable(x)
    /\ opportunities' = [x \in Items |-> IF x \in batch
                            THEN [opportunities[x] EXCEPT !.held = TRUE] ELSE opportunities[x]]
    /\ deciders' = [deciders EXCEPT ![d].todo = batch]
    /\ UNCHANGED <<candidates, searched, decisions, purchases, live, matchers, assessors, overruns, unanswered, against>>

\* scoreCandidate: the economic signal, the reasons of the bridge, the status, price
\* and maximum bid of the listing; a maximum of zero is not a limit.
Score(d, x, buy, raw, over, dear, bid) ==
    /\ x \in deciders[d].todo
    /\ dear => bid # "zero"
    /\ deciders' = [deciders EXCEPT ![d] =
            [todo |-> @.todo \ {x},
             scored |-> [y \in DOMAIN @.scored \cup {x} |->
                            IF y = x THEN Scored(buy, raw, ListingBlocks(over, x \notin live, dear), bid)
                            ELSE @.scored[y]]]]
    /\ UNCHANGED <<tables, live, matchers, assessors, overruns, unanswered, against>>

\* handleCandidateFailure: markOpportunityRetry puts the row back by its id
\* alone, free to be claimed at once.
ScoreFails(d, x) ==
    /\ x \in deciders[d].todo
    /\ opportunities' = [opportunities EXCEPT ![x] = [status |-> "queued", held |-> FALSE]]
    /\ deciders' = [deciders EXCEPT ![d].todo = @ \ {x}]
    /\ UNCHANGED <<candidates, searched, decisions, purchases, live, matchers, assessors, overruns, unanswered, against>>

\* Mutant: the execution status is written unmapped.
CandidateStatusRaw(status) == status

\* mapCandidateStatus.
CandidateStatus(status) ==
    CASE status = "AUTO_BUY_READY"    -> "profit_buy"
      [] status = "BID_MONITOR_READY" -> "profit_bid_monitor"
      [] status = "REVIEW_REQUIRED"   -> "profit_review"
      [] status = "EXPIRED"           -> "expired"
      [] status = "CAPITAL_LIMIT_SKIPPED" -> "profit_capital_skipped"
      [] OTHER                        -> "profit_blocked"

\* isExecutionQueueEligible and mapPurchaseQueueStatusForDb.
PurchaseStatus(status) ==
    CASE status = "AUTO_BUY_READY"    -> "approved"
      [] status = "BID_MONITOR_READY" -> "bid_monitor"
      [] status = "REVIEW_REQUIRED"   -> "review_required"
      [] OTHER                        -> "none"

\* The batch as allocated and hardened: at most the cash on hand is given, to BUYs
\* without a hard reason whose rules say BUY again; each batch starts from all of it.
Allocation(scored, paid, wants) ==
    [x \in DOMAIN scored |->
        LET given == Allocated(scored[x], x \in wants \ paid)
        IN  [given EXCEPT !.execution = Hardened(given)]]

Fundable(scored) == {x \in DOMAIN scored : scored[x].execution \in Buys}

\* upsertPurchaseQueue: ON CONFLICT DO NOTHING.
Bridges(x, decision, resolved) ==
    purchases[x] = "none" /\ x \in resolved /\ PurchaseStatus(decision.execution) # "none"

\* persistDecisionBatch: one transaction over the batch, by id alone; resolved
\* are the listings with a normalized row to buy from.
PersistDecisions(d, resolved, wants, paid) ==
    LET batch == DOMAIN deciders[d].scored
        final == Allocation(deciders[d].scored, paid, wants)
        queued == {x \in batch : Bridges(x, final[x], resolved)}
    IN  /\ deciders[d].todo = {} /\ batch # {}
        /\ resolved \subseteq batch
        /\ wants \subseteq Fundable(deciders[d].scored)
        /\ paid \subseteq wants /\ Cardinality(paid) <= Cash
        /\ decisions' = [x \in Items |-> IF x \in batch
                            THEN [buy |-> final[x].buy, execution |-> final[x].execution] ELSE decisions[x]]
        /\ purchases' = [x \in Items |-> IF x \in queued
                            THEN PurchaseStatus(final[x].execution) ELSE purchases[x]]
        /\ against' = [x \in Items |-> IF x \in queued THEN final[x].against ELSE against[x]]
        /\ opportunities' = [x \in Items |-> IF x \in batch
                                THEN [opportunities[x] EXCEPT !.status =
                                        IF final[x].execution = "EXPIRED" THEN "expired" ELSE "reviewed"]
                                ELSE opportunities[x]]
        /\ candidates' = [x \in Items |-> IF x \in batch
                            THEN [candidates[x] EXCEPT !.status = CandidateStatus(final[x].execution)]
                            ELSE candidates[x]]
        /\ deciders' = [deciders EXCEPT ![d] = AtRest]
        /\ UNCHANGED <<searched, live, matchers, assessors, overruns, unanswered>>

\* A crash, a stop, or a failed persist, which ends the process as well.
DeciderStops(d) ==
    /\ deciders[d] # AtRest
    /\ deciders' = [deciders EXCEPT ![d] = AtRest]
    /\ UNCHANGED <<tables, live, matchers, assessors, overruns, unanswered, against>>

Holds(d, x) == x \in deciders[d].todo \cup DOMAIN deciders[d].scored

OpportunityClaimLapses(x) ==
    /\ opportunities[x].held
    /\ opportunities' = [opportunities EXCEPT ![x].held = FALSE]
    /\ IF \E d \in Deciders : Holds(d, x) THEN Overruns(x) ELSE UNCHANGED overruns
    /\ UNCHANGED <<candidates, searched, decisions, purchases, live, matchers, deciders, assessors, unanswered, against>>

-----------------------------------------------------------------------------
(* The other writers of the same rows.                                     *)

SetStatus(x, status) ==
    opportunities' = [opportunities EXCEPT ![x].status = status]

\* processBatch of the profit drainer, for one row: it does not look at the
\* deciders' claim.
Drain(x, status) ==
    /\ opportunities[x].status = "queued" /\ x \in live
    /\ status \in {"reviewed", "passed"}
    /\ SetStatus(x, status)
    /\ UNCHANGED <<candidates, searched, decisions, purchases, live, matchers, deciders, assessors, overruns, unanswered, against>>

\* Its first statement: what is queued past the end of the auction.
DrainExpired(x) ==
    /\ opportunities[x].status = "queued" /\ x \notin live
    /\ SetStatus(x, "expired")
    /\ UNCHANGED <<candidates, searched, decisions, purchases, live, matchers, deciders, assessors, overruns, unanswered, against>>

\* claimSafetyOpportunities, with the decision as it reads then; that the last
\* assessment is 12 hours old may be true at any time.
ClaimSafety(a, x) ==
    /\ assessors[a] = Unasked
    /\ opportunities[x].status \in {"queued", "reviewed"}
    /\ assessors' = [assessors EXCEPT ![a] = [item |-> x, buy |-> decisions[x].buy]]
    /\ UNCHANGED <<tables, live, matchers, deciders, overruns, unanswered, against>>

\* persistSafetyAssessment: by id alone; without a BUY to allow the row passes.
PersistSafety(a, allowed) ==
    /\ assessors[a] # Unasked
    /\ allowed => assessors[a].buy
    /\ SetStatus(assessors[a].item, IF allowed THEN "reviewed" ELSE "passed")
    /\ assessors' = [assessors EXCEPT ![a] = Unasked]
    /\ UNCHANGED <<candidates, searched, decisions, purchases, live, matchers,
                   deciders, overruns, unanswered, against>>

\* A failure or a crash: the row is left as it is.
SafetyFails(a) ==
    /\ assessors[a] # Unasked
    /\ assessors' = [assessors EXCEPT ![a] = Unasked]
    /\ UNCHANGED <<tables, live, matchers, deciders, overruns, unanswered, against>>

AuctionEnds(x) ==
    /\ x \in live
    /\ live' = live \ {x}
    /\ UNCHANGED <<tables, matchers, deciders, assessors, overruns, unanswered, against>>

-----------------------------------------------------------------------------
MatcherNext ==
    \E m \in Matchers :
        \/ \E x \in Items : ClaimCandidate(m, x)
        \/ \E answered \in BOOLEAN : SaveNoMatch(m, answered) \/ QueueOpportunity(m, answered)
        \/ SaveMatched(m) \/ MatchFails(m) \/ Abandon(m)

DeciderNext ==
    \E d \in Deciders :
        \/ \E batch \in SUBSET Items : ClaimOpportunities(d, batch)
        \/ \E x \in Items : ScoreFails(d, x)
        \/ \E x \in Items, buy, over, dear \in BOOLEAN, bid \in Bids, raw \in SUBSET Reasons :
                Score(d, x, buy, raw, over, dear, bid)
        \/ \E resolved, wants \in SUBSET Items : \E paid \in SUBSET wants :
                PersistDecisions(d, resolved, wants, paid)
        \/ DeciderStops(d)

AssessorNext ==
    \E a \in Assessors :
        \/ \E x \in Items : ClaimSafety(a, x)
        \/ \E allowed \in BOOLEAN : PersistSafety(a, allowed)
        \/ SafetyFails(a)

ItemNext ==
    \E x \in Items :
        \/ CandidateClaimLapses(x) \/ OpportunityClaimLapses(x)
        \/ \E s \in {"reviewed", "passed"} : Drain(x, s)
        \/ DrainExpired(x) \/ AuctionEnds(x)

Next == MatcherNext \/ DeciderNext \/ AssessorNext \/ ItemNext

Spec == Init /\ [][Next]_vars

\* Every row and every worker has one of the states of the code.
TypeOK ==
    /\ candidates \in [Items -> [status : CandidateStatuses, attempts : 0..MaxAttempts,
                                 token : Matchers \cup {None}, held : BOOLEAN]]
    /\ opportunities \in [Items -> [status : OpportunityStatuses, held : BOOLEAN]]
    /\ decisions \in [Items -> [buy : BOOLEAN, execution : Execution \cup {"none"}]]
    /\ purchases \in [Items -> {"none", "approved", "bid_monitor", "review_required"}]
    /\ against \in [Items -> SUBSET {"hard", "review", "monitor", "unfunded"}]
    /\ live \subseteq Items /\ searched \subseteq Items /\ unanswered \subseteq Items
    /\ overruns \in [Items -> 0..MaxOverruns]
    /\ matchers \in [Matchers -> [at : {"idle", "claimed", "saved", "unanswered"}, item : Items \cup {None}]]
    /\ \A d \in Deciders :
        /\ deciders[d].todo \subseteq Items
        /\ DOMAIN deciders[d].scored \subseteq Items \ deciders[d].todo
        /\ \A x \in DOMAIN deciders[d].scored : deciders[d].scored[x].execution \in Execution
    /\ assessors \in [Assessors -> [item : Items \cup {None}, buy : BOOLEAN]]

\* "every_queued_candidate_gets_candidate_comp_search": whatever claims lapse,
\* processes die or queue again, a queued candidate of an auction that runs has
\* its opportunity and its search.
QueuedIsSearched ==
    \A x \in live :
        candidates[x].status = "queued" =>
            opportunities[x].status # "none" /\ x \in searched

\* As long as no worker outlives its claim, an item is in the hands of one decider
\* at a time and is decided once: purchase and opportunity then speak of that
\* decision, although drainer and safety worker write the same row in between, and
\* nobody decides it again, although a matcher may put its candidate back.  The
\* candidate speaks of it as well, unless the answer to the commit that queued it
\* was lost: the catch block that follows may rewrite it at any later time.
DecidedOnce ==
    \A x \in Items : overruns[x] = 0 =>
        /\ Cardinality({d \in Deciders : Holds(d, x)}) <= 1
        /\ decisions[x] # Undecided =>
            /\ opportunities[x].status # "queued" /\ ~\E d \in Deciders : Holds(d, x)
            /\ purchases[x] \in {"none", PurchaseStatus(decisions[x].execution)}
            /\ x \notin unanswered => candidates[x].status = CandidateStatus(decisions[x].execution)

\* "HARD blocker => cannot auto-buy", "SOFT warning => can be queued as
\* review_required / bid_monitor", whoever decided the item and however often: what
\* is approved had no reason against it, known to the contract or not; what is
\* monitored had none either, or the auction risk among its soft ones; and nothing
\* is queued, for review neither, against a hard reason of contract or listing.
AutoBuyIsClean ==
    \A x \in Items :
        /\ purchases[x] = "approved" => against[x] \subseteq {"unfunded"}
        /\ purchases[x] = "bid_monitor" => "review" \notin against[x]
        /\ purchases[x] # "none" => "hard" \notin against[x]

\* The worker's rule 2: an item that the allocator has no capital for is not
\* executed. Violated: hardenAllocatedDecision never sees the allocator's skip.
UnfundedNotQueued == \A x \in Items : purchases[x] # "none" => "unfunded" \notin against[x]

=============================================================================
