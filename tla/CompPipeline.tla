---------------------------- MODULE CompPipeline ----------------------------
(***************************************************************************)
(* The comp-analysis job pipeline over arb.listings: comp-analysis workers *)
(* claim a listing, search eBay for comparable items, persist what they    *)
(* found and complete the listing; a failure puts it off or dead-letters   *)
(* it, and retry workers bring back what was put off or abandoned.         *)
(*                                                                         *)
(* The row has a lock (comp_locked_at, comp_locked_by) that claims respect *)
(* for a time to live and that no other statement looks at.  Each statement *)
(* or transaction is one action.  comp_attempts counts up to Ceiling only: *)
(* the code compares it with the two ceilings and nothing else.            *)
(***************************************************************************)
EXTENDS Naturals, FiniteSets

CONSTANTS
    Listings,             \* arb.listings, each with its newest candidate
    Workers,              \* comp-analysis processes
    Retriers,             \* retry-worker processes
    MaxAttempts,          \* COMP_WORKER_MAX_ATTEMPTS
    MaxThrottleAttempts,  \* COMP_WORKER_MAX_THROTTLE_ATTEMPTS
    BatchSize,            \* RETRY_WORKER_BATCH_SIZE
    Recoverable,          \* listings whose candidate may be sent back to search
    Punctual,             \* do live processes finish within the time to live?
    NoOne                 \* NULL: no lock, no job

ASSUME PipelineAssumption ==
    /\ MaxAttempts \in Nat \ {0} /\ MaxThrottleAttempts \in Nat \ {0}
    /\ BatchSize \in Nat \ {0}
    /\ Punctual \in BOOLEAN /\ Recoverable \subseteq Listings
    /\ NoOne \notin Listings \cup Workers \cup Retriers

Statuses == {"pending", "processing", "retry", "completed", "dead_letter"}

\* A lock is within the time to live, older, or old enough for the stale sweep.
Ages == {"fresh", "expired", "stale"}

\* comp_last_error_class: NULL, never worth a retry (INVALID_INPUT, AUTH),
\* THROTTLED, or anything else.
Classes == {"none", "poison", "throttled", "other"}

Ceiling == IF MaxAttempts > MaxThrottleAttempts THEN MaxAttempts ELSE MaxThrottleAttempts

VARIABLES
    status, lockedBy, lockAge, due, attempts, class,   \* the row
    ended,             \* listings whose auction is over
    needsSearch,       \* candidates in RECOVERED_NEEDS_EBAY_SEARCH
    hasComps,          \* candidates with rows in ebay_comps
    hasMarket,         \* listings with a row in ebay_market
    buried,            \* listings with a row in comp_dead_letter
    step, job, tries,  \* a worker: where it is, its listing, its compAttempts
    phase, todo, seen  \* a retrier: where it is, its batch, the rows it read

row == <<status, lockedBy, lockAge, due, attempts, class>>
evidence == <<needsSearch, hasComps, hasMarket>>
worker == <<step, job, tries>>
retrier == <<phase, todo, seen>>
vars == <<row, ended, evidence, buried, worker, retrier>>

Init ==
    /\ status = [l \in Listings |-> "pending"]
    /\ lockedBy = [l \in Listings |-> NoOne]
    /\ lockAge = [l \in Listings |-> "fresh"]
    /\ due = [l \in Listings |-> TRUE]
    /\ attempts = [l \in Listings |-> 0]
    /\ class = [l \in Listings |-> "none"]
    /\ ended = {} /\ needsSearch = {} /\ hasComps = {} /\ hasMarket = {} /\ buried = {}
    /\ step = [w \in Workers |-> "idle"]
    /\ job = [w \in Workers |-> NoOne]
    /\ tries = [w \in Workers |-> 0]
    /\ phase = [r \in Retriers |-> "sweep"]
    /\ todo = [r \in Retriers |-> {}]
    /\ seen = [r \in Retriers |-> [l \in Listings |-> [tries |-> 0, class |-> "none"]]]

-----------------------------------------------------------------------------
(* Locks.                                                                  *)

\* Mutant: a claim does not look at the lock.
UnlockedAlways(l) == TRUE

\* Mutant: a lock has no time to live.
UnlockedNoTtl(l) == lockedBy[l] = NoOne

Unlocked(l) == lockedBy[l] = NoOne \/ lockAge[l] # "fresh"

\* A statement that moves the listing on clears the lock.
Released(l, s, c, d) ==
    /\ status' = [status EXCEPT ![l] = s]
    /\ class' = [class EXCEPT ![l] = c]
    /\ due' = [due EXCEPT ![l] = d]
    /\ lockedBy' = [lockedBy EXCEPT ![l] = NoOne]
    /\ lockAge' = [lockAge EXCEPT ![l] = "fresh"]
    /\ UNCHANGED attempts

ToRetry(l, c) == Released(l, "retry", c, FALSE) /\ UNCHANGED buried

\* Mutant: the caller's terminal state is not a comp_status.
ToDeadLetterMisspelt(l, c) == Released(l, "failed", c, TRUE) /\ buried' = buried \cup {l}

\* markListingTerminal: the row and its dead letter in one transaction.
ToDeadLetter(l, c) == Released(l, "dead_letter", c, TRUE) /\ buried' = buried \cup {l}

-----------------------------------------------------------------------------
(* The comp-analysis worker.                                               *)

Idle(w) ==
    /\ step' = [step EXCEPT ![w] = "idle"]
    /\ job' = [job EXCEPT ![w] = NoOne]
    /\ tries' = [tries EXCEPT ![w] = 0]

\* A recovered candidate without comps is claimed whatever the status.  The order
\* in which the query prefers the claimable listings is left out.
Claimable ==
    {l \in Listings :
        /\ due[l] /\ l \notin ended /\ Unlocked(l)
        /\ \/ status[l] \in {"pending", "retry", "processing"}
           \/ l \in needsSearch /\ l \notin hasComps}

CountUp(n) == IF n < Ceiling THEN n + 1 ELSE n

Take(w, l) ==
    /\ status' = [status EXCEPT ![l] = "processing"]
    /\ lockedBy' = [lockedBy EXCEPT ![l] = w]
    /\ lockAge' = [lockAge EXCEPT ![l] = "fresh"]
    /\ attempts' = [attempts EXCEPT ![l] = CountUp(@)]
    /\ UNCHANGED <<due, class, ended, evidence, buried, retrier>>

ClaimNextListing(w) ==
    \E l \in Claimable :
        /\ step[w] = "idle"
        /\ Take(w, l)
        /\ step' = [step EXCEPT ![w] = "search"]
        /\ job' = [job EXCEPT ![w] = l]
        /\ tries' = [tries EXCEPT ![w] = CountUp(attempts[l])]

\* The claim commits and its answer is lost: nobody works on the listing.
ClaimUnread(w) ==
    \E l \in Claimable : step[w] = "idle" /\ Take(w, l) /\ UNCHANGED worker

\* Both searches and the comps they bring, or none.
PersistComps(w) ==
    /\ step[w] = "search"
    /\ hasComps' \in {hasComps, hasComps \cup {job[w]}}
    /\ step' = [step EXCEPT ![w] = "market"]
    /\ UNCHANGED <<row, ended, needsSearch, hasMarket, buried, job, tries, retrier>>

\* persistCompSet, then the upsert of ebay_market.
PersistMarket(w) ==
    /\ step[w] = "market"
    /\ hasMarket' = hasMarket \cup {job[w]}
    /\ step' = [step EXCEPT ![w] = "finalize"]
    /\ UNCHANGED <<row, ended, needsSearch, hasComps, buried, job, tries, retrier>>

\* Mutant: the listing is completed before its market is persisted.
FinalizeEarly(w) ==
    /\ step[w] \in {"market", "finalize"}
    /\ Released(job[w], "completed", "none", TRUE)
    /\ step' = [step EXCEPT ![w] = "candidate"]
    /\ UNCHANGED <<ended, evidence, buried, job, tries, retrier>>

\* Only the id of the listing is in the WHERE clause.
FinalizeSuccess(w) ==
    /\ step[w] = "finalize"
    /\ Released(job[w], "completed", "none", TRUE)
    /\ step' = [step EXCEPT ![w] = "candidate"]
    /\ UNCHANGED <<ended, evidence, buried, job, tries, retrier>>

CloseCandidate(w) ==
    /\ step[w] = "candidate"
    /\ needsSearch' = needsSearch \ {job[w]}
    /\ Idle(w)
    /\ UNCHANGED <<row, ended, hasComps, hasMarket, buried, retrier>>

\* The catch block of processClaimedListing, also after finalizeSuccess.
Fail(w, retryable, c) ==
    /\ step[w] # "idle"
    /\ IF retryable /\ tries[w] < MaxAttempts
       THEN ToRetry(job[w], c) ELSE ToDeadLetter(job[w], c)
    /\ Idle(w)
    /\ UNCHANGED <<ended, evidence, retrier>>

\* The process dies, or the catch block fails too and the loop goes on.
Drop(w) ==
    /\ step[w] # "idle"
    /\ Idle(w)
    /\ UNCHANGED <<row, ended, evidence, buried, retrier>>

-----------------------------------------------------------------------------
(* The retry worker.                                                       *)

Sweeps(l) == status[l] = "processing" /\ lockedBy[l] # NoOne /\ lockAge[l] = "stale"

\* reclaimStaleProcessingLocks; an error class the row has is kept.
ReclaimStale(r) ==
    /\ phase[r] = "sweep"
    /\ status' = [l \in Listings |-> IF Sweeps(l) THEN "retry" ELSE status[l]]
    /\ due' = [l \in Listings |-> Sweeps(l) \/ due[l]]
    /\ lockedBy' = [l \in Listings |-> IF Sweeps(l) THEN NoOne ELSE lockedBy[l]]
    /\ lockAge' = [l \in Listings |-> IF Sweeps(l) THEN "fresh" ELSE lockAge[l]]
    /\ class' = [l \in Listings |-> IF Sweeps(l) /\ class[l] = "none" THEN "other" ELSE class[l]]
    /\ phase' = [phase EXCEPT ![r] = "claim"]
    /\ UNCHANGED <<attempts, ended, evidence, buried, worker, todo, seen>>

\* Mutant: next_comp_attempt_at is not looked at.
CandidatesAnyTime == {l \in Listings : status[l] = "retry" /\ Unlocked(l)}

Candidates == {l \in Listings : status[l] = "retry" /\ due[l] /\ Unlocked(l)}

\* claimRetryCandidates: the lock is taken, the status stays.
ClaimRetries(r) ==
    /\ phase[r] = "claim"
    /\ \E picked \in SUBSET Candidates :
         /\ Cardinality(picked) <= BatchSize
         /\ picked = {} => Candidates = {}
         /\ lockedBy' = [l \in Listings |-> IF l \in picked THEN r ELSE lockedBy[l]]
         /\ lockAge' = [l \in Listings |-> IF l \in picked THEN "fresh" ELSE lockAge[l]]
         /\ todo' = [todo EXCEPT ![r] = picked]
         /\ seen' = [seen EXCEPT ![r] = [l \in Listings |->
                       IF l \in picked THEN [tries |-> attempts[l], class |-> class[l]]
                                       ELSE @[l]]]
         /\ phase' = [phase EXCEPT ![r] = IF picked = {} THEN "sweep" ELSE "batch"]
    /\ UNCHANGED <<status, due, attempts, class, ended, evidence, buried, worker>>

\* decideRetryDisposition, on the row as it was when it was claimed.
Spent(c) == \/ c.class = "poison"
            \/ c.class = "throttled" /\ c.tries >= MaxThrottleAttempts
            \/ c.class \in {"none", "other"} /\ c.tries >= MaxAttempts

Done(r, l) ==
    /\ todo' = [todo EXCEPT ![r] = @ \ {l}]
    /\ seen' = [seen EXCEPT ![r][l] = [tries |-> 0, class |-> "none"]]
    /\ phase' = [phase EXCEPT ![r] = IF todo[r] = {l} THEN "sweep" ELSE "batch"]

\* markListingTerminal has no condition on the status of the row; every class it
\* writes here is one normalizeFailureClass takes for UNCLASSIFIED.
BurySpent(r, l) ==
    /\ l \in todo[r] /\ Spent(seen[r][l])
    /\ ToDeadLetter(l, "other")
    /\ Done(r, l)
    /\ UNCHANGED <<ended, evidence, worker>>

\* resetListingToPending.
ResetToPending(r, l) ==
    /\ l \in todo[r] /\ ~Spent(seen[r][l])
    /\ IF status[l] = "retry" THEN Released(l, "pending", class[l], TRUE) ELSE UNCHANGED row
    /\ Done(r, l)
    /\ UNCHANGED <<ended, evidence, buried, worker>>

\* The statement for one candidate fails; the loop goes on with the next.
SkipCandidate(r, l) ==
    /\ l \in todo[r]
    /\ Done(r, l)
    /\ UNCHANGED <<row, ended, evidence, buried, worker>>

Restart(r) ==
    /\ phase' = [phase EXCEPT ![r] = "sweep"]
    /\ todo' = [todo EXCEPT ![r] = {}]
    /\ seen' = [seen EXCEPT ![r] = [l \in Listings |-> [tries |-> 0, class |-> "none"]]]
    /\ UNCHANGED <<row, ended, evidence, buried, worker>>

-----------------------------------------------------------------------------
(* Clock and surroundings.                                                 *)

UnderWork(l) == \/ \E w \in Workers : job[w] = l
                \/ \E r \in Retriers : l \in todo[r]

GetsOlder(l) ==
    /\ lockedBy[l] # NoOne /\ lockAge[l] # "stale"
    /\ lockAge' = [lockAge EXCEPT ![l] = IF @ = "fresh" THEN "expired" ELSE "stale"]
    /\ UNCHANGED <<status, lockedBy, due, attempts, class, ended, evidence, buried,
                   worker, retrier>>

LockGetsOlder(l) == (Punctual => ~UnderWork(l)) /\ GetsOlder(l)

BecomesDue(l) ==
    /\ ~due[l]
    /\ due' = [due EXCEPT ![l] = TRUE]
    /\ UNCHANGED <<status, lockedBy, lockAge, attempts, class, ended, evidence, buried,
                   worker, retrier>>

AuctionEnds(l) ==
    /\ l \notin ended
    /\ ended' = ended \cup {l}
    /\ UNCHANGED <<row, evidence, buried, worker, retrier>>

\* Nothing in the repository writes RECOVERED_NEEDS_EBAY_SEARCH: an operator asks
\* for a new search of the candidate, at any moment.
RecoverCandidate(l) ==
    /\ l \in Recoverable \ needsSearch
    /\ needsSearch' = needsSearch \cup {l}
    /\ UNCHANGED <<row, ended, hasComps, hasMarket, buried, worker, retrier>>

Work(w) ==
    \/ ClaimNextListing(w) \/ PersistComps(w) \/ PersistMarket(w)
    \/ FinalizeSuccess(w) \/ CloseCandidate(w)
    \/ \E retryable \in BOOLEAN, c \in Classes \ {"none"} : Fail(w, retryable, c)

Retry(r) ==
    \/ ReclaimStale(r) \/ ClaimRetries(r)
    \/ \E l \in Listings : BurySpent(r, l) \/ ResetToPending(r, l)

Next ==
    \/ \E w \in Workers : Work(w) \/ ClaimUnread(w) \/ Drop(w)
    \/ \E r \in Retriers : Retry(r) \/ Restart(r) \/ \E l \in Listings : SkipCandidate(r, l)
    \/ \E l \in Listings : \/ LockGetsOlder(l) \/ BecomesDue(l)
                           \/ AuctionEnds(l) \/ RecoverCandidate(l)

Spec == Init /\ [][Next]_vars

-----------------------------------------------------------------------------
(* Properties.                                                             *)

TypeOK ==
    /\ status \in [Listings -> Statuses]
    /\ lockedBy \in [Listings -> Workers \cup Retriers \cup {NoOne}]
    /\ lockAge \in [Listings -> Ages]
    /\ due \in [Listings -> BOOLEAN]
    /\ attempts \in [Listings -> 0 .. Ceiling]
    /\ class \in [Listings -> Classes]
    /\ ended \subseteq Listings
    /\ needsSearch \subseteq Listings /\ hasComps \subseteq Listings
    /\ hasMarket \subseteq Listings /\ buried \subseteq Listings
    /\ step \in [Workers -> {"idle", "search", "market", "finalize", "candidate"}]
    /\ job \in [Workers -> Listings \cup {NoOne}]
    /\ tries \in [Workers -> 0 .. Ceiling]
    /\ phase \in [Retriers -> {"sweep", "claim", "batch"}]
    /\ todo \in [Retriers -> SUBSET Listings]
    /\ seen \in [Retriers -> [Listings -> [tries : 0 .. Ceiling, class : Classes]]]

\* The consumers of completed listings read their market: a completed listing has
\* one, whichever of several overlapping workers completed it.
CompletedHasMarket == \A l \in Listings : status[l] = "completed" => l \in hasMarket

Working(w, l) == job[w] = l /\ step[w] # "candidate"

\* While processes keep to the time to live, nobody works twice on a listing, and
\* the row shows who does.  Not so for a recovered candidate: FinalizeSuccess lets
\* go of the lock before CloseCandidate takes it off the list of the claims.
OneAtATime ==
    Punctual =>
    \A l \in Listings \ Recoverable :
        /\ \A w \in Workers : Working(w, l) =>
              /\ status[l] = "processing" /\ lockedBy[l] = w
              /\ \A v \in Workers \ {w} : ~Working(v, l)
        /\ \A r \in Retriers : l \in todo[r] => status[l] = "retry" /\ lockedBy[l] = r

\* While processes keep to the time to live, a listing put off stays put off until
\* next_comp_attempt_at: neither the workers nor the retriers take it before.
PutOffUntilDue ==
    [][Punctual => \A l \in Listings \ Recoverable :
          status[l] = "retry" /\ ~due[l] => status'[l] = "retry"]_vars

=============================================================================
