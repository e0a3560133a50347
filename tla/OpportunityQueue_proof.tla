------------------------ MODULE OpportunityQueue_proof ------------------------
(***************************************************************************)
(* Proofs about OpportunityQueue for any finite set of items, any number   *)
(* of workers of each kind, batches, cash and reasons.                     *)
(*                                                                         *)
(* Rows are written by their id alone.  What keeps two workers from the    *)
(* same item is only that a claim is held, or that the status is not one   *)
(* to claim, for as long as somebody works on it; so what is said of the   *)
(* order of the writers is said of items whose claims never lapsed under a *)
(* busy worker.  A lost answer to the commit that queues an item lets the  *)
(* catch block put its candidate back, so that nothing is said of the      *)
(* matchers and the candidate of such an item; its decision stands all the *)
(* same, because a matcher never writes an opportunity that is there.      *)
(* What may be spent is said of all items.                                 *)
(***************************************************************************)
EXTENDS OpportunityQueue, FiniteSetTheorems, TLAPS

\* What is scored for a decision.
Decisions == [buy : BOOLEAN, execution : Execution, audit : {"none"}, against : SUBSET {"hard", "review", "monitor", "unfunded"}]

\* What is bought at once has no reason against it, what is monitored none but the
\* auction's risk, and what may be bought at all no hard one.
CleanScore(s) ==
    /\ s.execution = "AUTO_BUY_READY" => s.against \subseteq {"unfunded"}
    /\ s.execution = "BID_MONITOR_READY" => "review" \notin s.against
    /\ s.execution \in Buys => "hard" \notin s.against

\* A matcher at work has an item in hand; a decider its batch, in two parts.
MatcherOK(m) == matchers[m] = Idle \/ matchers[m] \in [at : {"claimed", "saved", "unanswered"}, item : Items]

DeciderOK(d) ==
    /\ DOMAIN deciders[d] = {"todo", "scored"}
    /\ deciders[d].todo \subseteq Items
    /\ DOMAIN deciders[d].scored \subseteq Items \ deciders[d].todo
    /\ \A x \in DOMAIN deciders[d].scored :
          deciders[d].scored[x] \in Decisions /\ CleanScore(deciders[d].scored[x])

AssessorOK(a) == assessors[a] = Unasked \/ assessors[a].item \in Items

HandsOK ==
    /\ DOMAIN deciders = Deciders
    /\ \A m \in Matchers : MatcherOK(m)
    /\ \A d \in Deciders : DeciderOK(d)
    /\ \A a \in Assessors : AssessorOK(a)

\* A purchase comes with a decision, and a decision or a decider with an opportunity.
Traced(x) ==
    /\ decisions[x] = Undecided => purchases[x] = "none"
    /\ decisions[x] # Undecided \/ (\E d \in Deciders : Holds(d, x)) => opportunities[x].status # "none"

\* Until it has an opportunity an item is in the hands of one matcher, after that of none.
OneMatcher(x) ==
    /\ \A m \in Matchers : matchers[m].item = x =>
        /\ opportunities[x].status = "none"
        /\ matchers[m].at = "claimed" => candidates[x].held
        /\ matchers[m].at = "saved" => candidates[x].status = "matched"
        /\ matchers[m].at = "unanswered" => ~Workable(x)
        /\ \A n \in Matchers : matchers[n].item = x => n = m
    /\ opportunities[x].status # "none" => ~Workable(x)

\* The claim is held while a decider has the item; once decided nobody has it.
OneDecider(x) ==
    /\ \A d \in Deciders : Holds(d, x) =>
        /\ opportunities[x].held /\ decisions[x] = Undecided
        /\ \A c \in Deciders : Holds(c, x) => c = d
    /\ decisions[x] # Undecided =>
        /\ opportunities[x].status # "queued"
        /\ purchases[x] \in {"none", PurchaseStatus(decisions[x].execution)}

\* The candidate has the status of its decision.
CandidateSpeaks(x) ==
    decisions[x] # Undecided => candidates[x].status = CandidateStatus(decisions[x].execution)

\* What holds of the order of the writers of an item.
InOrder(x) ==
    /\ overruns[x] = 0 => OneDecider(x)
    /\ overruns[x] = 0 /\ x \notin unanswered => OneMatcher(x) /\ CandidateSpeaks(x)

\* What is assessed has an opportunity.
Asked(a) == assessors[a] # Unasked => opportunities[assessors[a].item].status # "none"

IInv ==
    /\ TypeOK /\ HandsOK /\ QueuedIsSearched /\ AutoBuyIsClean
    /\ \A a \in Assessors : Asked(a)
    /\ \A x \in Items : Traced(x) /\ InOrder(x)

-----------------------------------------------------------------------------
(* The gate.                                                               *)

\* A reason that the bridge or the listing gives ends up hard or soft: with a hard
\* one nothing is bought, without any the item may be bought at once, and it is
\* monitored against a soft one only when the auction's risk is among them.
LEMMA GateSpeaks ==
    ASSUME NEW buy \in BOOLEAN, NEW bid \in Bids, NEW raw, NEW listing
    PROVE  LET execution == ExecutionStatus(buy, Hard(raw, listing), Soft(raw), bid)
           IN  /\ execution \in Execution
               /\ execution \in Buys => listing = {} /\ raw \cap ContractHard = {}
               /\ execution = "AUTO_BUY_READY" => raw = {}
               /\ execution = "BID_MONITOR_READY" => raw = {} \/ MonitorRisk \in raw
<1> DEFINE hard == Hard(raw, listing)
           soft == Soft(raw)
           execution == ExecutionStatus(buy, hard, soft, bid)
<1>0. /\ hard = {} => listing = {} /\ raw \cap ContractHard = {}
      /\ hard = {} /\ soft = {} => raw = {}
      /\ MonitorRisk \in soft => MonitorRisk \in raw
  BY DEF Hard, Soft
<1>1. CASE hard \cap Ended # {}
  <2>0. CapitalStatus(buy, hard, soft) = "BLOCK"
    BY <1>1 DEF CapitalStatus
  <2>1. execution = "EXPIRED"
    BY <1>1, <2>0 DEF ExecutionStatus
  <2> QED
    BY <2>1 DEF Execution, Buys
<1>2. CASE hard \cap Ended = {} /\ (hard # {} \/ ~buy)
  <2>1. CapitalStatus(buy, hard, soft) = "BLOCK" \/ ~buy
    BY <1>2 DEF CapitalStatus
  <2>2. execution = "BLOCKED"
    BY <1>2, <2>1 DEF ExecutionStatus
  <2> QED
    BY <2>2 DEF Execution, Buys
<1>3. CASE hard = {} /\ buy /\ soft # {}
  <2>1. CapitalStatus(buy, hard, soft) = "REVIEW_REQUIRED"
    BY <1>3 DEF CapitalStatus
  <2>2. execution = IF bid = "positive" /\ MonitorRisk \in soft THEN "BID_MONITOR_READY" ELSE "REVIEW_REQUIRED"
    BY <1>3, <2>1 DEF ExecutionStatus
  <2> QED
    BY <1>0, <1>3, <2>2 DEF Execution
<1>4. CASE hard = {} /\ buy /\ soft = {}
  <2>1. CapitalStatus(buy, hard, soft) = "PASS"
    BY <1>4 DEF CapitalStatus
  <2>2. execution = IF bid # "none" THEN "BID_MONITOR_READY" ELSE "AUTO_BUY_READY"
    BY <1>4, <2>1 DEF ExecutionStatus
  <2> QED
    BY <1>0, <1>4, <2>2 DEF Execution
<1> QED
  BY <1>1, <1>2, <1>3, <1>4

LEMMA GravestIs ==
    ASSUME NEW raw, NEW listing
    PROVE  /\ Gravest(raw, listing) \in SUBSET {"hard", "review", "monitor", "unfunded"}
           /\ listing = {} /\ raw \cap ContractHard = {} => "hard" \notin Gravest(raw, listing)
           /\ listing = {} /\ raw = {} => Gravest(raw, listing) = {}
           /\ listing = {} /\ raw \cap ContractHard = {} /\ MonitorRisk \in raw =>
                "review" \notin Gravest(raw, listing)
<1>1. CASE listing # {} \/ raw \cap ContractHard # {}
  <2>1. Gravest(raw, listing) = {"hard"}
    BY <1>1 DEF Gravest
  <2> QED
    BY <1>1, <2>1
<1>2. CASE listing = {} /\ raw \cap ContractHard = {} /\ MonitorRisk \in raw
  <2>1. Gravest(raw, listing) = {"monitor"}
    BY <1>2 DEF Gravest
  <2> QED
    BY <1>2, <2>1
<1>3. CASE listing = {} /\ raw \cap ContractHard = {} /\ MonitorRisk \notin raw
  <2>1. Gravest(raw, listing) = {kind \in {"review"} : raw # {}}
    BY <1>3 DEF Gravest
  <2> QED
    BY <1>3, <2>1
<1> QED
  BY <1>1, <1>2, <1>3

LEMMA ScoreTyped ==
    ASSUME NEW buy \in BOOLEAN, NEW bid \in Bids, NEW raw, NEW listing
    PROVE  Scored(buy, raw, listing, bid) \in Decisions /\ CleanScore(Scored(buy, raw, listing, bid))
<1> DEFINE execution == ExecutionStatus(buy, Hard(raw, listing), Soft(raw), bid)
           reasons == IF execution \in Buys THEN Gravest(raw, listing) ELSE {}
<1>1. /\ execution \in Execution
      /\ execution \in Buys => listing = {} /\ raw \cap ContractHard = {}
      /\ execution = "AUTO_BUY_READY" => raw = {}
      /\ execution = "BID_MONITOR_READY" => raw = {} \/ MonitorRisk \in raw
  BY GateSpeaks
<1>2. Scored(buy, raw, listing, bid) =
        [buy |-> buy, execution |-> execution, audit |-> "none", against |-> reasons]
  BY DEF Scored
<1> HIDE DEF execution
<1>3. reasons \in SUBSET {"hard", "review", "monitor", "unfunded"}
  BY GravestIs
<1>4. /\ execution \in Buys => "hard" \notin reasons
      /\ execution = "AUTO_BUY_READY" => reasons = {}
      /\ execution = "BID_MONITOR_READY" => "review" \notin reasons
  BY <1>1, GravestIs DEF Buys
<1> HIDE DEF reasons
<1>5. Scored(buy, raw, listing, bid) \in Decisions
  BY <1>1, <1>2, <1>3 DEF Decisions
<1>6. CleanScore(Scored(buy, raw, listing, bid))
  BY <1>2, <1>4 DEF CleanScore
<1> QED
  BY <1>5, <1>6

\* The allocation changes nothing of a score but what speaks against it.
LEMMA FinalTyped ==
    ASSUME NEW scored, NEW paid, NEW wants, NEW x \in DOMAIN scored,
           scored[x] \in Decisions, CleanScore(scored[x])
    PROVE  LET final == Allocation(scored, paid, wants)[x]
           IN  /\ final \in Decisions /\ CleanScore(final)
               /\ final.execution = scored[x].execution /\ final.buy = scored[x].buy
<1> DEFINE given == Allocated(scored[x], x \in wants \ paid)
<1>1. Allocation(scored, paid, wants)[x] = [given EXCEPT !.execution = Hardened(given)]
  BY DEF Allocation
<1>2. /\ given \in Decisions /\ given.execution = scored[x].execution /\ given.buy = scored[x].buy
      /\ given.against \in {scored[x].against, scored[x].against \cup {"unfunded"}}
  BY DEF Allocated, Decisions
<1> HIDE DEF given
<1>3. CleanScore(given)
  BY <1>2 DEF CleanScore
<1>4. Hardened(given) = given.execution
  BY <1>2 DEF Hardened, Decisions
<1>5. [given EXCEPT !.execution = Hardened(given)] = given
  BY <1>2, <1>4 DEF Decisions
<1> QED
  BY <1>1, <1>2, <1>3, <1>5

LEMMA StatusTyped ==
    \A status : /\ CandidateStatus(status) \in CandidateStatuses \ {"pending", "retry_needed", "queued", "matched"}
                /\ PurchaseStatus(status) \in {"none", "approved", "bid_monitor", "review_required"}
                /\ PurchaseStatus(status) = "approved" => status = "AUTO_BUY_READY"
                /\ PurchaseStatus(status) = "bid_monitor" => status = "BID_MONITOR_READY"
                /\ PurchaseStatus(status) # "none" => status \in Buys
<1> TAKE status
<1>1. CandidateStatus(status) \in CandidateStatuses \ {"pending", "retry_needed", "queued", "matched"}
  BY DEF CandidateStatus, CandidateStatuses
<1>2. /\ PurchaseStatus(status) \in {"none", "approved", "bid_monitor", "review_required"}
      /\ PurchaseStatus(status) = "approved" => status = "AUTO_BUY_READY"
      /\ PurchaseStatus(status) = "bid_monitor" => status = "BID_MONITOR_READY"
      /\ PurchaseStatus(status) # "none" => status \in Buys
  BY DEF PurchaseStatus, Buys
<1> QED
  BY <1>1, <1>2

LEMMA AtRestIsEmpty == AtRest.todo = {} /\ DOMAIN AtRest.scored = {} /\ DOMAIN AtRest = {"todo", "scored"}
BY DEF AtRest

-----------------------------------------------------------------------------
(* Type correctness.                                                       *)

CandidateRow == [status : CandidateStatuses, attempts : 0..MaxAttempts, token : Matchers \cup {None}, held : BOOLEAN]
OpportunityRow == [status : OpportunityStatuses, held : BOOLEAN]

\* The rows, apart from what deciders have in hand.
RowsTyped ==
    /\ candidates \in [Items -> CandidateRow]
    /\ opportunities \in [Items -> OpportunityRow]
    /\ decisions \in [Items -> [buy : BOOLEAN, execution : Execution \cup {"none"}]]
    /\ purchases \in [Items -> {"none", "approved", "bid_monitor", "review_required"}]
    /\ against \in [Items -> SUBSET {"hard", "review", "monitor", "unfunded"}]
    /\ live \subseteq Items /\ searched \subseteq Items /\ unanswered \subseteq Items
    /\ overruns \in [Items -> 0..MaxOverruns]
    /\ matchers \in [Matchers -> [at : {"idle", "claimed", "saved", "unanswered"}, item : Items \cup {None}]]
    /\ assessors \in [Assessors -> [item : Items \cup {None}, buy : BOOLEAN]]

LEMMA TypeIsRows == HandsOK => (TypeOK <=> RowsTyped)
BY DEF HandsOK, DeciderOK, Decisions, TypeOK, RowsTyped, CandidateRow, OpportunityRow

\* What a statement that writes one row leaves behind.
LEMMA CandidateWritten ==
    ASSUME RowsTyped, NEW x \in Items, NEW st \in CandidateStatuses, NEW h \in BOOLEAN,
           candidates' = [candidates EXCEPT ![x].status = st, ![x].held = h]
    PROVE  /\ candidates' \in [Items -> CandidateRow]
           /\ candidates'[x].status = st /\ candidates'[x].held = h
           /\ \A y \in Items \ {x} : candidates'[y] = candidates[y]
<1>1. candidates \in [Items -> CandidateRow] /\ candidates[x] \in CandidateRow
  BY DEF RowsTyped
<1>2. candidates' = [candidates EXCEPT ![x] = [candidates[x] EXCEPT !.status = st, !.held = h]]
  BY <1>1 DEF CandidateRow
<1>3. /\ [candidates[x] EXCEPT !.status = st, !.held = h] \in CandidateRow
      /\ [candidates[x] EXCEPT !.status = st, !.held = h].status = st
      /\ [candidates[x] EXCEPT !.status = st, !.held = h].held = h
  BY <1>1 DEF CandidateRow
<1> QED
  BY <1>1, <1>2, <1>3

LEMMA OpportunityWritten ==
    ASSUME RowsTyped, NEW x \in Items, NEW st \in OpportunityStatuses,
           opportunities' = [opportunities EXCEPT ![x].status = st]
    PROVE  /\ opportunities' \in [Items -> OpportunityRow]
           /\ opportunities'[x].status = st /\ opportunities'[x].held = opportunities[x].held
           /\ \A y \in Items \ {x} : opportunities'[y] = opportunities[y]
<1>1. opportunities \in [Items -> OpportunityRow] /\ opportunities[x] \in OpportunityRow
  BY DEF RowsTyped
<1>2. /\ [opportunities[x] EXCEPT !.status = st] \in OpportunityRow
      /\ [opportunities[x] EXCEPT !.status = st].status = st
      /\ [opportunities[x] EXCEPT !.status = st].held = opportunities[x].held
  BY <1>1 DEF OpportunityRow
<1> QED
  BY <1>1, <1>2

LEMMA IdleTyped == Idle \in [at : {"idle", "claimed", "saved", "unanswered"}, item : Items \cup {None}]
BY DEF Idle

\* A matcher at work writes the candidate of an item.
LEMMA Busy ==
    ASSUME HandsOK, NEW m \in Matchers, matchers[m] # Idle
    PROVE  matchers[m].item \in Items /\ matchers[m] \in [at : {"claimed", "saved", "unanswered"}, item : Items]
BY DEF HandsOK, MatcherOK

LEMMA BusyAt ==
    ASSUME HandsOK, NEW m \in Matchers, matchers[m].at # "idle"
    PROVE  matchers[m] # Idle
BY DEF Idle

\* What a matcher has in hand after a write of its own.
HandAfter(m, h) ==
    h = Idle \/ h = [at |-> "saved", item |-> matchers[m].item] \/ h = [at |-> "unanswered", item |-> matchers[m].item]

LEMMA Hands ==
    ASSUME HandsOK, NEW m \in Matchers, matchers[m].at # "idle"
    PROVE  /\ [matchers[m] EXCEPT !.at = "saved"] = [at |-> "saved", item |-> matchers[m].item]
           /\ \A answered \in BOOLEAN :
                AfterWrite(m, answered) = IF answered THEN Idle ELSE [at |-> "unanswered", item |-> matchers[m].item]
           /\ \A answered \in BOOLEAN : HandAfter(m, AfterWrite(m, answered))
           /\ HandAfter(m, [matchers[m] EXCEPT !.at = "saved"])
<1>1. matchers[m] \in [at : {"claimed", "saved", "unanswered"}, item : Items]
  BY BusyAt, Busy
<1>2. /\ [matchers[m] EXCEPT !.at = "saved"] = [at |-> "saved", item |-> matchers[m].item]
      /\ [matchers[m] EXCEPT !.at = "unanswered"] = [at |-> "unanswered", item |-> matchers[m].item]
  BY <1>1
<1> QED
  BY <1>2 DEF AfterWrite, HandAfter

LEMMA HandPut ==
    ASSUME RowsTyped, HandsOK, NEW m \in Matchers, matchers[m].item \in Items,
           NEW h, HandAfter(m, h), matchers' = [matchers EXCEPT ![m] = h]
    PROVE  /\ matchers' \in [Matchers -> [at : {"idle", "claimed", "saved", "unanswered"}, item : Items \cup {None}]]
           /\ matchers'[m] = h /\ \A n \in Matchers \ {m} : matchers'[n] = matchers[n]
           /\ \A n \in Matchers : MatcherOK(n)'
<1>1. h \in [at : {"idle", "claimed", "saved", "unanswered"}, item : Items \cup {None}]
      /\ (h = Idle \/ h \in [at : {"claimed", "saved", "unanswered"}, item : Items])
  BY IdleTyped DEF HandAfter
<1>2. /\ matchers' \in [Matchers -> [at : {"idle", "claimed", "saved", "unanswered"}, item : Items \cup {None}]]
      /\ matchers'[m] = h /\ \A n \in Matchers \ {m} : matchers'[n] = matchers[n]
  BY <1>1 DEF RowsTyped
<1>3. ASSUME NEW n \in Matchers PROVE MatcherOK(n)'
  <2>1. CASE n = m
    BY <1>1, <1>2, <2>1 DEF MatcherOK
  <2>2. CASE n # m
    BY <1>2, <2>2 DEF HandsOK, MatcherOK
  <2> QED
    BY <2>1, <2>2
<1> QED
  BY <1>2, <1>3

LEMMA MatcherTyped ==
    ASSUME RowsTyped, HandsOK, NEW m \in Matchers,
           \/ \E x \in Items : ClaimCandidate(m, x)
           \/ \E answered \in BOOLEAN : SaveNoMatch(m, answered) \/ QueueOpportunity(m, answered)
           \/ SaveMatched(m) \/ MatchFails(m) \/ Abandon(m)
    PROVE  RowsTyped' /\ HandsOK'
<1> DEFINE y == matchers[m].item
<1>1. ASSUME NEW x \in Items, ClaimCandidate(m, x) PROVE RowsTyped' /\ HandsOK'
  <2>1. candidates[x] \in CandidateRow
    BY DEF RowsTyped
  <2>2. Least(candidates[x].attempts + 1, MaxAttempts) \in 0..MaxAttempts
    BY <2>1, QueueAssumption DEF Least, CandidateRow
  <2>3. [candidates[x] EXCEPT !.token = m, !.held = TRUE,
            !.attempts = Least(candidates[x].attempts + 1, MaxAttempts)] \in CandidateRow
    BY <2>1, <2>2 DEF CandidateRow
  <2>4. candidates' = [candidates EXCEPT ![x] = [candidates[x] EXCEPT !.token = m, !.held = TRUE,
            !.attempts = Least(candidates[x].attempts + 1, MaxAttempts)]]
    BY <1>1, <2>1 DEF ClaimCandidate, RowsTyped, CandidateRow
  <2>5. candidates' \in [Items -> CandidateRow]
    BY <2>3, <2>4 DEF RowsTyped
  <2>6. RowsTyped'
    BY <1>1, <2>5 DEF ClaimCandidate, RowsTyped
  <2>7. HandsOK'
    BY <1>1 DEF ClaimCandidate, RowsTyped, HandsOK, MatcherOK, DeciderOK, AssessorOK
  <2> QED
    BY <2>6, <2>7
<1>2. ASSUME (\E answered \in BOOLEAN : SaveNoMatch(m, answered)) \/ SaveMatched(m)
      PROVE  RowsTyped' /\ HandsOK'
  <2>1. y \in Items
    BY <1>2, BusyAt, Busy DEF SaveNoMatch, SaveMatched
  <2>2. \E st \in CandidateStatuses :
            candidates' = [candidates EXCEPT ![y].status = st, ![y].held = FALSE]
    BY <1>2 DEF SaveNoMatch, SaveMatched, SaveBestMatch, CandidateStatuses
  <2>3. candidates' \in [Items -> CandidateRow]
    BY <2>1, <2>2, CandidateWritten
  <2>4. \E h : HandAfter(m, h) /\ matchers' = [matchers EXCEPT ![m] = h]
    <3>1. ASSUME NEW answered \in BOOLEAN, SaveNoMatch(m, answered)
          PROVE  HandAfter(m, AfterWrite(m, answered)) /\ matchers' = [matchers EXCEPT ![m] = AfterWrite(m, answered)]
      BY <3>1, Hands DEF SaveNoMatch
    <3>2. ASSUME SaveMatched(m)
          PROVE  /\ HandAfter(m, [matchers[m] EXCEPT !.at = "saved"])
                 /\ matchers' = [matchers EXCEPT ![m] = [matchers[m] EXCEPT !.at = "saved"]]
      BY <3>2, Hands DEF SaveMatched, RowsTyped
    <3> QED
      BY <1>2, <3>1, <3>2
  <2>5. matchers' \in [Matchers -> [at : {"idle", "claimed", "saved", "unanswered"}, item : Items \cup {None}]]
        /\ \A n \in Matchers : MatcherOK(n)'
    BY <2>1, <2>4, HandPut
  <2> QED
    BY <1>2, <2>3, <2>5 DEF SaveNoMatch, SaveMatched, RowsTyped, HandsOK, DeciderOK, AssessorOK
<1>3. ASSUME NEW answered \in BOOLEAN, QueueOpportunity(m, answered) PROVE RowsTyped' /\ HandsOK'
  <2>1. y \in Items
    BY <1>3, BusyAt, Busy DEF QueueOpportunity
  <2>2. candidates' \in [Items -> CandidateRow]
    <3>1. "queued" \in CandidateStatuses
      BY DEF CandidateStatuses
    <3>2. UNCHANGED candidates \/ candidates' = [candidates EXCEPT ![y].status = "queued", ![y].held = FALSE]
      BY <1>3 DEF QueueOpportunity
    <3>3. ASSUME UNCHANGED candidates PROVE candidates' \in [Items -> CandidateRow]
      BY <3>3 DEF RowsTyped
    <3> QED
      BY <2>1, <3>1, <3>2, <3>3, CandidateWritten
  <2>3. opportunities' \in [Items -> OpportunityRow]
    <3>1. "queued" \in OpportunityStatuses
      BY DEF OpportunityStatuses
    <3>2. UNCHANGED opportunities \/ opportunities' = [opportunities EXCEPT ![y].status = "queued"]
      BY <1>3 DEF QueueOpportunity
    <3>3. ASSUME UNCHANGED opportunities PROVE opportunities' \in [Items -> OpportunityRow]
      BY <3>3 DEF RowsTyped
    <3> QED
      BY <2>1, <3>1, <3>2, <3>3, OpportunityWritten
  <2>6. searched' \subseteq Items /\ unanswered' \subseteq Items
    BY <1>3, <2>1 DEF QueueOpportunity, RowsTyped
  <2>7. \E h : HandAfter(m, h) /\ matchers' = [matchers EXCEPT ![m] = h]
    BY <1>3, Hands DEF QueueOpportunity
  <2>8. matchers' \in [Matchers -> [at : {"idle", "claimed", "saved", "unanswered"}, item : Items \cup {None}]]
        /\ \A n \in Matchers : MatcherOK(n)'
    BY <2>1, <2>7, HandPut
  <2> QED
    BY <1>3, <2>2, <2>3, <2>6, <2>8 DEF QueueOpportunity, RowsTyped, HandsOK, DeciderOK, AssessorOK
<1>4. CASE MatchFails(m) \/ Abandon(m)
  <2>1. y \in Items
    BY <1>4, Busy DEF MatchFails, Abandon
  <2>3. candidates' \in [Items -> CandidateRow]
    <3>1. "retry_needed" \in CandidateStatuses
      BY DEF CandidateStatuses
    <3>2. UNCHANGED candidates \/ candidates' = [candidates EXCEPT ![y].status = "retry_needed", ![y].held = FALSE]
      BY <1>4 DEF MatchFails, Abandon, tables
    <3>3. ASSUME UNCHANGED candidates PROVE candidates' \in [Items -> CandidateRow]
      BY <3>3 DEF RowsTyped
    <3> QED
      BY <2>1, <3>1, <3>2, <3>3, CandidateWritten
  <2>4. matchers' = [matchers EXCEPT ![m] = Idle]
    BY <1>4 DEF MatchFails, Abandon
  <2>5. matchers' \in [Matchers -> [at : {"idle", "claimed", "saved", "unanswered"}, item : Items \cup {None}]]
    BY <2>4, IdleTyped DEF RowsTyped
  <2>6. \A n \in Matchers : MatcherOK(n)'
    BY <2>4 DEF RowsTyped, HandsOK, MatcherOK
  <2> QED
    BY <1>4, <2>3, <2>5, <2>6 DEF MatchFails, Abandon, RowsTyped, HandsOK, DeciderOK, AssessorOK, tables
<1> QED
  BY <1>1, <1>2, <1>3, <1>4

\* What a decider takes in hand is its batch.
GoodHand(h) ==
    /\ DOMAIN h = {"todo", "scored"}
    /\ h.todo \subseteq Items
    /\ DOMAIN h.scored \subseteq Items \ h.todo
    /\ \A x \in DOMAIN h.scored : h.scored[x] \in Decisions /\ CleanScore(h.scored[x])

LEMMA NewHand ==
    ASSUME HandsOK, NEW d \in Deciders, NEW h, GoodHand(h),
           deciders' = [deciders EXCEPT ![d] = h], UNCHANGED <<matchers, assessors>>
    PROVE  HandsOK' /\ deciders'[d] = h /\ \A c \in Deciders \ {d} : deciders'[c] = deciders[c]
<1>1. deciders'[d] = h /\ (\A c \in Deciders \ {d} : deciders'[c] = deciders[c]) /\ DOMAIN deciders' = Deciders
  BY DEF HandsOK
<1>2. ASSUME NEW c \in Deciders PROVE DeciderOK(c)'
  <2>1. CASE c = d
    BY <1>1, <2>1 DEF DeciderOK, GoodHand
  <2>2. CASE c # d
    BY <1>1, <2>2 DEF DeciderOK, HandsOK
  <2> QED
    BY <2>1, <2>2
<1> QED
  BY <1>1, <1>2 DEF HandsOK, MatcherOK, AssessorOK

LEMMA RestIsGood == GoodHand(AtRest)
BY AtRestIsEmpty DEF GoodHand

\* Some inputs score the item.
Scores(d, x) ==
    \E buy, over, dear \in BOOLEAN, bid \in Bids, raw \in SUBSET Reasons : Score(d, x, buy, raw, over, dear, bid)

\* The item that is scored moves from one part of the hand to the other.
LEMMA ScoreMoves ==
    ASSUME HandsOK, NEW d \in Deciders, NEW x \in Items, Scores(d, x)
    PROVE  /\ HandsOK' /\ \A c \in Deciders \ {d} : deciders'[c] = deciders[c]
           /\ x \in deciders[d].todo
           /\ deciders'[d].todo = deciders[d].todo \ {x}
           /\ DOMAIN deciders'[d].scored = DOMAIN deciders[d].scored \cup {x}
<1>0. PICK buy \in BOOLEAN, over \in BOOLEAN, dear \in BOOLEAN, bid \in Bids, raw \in SUBSET Reasons :
        Score(d, x, buy, raw, over, dear, bid)
  BY DEF Scores
<1> DEFINE new == Scored(buy, raw, ListingBlocks(over, x \notin live, dear), bid)
           old == deciders[d].scored
           after == [y \in DOMAIN old \cup {x} |-> IF y = x THEN new ELSE old[y]]
           hand == [todo |-> deciders[d].todo \ {x}, scored |-> after]
<1>1. new \in Decisions /\ CleanScore(new)
  BY ScoreTyped
<1>2. deciders' = [deciders EXCEPT ![d] = hand] /\ x \in deciders[d].todo /\ UNCHANGED <<matchers, assessors>>
  BY <1>0 DEF Score, HandsOK
<1>3. DeciderOK(d)
  BY DEF HandsOK
<1> HIDE DEF new
<1>4. DOMAIN after = DOMAIN old \cup {x} /\ \A y \in DOMAIN after : after[y] \in Decisions /\ CleanScore(after[y])
  BY <1>1, <1>3 DEF DeciderOK
<1> HIDE DEF after
<1>5. DOMAIN hand = {"todo", "scored"} /\ hand.todo = deciders[d].todo \ {x} /\ hand.scored = after
  OBVIOUS
<1> HIDE DEF hand
<1>6. GoodHand(hand)
  BY <1>2, <1>3, <1>4, <1>5 DEF GoodHand, DeciderOK
<1> QED
  BY <1>2, <1>4, <1>5, <1>6, NewHand

LEMMA ClaimTakes ==
    ASSUME HandsOK, NEW d \in Deciders, NEW batch \in SUBSET Items, ClaimOpportunities(d, batch)
    PROVE  /\ HandsOK' /\ \A c \in Deciders \ {d} : deciders'[c] = deciders[c]
           /\ deciders'[d].todo = batch /\ DOMAIN deciders'[d].scored = {}
<1> DEFINE hand == [todo |-> batch, scored |-> <<>>]
<1>1. deciders[d] = AtRest /\ UNCHANGED <<matchers, assessors>> /\ deciders' = [deciders EXCEPT ![d].todo = batch]
  BY DEF ClaimOpportunities
<1>2. [deciders[d] EXCEPT !.todo = batch] = hand
  BY <1>1 DEF AtRest
<1>3. deciders' = [deciders EXCEPT ![d] = hand]
  BY <1>1, <1>2 DEF HandsOK
<1>4. DOMAIN hand = {"todo", "scored"} /\ hand.todo = batch /\ DOMAIN hand.scored = {}
  OBVIOUS
<1> HIDE DEF hand
<1>5. GoodHand(hand)
  BY <1>4 DEF GoodHand
<1> QED
  BY <1>1, <1>3, <1>4, <1>5, NewHand

LEMMA FailDrops ==
    ASSUME HandsOK, NEW d \in Deciders, NEW x \in Items, ScoreFails(d, x)
    PROVE  /\ HandsOK' /\ \A c \in Deciders \ {d} : deciders'[c] = deciders[c]
           /\ x \in deciders[d].todo
           /\ deciders'[d].todo = deciders[d].todo \ {x} /\ deciders'[d].scored = deciders[d].scored
<1> DEFINE hand == [deciders[d] EXCEPT !.todo = @ \ {x}]
<1>1. x \in deciders[d].todo /\ UNCHANGED <<matchers, assessors>> /\ deciders' = [deciders EXCEPT ![d] = hand]
  BY DEF ScoreFails, HandsOK
<1>2. DeciderOK(d)
  BY DEF HandsOK
<1>3. DOMAIN hand = {"todo", "scored"} /\ hand.todo = deciders[d].todo \ {x} /\ hand.scored = deciders[d].scored
  BY <1>2 DEF DeciderOK
<1> HIDE DEF hand
<1>4. GoodHand(hand)
  BY <1>2, <1>3 DEF GoodHand, DeciderOK
<1> QED
  BY <1>1, <1>3, <1>4, NewHand

\* A decider whose hand is put down.
LEMMA PutsDown ==
    ASSUME HandsOK, NEW d \in Deciders, deciders' = [deciders EXCEPT ![d] = AtRest], UNCHANGED <<matchers, assessors>>
    PROVE  /\ HandsOK' /\ \A c \in Deciders \ {d} : deciders'[c] = deciders[c]
           /\ deciders'[d].todo = {} /\ DOMAIN deciders'[d].scored = {}
BY RestIsGood, AtRestIsEmpty, NewHand

\* A batch is written row by row with the decision of its item.
LEMMA Persisted ==
    ASSUME RowsTyped, HandsOK, NEW d \in Deciders,
           NEW resolved \in SUBSET Items, NEW wants \in SUBSET Items, NEW paid \in SUBSET wants,
           PersistDecisions(d, resolved, wants, paid)
    PROVE  /\ RowsTyped'
           /\ \A x \in Items \ DOMAIN deciders[d].scored :
                /\ decisions'[x] = decisions[x] /\ purchases'[x] = purchases[x] /\ against'[x] = against[x]
                /\ opportunities'[x] = opportunities[x] /\ candidates'[x] = candidates[x]
           /\ \A x \in DOMAIN deciders[d].scored :
                \E final \in Decisions :
                  /\ CleanScore(final)
                  /\ decisions'[x].execution = final.execution /\ decisions'[x] # Undecided
                  /\ \/ purchases'[x] = purchases[x] /\ against'[x] = against[x]
                     \/ /\ purchases[x] = "none" /\ purchases'[x] = PurchaseStatus(final.execution)
                        /\ against'[x] = final.against
                  /\ opportunities'[x].status \in {"expired", "reviewed"}
                  /\ opportunities'[x].held = opportunities[x].held
                  /\ candidates'[x].status = CandidateStatus(final.execution)
                  /\ candidates'[x].held = candidates[x].held
<1> DEFINE scored == deciders[d].scored
           batch == DOMAIN scored
           final == Allocation(scored, paid, wants)
           queued == {x \in batch : Bridges(x, final[x], resolved)}
<1>1. /\ decisions' = [x \in Items |-> IF x \in batch
                            THEN [buy |-> final[x].buy, execution |-> final[x].execution] ELSE decisions[x]]
      /\ purchases' = [x \in Items |-> IF x \in queued
                            THEN PurchaseStatus(final[x].execution) ELSE purchases[x]]
      /\ against' = [x \in Items |-> IF x \in queued THEN final[x].against ELSE against[x]]
      /\ opportunities' = [x \in Items |-> IF x \in batch
                                THEN [opportunities[x] EXCEPT !.status =
                                        IF final[x].execution = "EXPIRED" THEN "expired" ELSE "reviewed"]
                                ELSE opportunities[x]]
      /\ candidates' = [x \in Items |-> IF x \in batch
                            THEN [candidates[x] EXCEPT !.status = CandidateStatus(final[x].execution)]
                            ELSE candidates[x]]
      /\ UNCHANGED <<searched, live, matchers, assessors, overruns, unanswered>>
  BY DEF PersistDecisions
<1>2. \A x \in batch : x \in Items /\ final[x] \in Decisions /\ CleanScore(final[x])
  <2> TAKE x \in batch
  <2>1. x \in Items /\ scored[x] \in Decisions /\ CleanScore(scored[x])
    BY DEF HandsOK, DeciderOK
  <2> QED
    BY <2>1, FinalTyped
<1>3. \A x \in queued : x \in batch /\ purchases[x] = "none"
  BY DEF Bridges
<1> HIDE DEF queued, final
<1>4. ASSUME NEW x \in batch
      PROVE  /\ decisions'[x] = [buy |-> final[x].buy, execution |-> final[x].execution]
             /\ opportunities'[x] = [opportunities[x] EXCEPT !.status =
                                        IF final[x].execution = "EXPIRED" THEN "expired" ELSE "reviewed"]
             /\ candidates'[x] = [candidates[x] EXCEPT !.status = CandidateStatus(final[x].execution)]
             /\ \/ purchases'[x] = purchases[x] /\ against'[x] = against[x]
                \/ /\ purchases[x] = "none" /\ purchases'[x] = PurchaseStatus(final[x].execution)
                   /\ against'[x] = final[x].against
  BY <1>1, <1>2, <1>3
<1>5. ASSUME NEW x \in batch
      PROVE  /\ decisions'[x] \in [buy : BOOLEAN, execution : Execution \cup {"none"}]
             /\ decisions'[x].execution = final[x].execution /\ decisions'[x] # Undecided
  <2>1. final[x].buy \in BOOLEAN /\ final[x].execution \in Execution
    BY <1>2 DEF Decisions
  <2>2. final[x].execution # "none"
    BY <2>1 DEF Execution
  <2>0. decisions'[x] = [buy |-> final[x].buy, execution |-> final[x].execution]
    BY <1>4
  <2>3. decisions'[x].execution = final[x].execution /\ decisions'[x].buy = final[x].buy
    BY <2>0
  <2>4. decisions'[x] # Undecided
    <3>1. Undecided.execution = "none"
      BY DEF Undecided
    <3> QED
      BY <2>2, <2>3, <3>1
  <2>5. decisions'[x] \in [buy : BOOLEAN, execution : Execution \cup {"none"}]
    BY <2>0, <2>1
  <2> QED
    BY <2>3, <2>4, <2>5
<1>6. ASSUME NEW x \in batch
      PROVE  /\ opportunities'[x] \in OpportunityRow
             /\ opportunities'[x].status \in {"expired", "reviewed"}
             /\ opportunities'[x].held = opportunities[x].held
  <2>1. opportunities[x] \in OpportunityRow
    BY <1>2 DEF RowsTyped
  <2> QED
    BY <1>4, <2>1 DEF OpportunityRow, OpportunityStatuses
<1>7. ASSUME NEW x \in batch
      PROVE  /\ candidates'[x] \in CandidateRow
             /\ candidates'[x].status = CandidateStatus(final[x].execution)
             /\ candidates'[x].held = candidates[x].held
  <2>1. candidates[x] \in CandidateRow
    BY <1>2 DEF RowsTyped
  <2>2. CandidateStatus(final[x].execution) \in CandidateStatuses
    BY StatusTyped
  <2> QED
    BY <1>4, <2>1, <2>2, ZenonT(40) DEF CandidateRow
<1>8. \A x \in Items \ batch :
                /\ decisions'[x] = decisions[x] /\ purchases'[x] = purchases[x] /\ against'[x] = against[x]
                /\ opportunities'[x] = opportunities[x] /\ candidates'[x] = candidates[x]
  BY <1>1, <1>3
<1>9. RowsTyped'
  <2>1. decisions' \in [Items -> [buy : BOOLEAN, execution : Execution \cup {"none"}]]
    BY <1>1, <1>5, <1>8 DEF RowsTyped
  <2>2. opportunities' \in [Items -> OpportunityRow]
    BY <1>1, <1>6, <1>8 DEF RowsTyped
  <2>3. candidates' \in [Items -> CandidateRow]
    BY <1>1, <1>7, <1>8 DEF RowsTyped
  <2>4. purchases' \in [Items -> {"none", "approved", "bid_monitor", "review_required"}]
    BY <1>1, StatusTyped DEF RowsTyped
  <2>5. against' \in [Items -> SUBSET {"hard", "review", "monitor", "unfunded"}]
    <3>1. \A x \in batch : final[x].against \in SUBSET {"hard", "review", "monitor", "unfunded"}
      BY <1>2 DEF Decisions
    <3> QED
      BY <1>1, <1>3, <3>1 DEF RowsTyped
  <2> QED
    BY <1>1, <2>1, <2>2, <2>3, <2>4, <2>5 DEF RowsTyped
<1> QED
  BY <1>2, <1>4, <1>5, <1>6, <1>7, <1>8, <1>9

LEMMA DeciderTyped ==
    ASSUME RowsTyped, HandsOK, NEW d \in Deciders,
        \/ \E batch \in SUBSET Items : ClaimOpportunities(d, batch)
        \/ \E x \in Items : ScoreFails(d, x)
        \/ \E x \in Items, buy, over, dear \in BOOLEAN, bid \in Bids, raw \in SUBSET Reasons :
                Score(d, x, buy, raw, over, dear, bid)
        \/ \E resolved, wants \in SUBSET Items : \E paid \in SUBSET wants :
                PersistDecisions(d, resolved, wants, paid)
        \/ DeciderStops(d)
    PROVE  RowsTyped' /\ HandsOK'
<1>1. ASSUME NEW batch \in SUBSET Items, ClaimOpportunities(d, batch) PROVE RowsTyped' /\ HandsOK'
  <2>1. ASSUME NEW x \in Items PROVE [opportunities[x] EXCEPT !.held = TRUE] \in OpportunityRow
    <3>1. opportunities[x] \in OpportunityRow
      BY DEF RowsTyped
    <3> QED
      BY <3>1 DEF OpportunityRow
  <2>2. opportunities' \in [Items -> OpportunityRow]
    BY <1>1, <2>1 DEF ClaimOpportunities, RowsTyped
  <2> QED
    BY <1>1, <2>2, ClaimTakes DEF ClaimOpportunities, RowsTyped
<1>2. ASSUME NEW x \in Items, ScoreFails(d, x) PROVE RowsTyped' /\ HandsOK'
  <2>1. [status |-> "queued", held |-> FALSE] \in OpportunityRow
    BY DEF OpportunityRow, OpportunityStatuses
  <2>2. opportunities' \in [Items -> OpportunityRow]
    BY <1>2, <2>1 DEF ScoreFails, RowsTyped
  <2> QED
    BY <1>2, <2>2, FailDrops DEF ScoreFails, RowsTyped
<1>3. ASSUME NEW x \in Items, NEW buy \in BOOLEAN, NEW over \in BOOLEAN, NEW dear \in BOOLEAN, NEW bid \in Bids,
             NEW raw \in SUBSET Reasons, Score(d, x, buy, raw, over, dear, bid)
      PROVE  RowsTyped' /\ HandsOK'
  <2>1. Scores(d, x)
    BY <1>3, SMTT(30) DEF Scores
  <2>2. HandsOK'
    BY <2>1, ScoreMoves
  <2> QED
    BY <1>3, <2>2 DEF Score, RowsTyped, tables
<1>4. ASSUME NEW resolved \in SUBSET Items, NEW wants \in SUBSET Items, NEW paid \in SUBSET wants,
             PersistDecisions(d, resolved, wants, paid)
      PROVE  RowsTyped' /\ HandsOK'
  <2>1. deciders' = [deciders EXCEPT ![d] = AtRest] /\ UNCHANGED <<matchers, assessors>>
    BY <1>4 DEF PersistDecisions
  <2>2. HandsOK'
    BY <2>1, PutsDown
  <2> QED
    BY <1>4, <2>2, Persisted
<1>5. CASE DeciderStops(d)
  <2>1. HandsOK'
    BY <1>5, PutsDown DEF DeciderStops
  <2> QED
    BY <1>5, <2>1 DEF DeciderStops, RowsTyped, tables
<1> QED
  BY <1>1, <1>2, <1>3, <1>4, <1>5

LEMMA AssessorTyped ==
    ASSUME RowsTyped, HandsOK, NEW a \in Assessors,
        \/ \E x \in Items : ClaimSafety(a, x)
        \/ \E allowed \in BOOLEAN : PersistSafety(a, allowed)
        \/ SafetyFails(a)
    PROVE  RowsTyped' /\ HandsOK'
<1>0. Unasked \in [item : Items \cup {None}, buy : BOOLEAN]
  BY DEF Unasked
<1>1. ASSUME NEW x \in Items, ClaimSafety(a, x) PROVE RowsTyped' /\ HandsOK'
  <2>1. decisions[x].buy \in BOOLEAN
    BY DEF RowsTyped
  <2>2. [item |-> x, buy |-> decisions[x].buy] \in [item : Items \cup {None}, buy : BOOLEAN]
    BY <2>1
  <2>3. assessors' \in [Assessors -> [item : Items \cup {None}, buy : BOOLEAN]]
    BY <1>1, <2>2 DEF ClaimSafety, RowsTyped
  <2>4. \A b \in Assessors : AssessorOK(b)'
    BY <1>1 DEF ClaimSafety, RowsTyped, HandsOK, AssessorOK
  <2> QED
    BY <1>1, <2>3, <2>4 DEF ClaimSafety, RowsTyped, HandsOK, MatcherOK, DeciderOK, tables
<1>2. ASSUME NEW allowed \in BOOLEAN, PersistSafety(a, allowed) PROVE RowsTyped' /\ HandsOK'
  <2>1. assessors[a].item \in Items
    BY <1>2 DEF PersistSafety, HandsOK, AssessorOK
  <2>2. "reviewed" \in OpportunityStatuses /\ "passed" \in OpportunityStatuses
    BY DEF OpportunityStatuses
  <2>3. \E st \in OpportunityStatuses : opportunities' = [opportunities EXCEPT ![assessors[a].item].status = st]
    BY <1>2, <2>2 DEF PersistSafety, SetStatus
  <2>4. opportunities' \in [Items -> OpportunityRow]
    BY <2>1, <2>3, OpportunityWritten
  <2>5. assessors' \in [Assessors -> [item : Items \cup {None}, buy : BOOLEAN]]
    BY <1>0, <1>2 DEF PersistSafety, RowsTyped
  <2>6. \A b \in Assessors : AssessorOK(b)'
    BY <1>2 DEF PersistSafety, RowsTyped, HandsOK, AssessorOK
  <2> QED
    BY <1>2, <2>4, <2>5, <2>6 DEF PersistSafety, RowsTyped, HandsOK, MatcherOK, DeciderOK
<1>3. CASE SafetyFails(a)
  <2>1. assessors' \in [Assessors -> [item : Items \cup {None}, buy : BOOLEAN]]
    BY <1>0, <1>3 DEF SafetyFails, RowsTyped
  <2>2. \A b \in Assessors : AssessorOK(b)'
    BY <1>3 DEF SafetyFails, RowsTyped, HandsOK, AssessorOK
  <2> QED
    BY <1>3, <2>1, <2>2 DEF SafetyFails, RowsTyped, HandsOK, MatcherOK, DeciderOK, tables
<1> QED
  BY <1>1, <1>2, <1>3

LEMMA ItemTyped ==
    ASSUME RowsTyped, HandsOK, NEW x \in Items,
        \/ CandidateClaimLapses(x) \/ OpportunityClaimLapses(x)
        \/ \E s \in {"reviewed", "passed"} : Drain(x, s)
        \/ DrainExpired(x) \/ AuctionEnds(x)
    PROVE  RowsTyped' /\ HandsOK'
<1>0. UNCHANGED <<matchers, deciders, assessors>>
  BY DEF CandidateClaimLapses, OpportunityClaimLapses, Drain, DrainExpired, AuctionEnds
<1>1. HandsOK'
  BY <1>0 DEF HandsOK, MatcherOK, DeciderOK, AssessorOK
<1>2. ASSUME UNCHANGED overruns \/ Overruns(x) PROVE overruns' \in [Items -> 0..MaxOverruns]
  BY <1>2, QueueAssumption DEF Overruns, RowsTyped
<1>3. CASE CandidateClaimLapses(x)
  <2>0. candidates[x] \in CandidateRow
    BY DEF RowsTyped
  <2>1. [candidates[x] EXCEPT !.held = FALSE] \in CandidateRow
    BY <2>0 DEF CandidateRow
  <2>2. candidates' \in [Items -> CandidateRow]
    BY <1>3, <2>1 DEF CandidateClaimLapses, RowsTyped
  <2>3. overruns' \in [Items -> 0..MaxOverruns]
    BY <1>2, <1>3 DEF CandidateClaimLapses
  <2> QED
    BY <1>1, <1>3, <2>2, <2>3 DEF CandidateClaimLapses, RowsTyped
<1>4. CASE OpportunityClaimLapses(x)
  <2>0. opportunities[x] \in OpportunityRow
    BY DEF RowsTyped
  <2>1. [opportunities[x] EXCEPT !.held = FALSE] \in OpportunityRow
    BY <2>0 DEF OpportunityRow
  <2>2. opportunities' \in [Items -> OpportunityRow]
    BY <1>4, <2>1 DEF OpportunityClaimLapses, RowsTyped
  <2>3. overruns' \in [Items -> 0..MaxOverruns]
    BY <1>2, <1>4 DEF OpportunityClaimLapses
  <2> QED
    BY <1>1, <1>4, <2>2, <2>3 DEF OpportunityClaimLapses, RowsTyped
<1>5. CASE (\E s \in {"reviewed", "passed"} : Drain(x, s)) \/ DrainExpired(x)
  <2>1. {"reviewed", "passed", "expired"} \subseteq OpportunityStatuses
    BY DEF OpportunityStatuses
  <2>2. \E st \in OpportunityStatuses : opportunities' = [opportunities EXCEPT ![x].status = st]
    BY <1>5, <2>1 DEF Drain, DrainExpired, SetStatus
  <2>3. opportunities' \in [Items -> OpportunityRow]
    BY <2>2, OpportunityWritten
  <2> QED
    BY <1>1, <1>5, <2>3 DEF Drain, DrainExpired, RowsTyped
<1>6. CASE AuctionEnds(x)
  BY <1>1, <1>6 DEF AuctionEnds, RowsTyped, tables
<1> QED
  BY <1>3, <1>4, <1>5, <1>6

LEMMA NextTyped == ASSUME TypeOK, HandsOK, [Next]_vars PROVE TypeOK' /\ HandsOK'
<1>0. RowsTyped
  BY TypeIsRows
<1>1. ASSUME UNCHANGED vars PROVE RowsTyped' /\ HandsOK'
  BY <1>0, <1>1 DEF vars, tables, RowsTyped, HandsOK, MatcherOK, DeciderOK, AssessorOK
<1>2. ASSUME MatcherNext PROVE RowsTyped' /\ HandsOK'
  BY <1>0, <1>2, MatcherTyped DEF MatcherNext
<1>3. ASSUME DeciderNext PROVE RowsTyped' /\ HandsOK'
  BY <1>0, <1>3, DeciderTyped DEF DeciderNext
<1>4. ASSUME AssessorNext PROVE RowsTyped' /\ HandsOK'
  BY <1>0, <1>4, AssessorTyped DEF AssessorNext
<1>5. ASSUME ItemNext PROVE RowsTyped' /\ HandsOK'
  BY <1>0, <1>5, ItemTyped DEF ItemNext
<1>6. RowsTyped' /\ HandsOK'
  BY <1>1, <1>2, <1>3, <1>4, <1>5 DEF Next
<1>7. (HandsOK => (TypeOK <=> RowsTyped))'
  BY TypeIsRows, PTL
<1> QED
  BY <1>6, <1>7

-----------------------------------------------------------------------------
(* One item at a time.                                                     *)

Searched(x) == x \in live /\ candidates[x].status = "queued" => opportunities[x].status # "none" /\ x \in searched

Clean(x) ==
    /\ purchases[x] = "approved" => against[x] \subseteq {"unfunded"}
    /\ purchases[x] = "bid_monitor" => "review" \notin against[x]
    /\ purchases[x] # "none" => "hard" \notin against[x]

ItemOK(x) == Traced(x) /\ Searched(x) /\ Clean(x) /\ InOrder(x)

LEMMA ItemHolds ==
    ASSUME IInv, NEW x \in Items
    PROVE  /\ ItemOK(x) /\ RowsTyped /\ HandsOK
           /\ candidates[x] \in CandidateRow /\ opportunities[x] \in OpportunityRow
<1>1. RowsTyped /\ HandsOK
  BY TypeIsRows DEF IInv
<1>2. ItemOK(x)
  BY DEF IInv, ItemOK, Searched, Clean, QueuedIsSearched, AutoBuyIsClean
<1> QED
  BY <1>1, <1>2 DEF RowsTyped

\* An item that a step leaves alone, or that somebody puts down.
Left(x) ==
    /\ candidates'[x] = candidates[x] /\ opportunities'[x] = opportunities[x]
    /\ decisions'[x] = decisions[x] /\ purchases'[x] = purchases[x] /\ against'[x] = against[x]
    /\ live' \subseteq live /\ searched \subseteq searched'
    /\ overruns'[x] = overruns[x] /\ unanswered \subseteq unanswered'
    /\ \A d \in Deciders : Holds(d, x)' => Holds(d, x)
    /\ \A m \in Matchers : matchers'[m].item = x => matchers'[m] = matchers[m]

LEMMA LeftStaysOK == ASSUME NEW x \in Items, ItemOK(x), Left(x) PROVE ItemOK(x)'
<1>1. Traced(x)' /\ Searched(x)' /\ Clean(x)'
  BY DEF ItemOK, Left, Traced, Searched, Clean
<1>2. ASSUME overruns'[x] = 0 PROVE OneDecider(x)'
  BY <1>2 DEF ItemOK, InOrder, Left, OneDecider
<1>3. ASSUME overruns'[x] = 0, x \notin unanswered' PROVE OneMatcher(x)' /\ CandidateSpeaks(x)'
  <2>1. OneMatcher(x) /\ CandidateSpeaks(x)
    BY <1>3 DEF ItemOK, InOrder, Left
  <2>2. OneMatcher(x)'
    BY <2>1 DEF Left, OneMatcher, Workable
  <2>3. CandidateSpeaks(x)'
    BY <2>1 DEF Left, CandidateSpeaks
  <2> QED
    BY <2>2, <2>3
<1> QED
  BY <1>1, <1>2, <1>3 DEF ItemOK, InOrder

LEMMA NoneIsNoItem == ASSUME HandsOK, NEW x \in Items, NEW m \in Matchers, matchers[m].item = x
                      PROVE  matchers[m].at \in {"claimed", "saved", "unanswered"} /\ matchers[m] # Idle
<1>1. Idle.item \notin Items
  BY QueueAssumption DEF Idle
<1>2. matchers[m] # Idle
  BY <1>1
<1> QED
  BY <1>2, Busy

\* What it means for the matchers of an item that no claim lapsed and no answer was lost.
LEMMA FreshItem ==
    ASSUME IInv, NEW x \in Items, overruns[x] = 0, x \notin unanswered, NEW m \in Matchers, matchers[m].item = x
    PROVE  /\ opportunities[x].status = "none" /\ decisions[x] = Undecided
           /\ \A d \in Deciders : ~Holds(d, x)
           /\ \A n \in Matchers : matchers[n].item = x => n = m
           /\ matchers[m].at = "saved" => candidates[x].status = "matched"
BY ItemHolds DEF ItemOK, InOrder, OneMatcher, Traced

\* An item whose only matcher writes it and goes on, or puts it down.
LEMMA MatcherWrites ==
    ASSUME IInv, NEW m \in Matchers, NEW x \in Items, matchers[m].item = x,
           UNCHANGED <<decisions, purchases, live, deciders, overruns, against>>,
           unanswered \subseteq unanswered', Searched(x)',
           opportunities[x].status # "none" => opportunities'[x] = opportunities[x],
           \A n \in Matchers \ {m} : matchers'[n] = matchers[n],
           overruns[x] = 0 /\ x \notin unanswered' =>
              /\ opportunities'[x].status # "none" => candidates'[x].status = "queued"
              /\ \/ matchers'[m] = Idle
                 \/ /\ matchers'[m] = [at |-> "saved", item |-> x]
                    /\ candidates'[x].status = "matched" /\ opportunities'[x] = opportunities[x]
                 \/ /\ matchers'[m] = [at |-> "unanswered", item |-> x]
                    /\ candidates'[x].status = "no_match" /\ opportunities'[x] = opportunities[x]
    PROVE  ItemOK(x)'
<1>0. ItemOK(x) /\ HandsOK
  BY ItemHolds
<1>1. Traced(x)' /\ Clean(x)'
  BY <1>0 DEF ItemOK, Traced, Clean, Holds
<1>2. ASSUME overruns'[x] = 0 PROVE OneDecider(x)'
  <2>1. OneDecider(x) /\ Traced(x)
    BY <1>0, <1>2 DEF ItemOK, InOrder
  <2>2. CASE opportunities[x].status # "none"
    BY <2>1, <2>2 DEF OneDecider, Holds
  <2>3. CASE opportunities[x].status = "none"
    BY <2>1, <2>3 DEF OneDecider, Traced, Holds
  <2> QED
    BY <2>2, <2>3
<1>3. ASSUME overruns'[x] = 0, x \notin unanswered' PROVE OneMatcher(x)' /\ CandidateSpeaks(x)'
  <2>1. /\ overruns[x] = 0 /\ opportunities[x].status = "none" /\ decisions[x] = Undecided
        /\ \A n \in Matchers : matchers[n].item = x => n = m
    BY <1>3, FreshItem
  <2>2. CandidateSpeaks(x)'
    BY <2>1 DEF CandidateSpeaks
  <2>3. \A n \in Matchers \ {m} : matchers'[n].item # x
    BY <2>1
  <2>4. (opportunities[x].status # "none" => ~Workable(x))'
    BY <1>3, <2>1 DEF Workable
  <2>5. CASE matchers'[m] = Idle
    <3>1. matchers'[m].item # x
      BY <2>5, QueueAssumption DEF Idle
    <3>2. \A n \in Matchers : matchers'[n].item # x
      BY <2>3, <3>1
    <3> QED
      BY <2>2, <2>4, <3>2 DEF OneMatcher
  <2>6. CASE /\ matchers'[m] = [at |-> "saved", item |-> x]
             /\ candidates'[x].status = "matched" /\ opportunities'[x] = opportunities[x]
    BY <2>1, <2>2, <2>3, <2>4, <2>6 DEF OneMatcher
  <2>7. CASE /\ matchers'[m] = [at |-> "unanswered", item |-> x]
             /\ candidates'[x].status = "no_match" /\ opportunities'[x] = opportunities[x]
    BY <2>1, <2>2, <2>3, <2>4, <2>7 DEF OneMatcher, Workable
  <2> QED
    BY <1>3, <2>1, <2>5, <2>6, <2>7
<1> QED
  BY <1>1, <1>2, <1>3 DEF ItemOK, InOrder

LEMMA ClaimKeeps ==
    ASSUME IInv, NEW m \in Matchers, NEW x \in Items, ClaimCandidate(m, x), NEW k \in Items
    PROVE  ItemOK(k)'
<1>0. ItemOK(k) /\ RowsTyped /\ HandsOK /\ candidates[k] \in CandidateRow
  BY ItemHolds
<1>1. /\ UNCHANGED <<opportunities, searched, decisions, purchases, live, deciders, overruns, unanswered, against>>
      /\ matchers[m] = Idle /\ Workable(x) /\ ~candidates[x].held
      /\ matchers'[m] = [at |-> "claimed", item |-> x]
      /\ \A n \in Matchers \ {m} : matchers'[n] = matchers[n]
  BY <1>0 DEF ClaimCandidate, Free, RowsTyped
<1>2. CASE k # x
  <2>1. candidates'[k] = candidates[k]
    BY <1>0, <1>2 DEF ClaimCandidate, RowsTyped
  <2>2. Left(k)
    BY <1>1, <1>2, <2>1 DEF Left, Holds
  <2> QED
    BY <1>0, <2>2, LeftStaysOK
<1>3. CASE k = x
  <2>1. candidates'[k].status = candidates[k].status /\ candidates'[k].held = TRUE
    BY <1>0, <1>3 DEF ClaimCandidate, RowsTyped, CandidateRow
  <2>2. Traced(k)' /\ Searched(k)' /\ Clean(k)'
    BY <1>0, <1>1, <2>1 DEF ItemOK, Traced, Searched, Clean, Holds
  <2>3. ASSUME overruns'[k] = 0 PROVE OneDecider(k)'
    <3>1. OneDecider(k)
      BY <1>0, <1>1, <2>3 DEF ItemOK, InOrder
    <3> QED
      BY <1>1, <3>1 DEF OneDecider, Holds
  <2>4. ASSUME overruns'[k] = 0, k \notin unanswered' PROVE OneMatcher(k)' /\ CandidateSpeaks(k)'
    <3>1. OneMatcher(k) /\ CandidateSpeaks(k)
      BY <1>0, <1>1, <2>4 DEF ItemOK, InOrder
    <3>2. CandidateSpeaks(k)'
      BY <1>1, <2>1, <3>1 DEF CandidateSpeaks
    <3>3. opportunities[k].status = "none"
      BY <1>1, <1>3, <3>1 DEF OneMatcher
    <3>4. ASSUME NEW n \in Matchers, matchers[n].item = k PROVE FALSE
      <4>1. matchers[n].at \in {"claimed", "saved", "unanswered"}
        BY <1>0, <3>4, NoneIsNoItem
      <4> QED
        BY <1>1, <1>3, <3>1, <3>4, <4>1 DEF OneMatcher, Workable
    <3>5. \A n \in Matchers : matchers'[n].item = k => n = m
      BY <1>1, <3>4
    <3>6. matchers'[m].at = "claimed"
      BY <1>1
    <3>7. OneMatcher(k)'
      BY <1>1, <2>1, <3>3, <3>5, <3>6 DEF OneMatcher
    <3> QED
      BY <3>2, <3>7
  <2> QED
    BY <2>2, <2>3, <2>4 DEF ItemOK, InOrder
<1> QED
  BY <1>2, <1>3

LEMMA SaveKeeps ==
    ASSUME IInv, NEW m \in Matchers,
           \/ \E answered \in BOOLEAN : SaveNoMatch(m, answered)
           \/ SaveMatched(m) \/ MatchFails(m) \/ Abandon(m),
           NEW k \in Items
    PROVE  ItemOK(k)'
<1> DEFINE x == matchers[m].item
           Written(st) == candidates' = [candidates EXCEPT ![x].status = st, ![x].held = FALSE]
           Put(h) == matchers' = [matchers EXCEPT ![m] = h]
<1>0. RowsTyped /\ HandsOK /\ ItemOK(k)
  BY ItemHolds
<1>1. x \in Items
  BY <1>0, BusyAt, Busy DEF SaveNoMatch, SaveMatched, MatchFails, Abandon
<1>2. UNCHANGED <<opportunities, searched, decisions, purchases, live, deciders, overruns, unanswered, against>>
  BY DEF SaveNoMatch, SaveMatched, MatchFails, Abandon, tables
<1>3. \/ (UNCHANGED candidates \/ Written("retry_needed")) /\ Put(Idle)
      \/ Written("no_match") /\ (Put(Idle) \/ Put([at |-> "unanswered", item |-> x]))
      \/ Written("matched") /\ Put([at |-> "saved", item |-> x])
  <2>1. ASSUME NEW answered \in BOOLEAN, SaveNoMatch(m, answered)
        PROVE  Written("no_match") /\ (Put(Idle) \/ Put([at |-> "unanswered", item |-> x]))
    BY <1>0, <2>1, Hands DEF SaveNoMatch, SaveBestMatch
  <2>2. CASE SaveMatched(m)
    <3>1. matchers' = [matchers EXCEPT ![m] = [matchers[m] EXCEPT !.at = "saved"]]
      BY <1>0, <2>2 DEF SaveMatched, RowsTyped
    <3> QED
      BY <1>0, <2>2, <3>1, Hands DEF SaveMatched, SaveBestMatch
  <2>3. CASE MatchFails(m) \/ Abandon(m)
    BY <2>3 DEF MatchFails, Abandon, tables
  <2> QED
    BY <2>1, <2>2, <2>3
<1>4. \A n \in Matchers \ {m} : matchers'[n] = matchers[n]
  <2>1. \A h : Put(h) => \A n \in Matchers \ {m} : matchers'[n] = matchers[n]
    BY <1>0 DEF RowsTyped
  <2> HIDE DEF Put, Written
  <2> QED
    BY <1>3, <2>1
<1>5. \A h : Put(h) => matchers'[m] = h
  BY <1>0 DEF RowsTyped
<1>6. {"no_match", "matched", "retry_needed"} \subseteq CandidateStatuses
  BY DEF CandidateStatuses
<1>7. \A st \in {"no_match", "matched", "retry_needed"} : Written(st) =>
        candidates'[x].status = st /\ \A y \in Items \ {x} : candidates'[y] = candidates[y]
  BY <1>0, <1>1, <1>6, CandidateWritten
<1> HIDE DEF Written, Put
<1>8. /\ \A y \in Items \ {x} : candidates'[y] = candidates[y]
      /\ candidates'[x].status # candidates[x].status => candidates'[x].status # "queued"
      /\ \/ matchers'[m] = Idle
         \/ matchers'[m] = [at |-> "unanswered", item |-> x] /\ candidates'[x].status = "no_match"
         \/ matchers'[m] = [at |-> "saved", item |-> x] /\ candidates'[x].status = "matched"
  BY <1>3, <1>5, <1>7
<1>9. CASE k # x
  <2>1. \A n \in Matchers : matchers'[n].item = k => matchers'[n] = matchers[n]
    BY <1>4, <1>8, <1>9, QueueAssumption DEF Idle
  <2>2. Left(k)
    BY <1>2, <1>8, <1>9, <2>1 DEF Left, Holds
  <2> QED
    BY <1>0, <2>2, LeftStaysOK
<1>10. CASE k = x
  <2>1. Searched(k)'
    BY <1>0, <1>2, <1>8, <1>10 DEF ItemOK, Searched
  <2>2. overruns[k] = 0 /\ k \notin unanswered' => opportunities'[k].status = "none"
    BY <1>1, <1>2, <1>10, FreshItem
  <2>3. opportunities'[k] = opportunities[k]
    BY <1>2
  <2> QED
    BY <1>2, <1>4, <1>8, <1>10, <2>1, <2>2, <2>3, MatcherWrites
<1> QED
  BY <1>9, <1>10

LEMMA QueueKeeps ==
    ASSUME IInv, NEW m \in Matchers, NEW answered \in BOOLEAN, QueueOpportunity(m, answered), NEW k \in Items
    PROVE  ItemOK(k)'
<1> DEFINE x == matchers[m].item
           open == candidates[x].status # "profit_blocked"
<1>0. RowsTyped /\ HandsOK /\ ItemOK(k)
  BY ItemHolds
<1>1. x \in Items
  BY <1>0, BusyAt, Busy DEF QueueOpportunity
<1>2. /\ opportunities' = IF open /\ x \in live /\ opportunities[x].status = "none"
                          THEN [opportunities EXCEPT ![x].status = "queued"] ELSE opportunities
      /\ candidates' = IF open THEN [candidates EXCEPT ![x].status = "queued", ![x].held = FALSE] ELSE candidates
      /\ searched' = IF open /\ x \in live THEN searched \cup {x} ELSE searched
      /\ matchers' = [matchers EXCEPT ![m] = AfterWrite(m, answered)]
      /\ unanswered' = IF answered THEN unanswered ELSE unanswered \cup {x}
      /\ matchers[m].at = "saved"
      /\ UNCHANGED <<decisions, purchases, live, deciders, overruns, against>>
  BY DEF QueueOpportunity, Searches
<1>3. /\ \A n \in Matchers \ {m} : matchers'[n] = matchers[n]
      /\ matchers'[m] = IF answered THEN Idle ELSE [at |-> "unanswered", item |-> x]
  <2>1. AfterWrite(m, answered) = IF answered THEN Idle ELSE [at |-> "unanswered", item |-> x]
    BY <1>0, <1>2, Hands
  <2> QED
    BY <1>0, <1>2, <2>1 DEF RowsTyped
<1>4. /\ \A y \in Items \ {x} : candidates'[y] = candidates[y]
      /\ open => candidates'[x].status = "queued"
      /\ ~open => candidates'[x] = candidates[x]
  <2>1. "queued" \in CandidateStatuses
    BY DEF CandidateStatuses
  <2>2. CASE open
    BY <1>0, <1>1, <1>2, <2>1, <2>2, CandidateWritten
  <2>3. CASE ~open
    BY <1>2, <2>3
  <2> QED
    BY <2>2, <2>3
<1>5. /\ \A y \in Items \ {x} : opportunities'[y] = opportunities[y]
      /\ open /\ x \in live => opportunities'[x].status # "none"
      /\ opportunities[x].status # "none" => opportunities'[x] = opportunities[x]
      /\ ~open => opportunities'[x] = opportunities[x]
  <2>1. "queued" \in OpportunityStatuses
    BY DEF OpportunityStatuses
  <2>2. CASE open /\ x \in live /\ opportunities[x].status = "none"
    BY <1>0, <1>1, <1>2, <2>1, <2>2, OpportunityWritten, ZenonT(40)
  <2>3. CASE ~(open /\ x \in live /\ opportunities[x].status = "none")
    BY <1>2, <2>3
  <2> QED
    BY <2>2, <2>3
<1>6. unanswered \subseteq unanswered' /\ searched \subseteq searched' /\ (x \notin unanswered' => answered = TRUE)
  BY <1>2
<1> HIDE DEF open
<1>8. CASE k # x
  <2>1. \A n \in Matchers : matchers'[n].item = k => matchers'[n] = matchers[n]
    BY <1>3, <1>8, QueueAssumption DEF Idle
  <2>2. Left(k)
    BY <1>2, <1>4, <1>5, <1>6, <1>8, <2>1 DEF Left, Holds
  <2> QED
    BY <1>0, <2>2, LeftStaysOK
<1>9. CASE k = x
  <2>1. Searched(k)'
    <3>1. CASE open
      BY <1>2, <1>4, <1>5, <1>9, <3>1 DEF Searched
    <3>2. CASE ~open
      BY <1>0, <1>2, <1>4, <1>5, <1>9, <3>2 DEF ItemOK, Searched
    <3> QED
      BY <3>1, <3>2
  <2>2. overruns[k] = 0 /\ k \notin unanswered' => open
    <3>1. overruns[k] = 0 /\ k \notin unanswered' => candidates[k].status = "matched"
      BY <1>1, <1>2, <1>6, <1>9, FreshItem
    <3> QED
      BY <1>9, <3>1 DEF open
  <2>3. overruns[k] = 0 /\ k \notin unanswered' =>
            candidates'[k].status = "queued" /\ matchers'[m] = Idle
    BY <1>3, <1>4, <1>6, <1>9, <2>2
  <2>4. opportunities[k].status # "none" => opportunities'[k] = opportunities[k]
    BY <1>5, <1>9
  <2> QED
    BY <1>2, <1>3, <1>6, <1>9, <2>1, <2>3, <2>4, MatcherWrites
<1> QED
  BY <1>8, <1>9

LEMMA BatchKeeps ==
    ASSUME IInv, NEW d \in Deciders, NEW batch \in SUBSET Items, ClaimOpportunities(d, batch), NEW k \in Items
    PROVE  ItemOK(k)'
<1>0. RowsTyped /\ HandsOK /\ ItemOK(k) /\ opportunities[k] \in OpportunityRow
  BY ItemHolds
<1>1. /\ deciders[d] = AtRest
      /\ \A x \in batch : Claimable(x)
      /\ opportunities' = [x \in Items |-> IF x \in batch
                            THEN [opportunities[x] EXCEPT !.held = TRUE] ELSE opportunities[x]]
      /\ UNCHANGED <<candidates, searched, decisions, purchases, live, matchers, overruns, unanswered, against>>
  BY DEF ClaimOpportunities
<1>2. /\ \A c \in Deciders \ {d} : deciders'[c] = deciders[c]
      /\ deciders'[d].todo = batch /\ DOMAIN deciders'[d].scored = {}
  BY <1>0, ClaimTakes
<1>3. /\ \A c \in Deciders \ {d} : Holds(c, k)' <=> Holds(c, k)
      /\ Holds(d, k)' <=> k \in batch
      /\ ~Holds(d, k)
  BY <1>1, <1>2, AtRestIsEmpty DEF Holds
<1>4. CASE k \notin batch
  <2>1. opportunities'[k] = opportunities[k]
    BY <1>1, <1>4
  <2>2. Left(k)
    BY <1>1, <1>3, <1>4, <2>1 DEF Left
  <2> QED
    BY <1>0, <2>2, LeftStaysOK
<1>5. CASE k \in batch
  <2>1. opportunities[k].status = "queued" /\ ~opportunities[k].held
    BY <1>1, <1>5 DEF Claimable
  <2>2. opportunities'[k].status = "queued" /\ opportunities'[k].held
    BY <1>0, <1>1, <1>5, <2>1 DEF OpportunityRow
  <2>3. Traced(k)' /\ Searched(k)' /\ Clean(k)'
    BY <1>0, <1>1, <2>1, <2>2 DEF ItemOK, Traced, Searched, Clean
  <2>4. ASSUME overruns'[k] = 0 PROVE OneDecider(k)'
    <3>1. OneDecider(k)
      BY <1>0, <1>1, <2>4 DEF ItemOK, InOrder
    <3>2. decisions[k] = Undecided /\ \A c \in Deciders : ~Holds(c, k)
      BY <2>1, <3>1 DEF OneDecider
    <3>3. \A c \in Deciders : Holds(c, k)' => c = d
      BY <1>3, <3>2
    <3> QED
      BY <1>1, <2>2, <3>2, <3>3 DEF OneDecider
  <2>5. ASSUME overruns'[k] = 0, k \notin unanswered' PROVE OneMatcher(k)' /\ CandidateSpeaks(k)'
    <3>1. OneMatcher(k) /\ CandidateSpeaks(k)
      BY <1>0, <1>1, <2>5 DEF ItemOK, InOrder
    <3> QED
      BY <1>1, <2>1, <2>2, <3>1 DEF OneMatcher, Workable, CandidateSpeaks
  <2> QED
    BY <2>3, <2>4, <2>5 DEF ItemOK, InOrder
<1> QED
  BY <1>4, <1>5

LEMMA ScoreKeeps ==
    ASSUME IInv, NEW d \in Deciders, NEW x \in Items, Scores(d, x), NEW k \in Items
    PROVE  ItemOK(k)'
<1>0. RowsTyped /\ HandsOK /\ ItemOK(k)
  BY ItemHolds
<1>1. UNCHANGED <<tables, live, matchers, overruns, unanswered, against>>
  BY DEF Scores, Score
<1>2. \A c \in Deciders : Holds(c, k)' => Holds(c, k)
  <2>1. /\ \A c \in Deciders \ {d} : deciders'[c] = deciders[c]
        /\ x \in deciders[d].todo
        /\ deciders'[d].todo = deciders[d].todo \ {x}
        /\ DOMAIN deciders'[d].scored = DOMAIN deciders[d].scored \cup {x}
    BY <1>0, ScoreMoves
  <2>2. Holds(d, k)' => Holds(d, k)
    BY <2>1 DEF Holds
  <2>3. \A c \in Deciders \ {d} : Holds(c, k)' => Holds(c, k)
    BY <2>1 DEF Holds
  <2> QED
    BY <2>2, <2>3
<1>3. Left(k)
  BY <1>1, <1>2 DEF Left, tables
<1> QED
  BY <1>0, <1>3, LeftStaysOK

LEMMA FailKeeps ==
    ASSUME IInv, NEW d \in Deciders, NEW x \in Items, ScoreFails(d, x), NEW k \in Items
    PROVE  ItemOK(k)'
<1>0. RowsTyped /\ HandsOK /\ ItemOK(k) /\ opportunities[k] \in OpportunityRow
  BY ItemHolds
<1>1. /\ opportunities' = [opportunities EXCEPT ![x] = [status |-> "queued", held |-> FALSE]]
      /\ UNCHANGED <<candidates, searched, decisions, purchases, live, matchers, overruns, unanswered, against>>
  BY DEF ScoreFails
<1>2. /\ \A c \in Deciders \ {d} : deciders'[c] = deciders[c]
      /\ x \in deciders[d].todo
      /\ deciders'[d].todo = deciders[d].todo \ {x} /\ deciders'[d].scored = deciders[d].scored
  BY <1>0, FailDrops
<1>3. /\ \A c \in Deciders : Holds(c, k)' => Holds(c, k)
      /\ Holds(d, x) /\ x \notin DOMAIN deciders[d].scored
  BY <1>0, <1>2 DEF Holds, HandsOK, DeciderOK
<1>4. CASE k # x
  <2>1. opportunities'[k] = opportunities[k]
    BY <1>1, <1>4
  <2>2. Left(k)
    BY <1>1, <1>3, <2>1 DEF Left
  <2> QED
    BY <1>0, <2>2, LeftStaysOK
<1>5. CASE k = x
  <2>1. opportunities'[k].status = "queued"
    BY <1>0, <1>1, <1>5 DEF RowsTyped
  <2>2. opportunities[k].status # "none"
    BY <1>0, <1>3, <1>5 DEF ItemOK, Traced
  <2>3. Traced(k)' /\ Searched(k)' /\ Clean(k)'
    BY <1>0, <1>1, <2>1, <2>2 DEF ItemOK, Traced, Searched, Clean
  <2>4. ASSUME overruns'[k] = 0 PROVE OneDecider(k)'
    <3>1. OneDecider(k)
      BY <1>0, <1>1, <2>4 DEF ItemOK, InOrder
    <3>2. decisions[k] = Undecided /\ \A c \in Deciders : Holds(c, k) => c = d
      BY <1>3, <1>5, <3>1 DEF OneDecider
    <3>3. ~Holds(d, k)'
      BY <1>2, <1>3, <1>5 DEF Holds
    <3>4. \A c \in Deciders : ~Holds(c, k)'
      BY <1>3, <3>2, <3>3
    <3> QED
      BY <1>1, <3>2, <3>4 DEF OneDecider
  <2>5. ASSUME overruns'[k] = 0, k \notin unanswered' PROVE OneMatcher(k)' /\ CandidateSpeaks(k)'
    <3>1. OneMatcher(k) /\ CandidateSpeaks(k)
      BY <1>0, <1>1, <2>5 DEF ItemOK, InOrder
    <3> QED
      BY <1>1, <2>1, <2>2, <3>1 DEF OneMatcher, Workable, CandidateSpeaks
  <2> QED
    BY <2>3, <2>4, <2>5 DEF ItemOK, InOrder
<1> QED
  BY <1>4, <1>5

LEMMA StopKeeps ==
    ASSUME IInv, NEW d \in Deciders, DeciderStops(d), NEW k \in Items
    PROVE  ItemOK(k)'
<1>0. RowsTyped /\ HandsOK /\ ItemOK(k)
  BY ItemHolds
<1>1. /\ UNCHANGED <<tables, live, matchers, assessors, overruns, unanswered, against>>
      /\ deciders' = [deciders EXCEPT ![d] = AtRest]
  BY DEF DeciderStops
<1>2. \A c \in Deciders : Holds(c, k)' => Holds(c, k)
  BY <1>0, <1>1, PutsDown DEF Holds
<1>3. Left(k)
  BY <1>1, <1>2 DEF Left, tables
<1> QED
  BY <1>0, <1>3, LeftStaysOK

\* The decision, the purchase, the opportunity and the candidate are written in one
\* transaction, by the only decider that has the item.
LEMMA PersistKeeps ==
    ASSUME IInv, NEW d \in Deciders,
           NEW resolved \in SUBSET Items, NEW wants \in SUBSET Items, NEW paid \in SUBSET wants,
           PersistDecisions(d, resolved, wants, paid), NEW k \in Items
    PROVE  ItemOK(k)'
<1> DEFINE batch == DOMAIN deciders[d].scored
<1>0. RowsTyped /\ HandsOK /\ ItemOK(k)
  BY ItemHolds
<1>1. /\ UNCHANGED <<searched, live, matchers, assessors, overruns, unanswered>>
      /\ deciders' = [deciders EXCEPT ![d] = AtRest]
      /\ deciders[d].todo = {}
  BY DEF PersistDecisions
<1>2. /\ \A c \in Deciders \ {d} : deciders'[c] = deciders[c]
      /\ deciders'[d].todo = {} /\ DOMAIN deciders'[d].scored = {}
  BY <1>0, <1>1, PutsDown
<1>3. /\ \A c \in Deciders : Holds(c, k)' => Holds(c, k) /\ c # d
      /\ Holds(d, k) <=> k \in batch
  BY <1>1, <1>2 DEF Holds
<1>4. CASE k \notin batch
  <2>1. /\ decisions'[k] = decisions[k] /\ purchases'[k] = purchases[k] /\ against'[k] = against[k]
        /\ opportunities'[k] = opportunities[k] /\ candidates'[k] = candidates[k]
    BY <1>0, <1>4, Persisted, SMTT(30)
  <2>2. Left(k)
    BY <1>1, <1>3, <2>1 DEF Left
  <2> QED
    BY <1>0, <2>2, LeftStaysOK
<1>5. CASE k \in batch
  <2>1. PICK final \in Decisions :
                  /\ CleanScore(final)
                  /\ decisions'[k].execution = final.execution /\ decisions'[k] # Undecided
                  /\ \/ purchases'[k] = purchases[k] /\ against'[k] = against[k]
                     \/ /\ purchases[k] = "none" /\ purchases'[k] = PurchaseStatus(final.execution)
                        /\ against'[k] = final.against
                  /\ opportunities'[k].status \in {"expired", "reviewed"}
                  /\ opportunities'[k].held = opportunities[k].held
                  /\ candidates'[k].status = CandidateStatus(final.execution)
                  /\ candidates'[k].held = candidates[k].held
    BY <1>0, <1>5, Persisted
  <2>2. candidates'[k].status \notin {"pending", "retry_needed", "queued", "matched"}
    BY <2>1, StatusTyped
  <2>3. Traced(k)' /\ Searched(k)'
    BY <2>1, <2>2 DEF Traced, Searched
  <2>4. Clean(k)'
    <3>1. CASE purchases'[k] = purchases[k] /\ against'[k] = against[k]
      BY <1>0, <3>1 DEF ItemOK, Clean
    <3>2. CASE purchases'[k] = PurchaseStatus(final.execution) /\ against'[k] = final.against
      BY <2>1, <3>2, StatusTyped DEF Clean, CleanScore
    <3> QED
      BY <2>1, <3>1, <3>2
  <2>5. ASSUME overruns'[k] = 0 PROVE OneDecider(k)'
    <3>1. OneDecider(k) /\ Traced(k)
      BY <1>0, <1>1, <2>5 DEF ItemOK, InOrder
    <3>2. decisions[k] = Undecided /\ \A c \in Deciders : Holds(c, k) => c = d
      BY <1>3, <1>5, <3>1 DEF OneDecider
    <3>3. purchases[k] = "none"
      BY <3>1, <3>2 DEF Traced
    <3>4. \A c \in Deciders : ~Holds(c, k)'
      BY <1>3, <3>2
    <3>5. purchases'[k] \in {"none", PurchaseStatus(decisions'[k].execution)}
      BY <2>1, <3>3
    <3> QED
      BY <2>1, <3>4, <3>5 DEF OneDecider
  <2>6. ASSUME overruns'[k] = 0, k \notin unanswered' PROVE OneMatcher(k)' /\ CandidateSpeaks(k)'
    <3>1. OneMatcher(k) /\ Traced(k)
      BY <1>0, <1>1, <2>6 DEF ItemOK, InOrder
    <3>2. opportunities[k].status # "none"
      BY <1>3, <1>5, <3>1 DEF Traced
    <3>3. \A m \in Matchers : matchers'[m].item # k
      BY <1>1, <3>1, <3>2 DEF OneMatcher
    <3>4. OneMatcher(k)'
      BY <2>2, <3>3 DEF OneMatcher, Workable
    <3>5. CandidateSpeaks(k)'
      BY <2>1 DEF CandidateSpeaks
    <3> QED
      BY <3>4, <3>5
  <2> QED
    BY <2>3, <2>4, <2>5, <2>6 DEF ItemOK, InOrder
<1> QED
  BY <1>4, <1>5

\* An opportunity that another writer settles.
LEMMA SettleKeeps ==
    ASSUME IInv, NEW x \in Items, NEW st \in {"reviewed", "passed", "expired"}, SetStatus(x, st),
           opportunities[x].status # "none",
           UNCHANGED <<candidates, searched, decisions, purchases, live, matchers, deciders, overruns, unanswered, against>>,
           NEW k \in Items
    PROVE  ItemOK(k)'
<1>0. RowsTyped /\ ItemOK(k)
  BY ItemHolds
<1>1. st \in OpportunityStatuses
  BY DEF OpportunityStatuses
<1>2. /\ opportunities'[x].status = st /\ opportunities'[x].held = opportunities[x].held
      /\ \A y \in Items \ {x} : opportunities'[y] = opportunities[y]
  BY <1>0, <1>1, OpportunityWritten DEF SetStatus
<1>3. \A d \in Deciders : Holds(d, k)' <=> Holds(d, k)
  BY DEF Holds
<1>4. CASE k # x
  <2>1. Left(k)
    BY <1>2, <1>3, <1>4 DEF Left
  <2> QED
    BY <1>0, <2>1, LeftStaysOK
<1>5. CASE k = x
  <2>1. Traced(k)' /\ Searched(k)' /\ Clean(k)'
    BY <1>0, <1>2, <1>3, <1>5 DEF ItemOK, Traced, Searched, Clean
  <2>2. ASSUME overruns'[k] = 0 PROVE OneDecider(k)'
    <3>1. OneDecider(k)
      BY <1>0, <2>2 DEF ItemOK, InOrder
    <3> QED
      BY <1>2, <1>3, <1>5, <3>1 DEF OneDecider
  <2>3. ASSUME overruns'[k] = 0, k \notin unanswered' PROVE OneMatcher(k)' /\ CandidateSpeaks(k)'
    <3>1. OneMatcher(k) /\ CandidateSpeaks(k)
      BY <1>0, <2>3 DEF ItemOK, InOrder
    <3> QED
      BY <1>2, <1>5, <3>1 DEF OneMatcher, Workable, CandidateSpeaks
  <2> QED
    BY <2>1, <2>2, <2>3 DEF ItemOK, InOrder
<1> QED
  BY <1>4, <1>5

LEMMA AssessorKeeps ==
    ASSUME IInv, NEW a \in Assessors,
        \/ \E x \in Items : ClaimSafety(a, x)
        \/ \E allowed \in BOOLEAN : PersistSafety(a, allowed)
        \/ SafetyFails(a),
        NEW k \in Items
    PROVE  ItemOK(k)'
<1>0. RowsTyped /\ HandsOK /\ ItemOK(k)
  BY ItemHolds
<1>1. CASE (\E x \in Items : ClaimSafety(a, x)) \/ SafetyFails(a)
  <2>1. UNCHANGED <<tables, live, matchers, deciders, overruns, unanswered, against>>
    BY <1>1 DEF ClaimSafety, SafetyFails
  <2>2. Left(k)
    BY <2>1 DEF Left, Holds, tables
  <2> QED
    BY <1>0, <2>2, LeftStaysOK
<1>2. ASSUME NEW allowed \in BOOLEAN, PersistSafety(a, allowed) PROVE ItemOK(k)'
  <2>1. assessors[a].item \in Items /\ opportunities[assessors[a].item].status # "none"
    BY <1>0, <1>2 DEF PersistSafety, HandsOK, AssessorOK, IInv, Asked
  <2>2. /\ \E st \in {"reviewed", "passed", "expired"} : SetStatus(assessors[a].item, st)
        /\ UNCHANGED <<candidates, searched, decisions, purchases, live, matchers, deciders, overruns, unanswered, against>>
    BY <1>2 DEF PersistSafety
  <2> QED
    BY <2>1, <2>2, SettleKeeps
<1> QED
  BY <1>1, <1>2

LEMMA CandidateLapseKeeps ==
    ASSUME IInv, NEW x \in Items, CandidateClaimLapses(x), NEW k \in Items
    PROVE  ItemOK(k)'
<1>0. RowsTyped /\ ItemOK(k) /\ candidates[k] \in CandidateRow
  BY ItemHolds
<1>1. /\ candidates' = [candidates EXCEPT ![x].held = FALSE]
      /\ UNCHANGED <<opportunities, searched, decisions, purchases, live, matchers, deciders, unanswered, against>>
  BY DEF CandidateClaimLapses
<1>2. \A y \in Items : overruns'[y] = 0 => overruns[y] = 0
  BY <1>0 DEF CandidateClaimLapses, Overruns, RowsTyped
<1>3. /\ candidates'[k].status = candidates[k].status
      /\ k # x => candidates'[k] = candidates[k]
  BY <1>0, <1>1 DEF RowsTyped, CandidateRow
<1>4. \A d \in Deciders : Holds(d, k)' <=> Holds(d, k)
  BY <1>1 DEF Holds
<1>5. Traced(k)' /\ Searched(k)' /\ Clean(k)'
  BY <1>0, <1>1, <1>3, <1>4 DEF ItemOK, Traced, Searched, Clean
<1>6. ASSUME overruns'[k] = 0 PROVE OneDecider(k)'
  <2>1. OneDecider(k)
    BY <1>0, <1>2, <1>6 DEF ItemOK, InOrder
  <2> QED
    BY <1>1, <1>4, <2>1 DEF OneDecider
<1>7. ASSUME overruns'[k] = 0, k \notin unanswered' PROVE OneMatcher(k)' /\ CandidateSpeaks(k)'
  <2>1. OneMatcher(k) /\ CandidateSpeaks(k)
    BY <1>0, <1>1, <1>2, <1>7 DEF ItemOK, InOrder
  <2>2. CandidateSpeaks(k)'
    BY <1>1, <1>3, <2>1 DEF CandidateSpeaks
  <2>3. k = x => \A m \in Matchers : matchers[m].item # k
    <3>1. ASSUME k = x, NEW m \in Matchers, matchers[m].item = k PROVE FALSE
      <4>1. Overruns(x)
        BY <3>1 DEF CandidateClaimLapses
      <4>2. overruns'[x] = overruns[x] + 1 /\ overruns[x] \in Nat
        BY <1>0, <4>1, QueueAssumption DEF Overruns, RowsTyped
      <4> QED
        BY <1>7, <3>1, <4>2
    <3> QED
      BY <3>1
  <2>4. OneMatcher(k)'
    BY <1>1, <1>3, <2>1, <2>3 DEF OneMatcher, Workable
  <2> QED
    BY <2>2, <2>4
<1> QED
  BY <1>5, <1>6, <1>7 DEF ItemOK, InOrder

LEMMA OpportunityLapseKeeps ==
    ASSUME IInv, NEW x \in Items, OpportunityClaimLapses(x), NEW k \in Items
    PROVE  ItemOK(k)'
<1>0. RowsTyped /\ ItemOK(k) /\ opportunities[k] \in OpportunityRow
  BY ItemHolds
<1>1. /\ opportunities' = [opportunities EXCEPT ![x].held = FALSE]
      /\ UNCHANGED <<candidates, searched, decisions, purchases, live, matchers, deciders, unanswered, against>>
  BY DEF OpportunityClaimLapses
<1>2. \A y \in Items : overruns'[y] = 0 => overruns[y] = 0
  BY <1>0 DEF OpportunityClaimLapses, Overruns, RowsTyped
<1>3. /\ opportunities'[k].status = opportunities[k].status
      /\ k # x => opportunities'[k] = opportunities[k]
  BY <1>0, <1>1 DEF RowsTyped, OpportunityRow
<1>4. \A d \in Deciders : Holds(d, k)' <=> Holds(d, k)
  BY <1>1 DEF Holds
<1>5. Traced(k)' /\ Searched(k)' /\ Clean(k)'
  BY <1>0, <1>1, <1>3, <1>4 DEF ItemOK, Traced, Searched, Clean
<1>6. ASSUME overruns'[k] = 0, k \notin unanswered' PROVE OneMatcher(k)' /\ CandidateSpeaks(k)'
  <2>1. OneMatcher(k) /\ CandidateSpeaks(k)
    BY <1>0, <1>1, <1>2, <1>6 DEF ItemOK, InOrder
  <2> QED
    BY <1>1, <1>3, <2>1 DEF OneMatcher, Workable, CandidateSpeaks
<1>7. ASSUME overruns'[k] = 0 PROVE OneDecider(k)'
  <2>1. OneDecider(k)
    BY <1>0, <1>2, <1>7 DEF ItemOK, InOrder
  <2>2. k = x => \A d \in Deciders : ~Holds(d, k)
    <3>1. ASSUME k = x, NEW d \in Deciders, Holds(d, k) PROVE FALSE
      <4>1. Overruns(x)
        BY <3>1 DEF OpportunityClaimLapses
      <4>2. overruns'[x] = overruns[x] + 1 /\ overruns[x] \in Nat
        BY <1>0, <4>1, QueueAssumption DEF Overruns, RowsTyped
      <4> QED
        BY <1>7, <3>1, <4>2
    <3> QED
      BY <3>1
  <2> QED
    BY <1>1, <1>3, <1>4, <2>1, <2>2 DEF OneDecider
<1> QED
  BY <1>5, <1>6, <1>7 DEF ItemOK, InOrder

LEMMA ItemKeeps ==
    ASSUME IInv, NEW x \in Items,
        \/ CandidateClaimLapses(x) \/ OpportunityClaimLapses(x)
        \/ \E s \in {"reviewed", "passed"} : Drain(x, s)
        \/ DrainExpired(x) \/ AuctionEnds(x),
        NEW k \in Items
    PROVE  ItemOK(k)'
<1>0. ItemOK(k)
  BY ItemHolds
<1>1. CASE CandidateClaimLapses(x)
  BY <1>1, CandidateLapseKeeps
<1>2. CASE OpportunityClaimLapses(x)
  BY <1>2, OpportunityLapseKeeps
<1>3. CASE (\E s \in {"reviewed", "passed"} : Drain(x, s)) \/ DrainExpired(x)
  <2>1. /\ \E st \in {"reviewed", "passed", "expired"} : SetStatus(x, st)
        /\ opportunities[x].status # "none"
        /\ UNCHANGED <<candidates, searched, decisions, purchases, live, matchers, deciders, overruns, unanswered, against>>
    BY <1>3 DEF Drain, DrainExpired
  <2> QED
    BY <2>1, SettleKeeps
<1>4. CASE AuctionEnds(x)
  <2>1. Left(k)
    BY <1>4 DEF AuctionEnds, Left, Holds, tables
  <2> QED
    BY <1>0, <2>1, LeftStaysOK
<1> QED
  BY <1>1, <1>2, <1>3, <1>4

LEMMA NextKeeps == ASSUME IInv, [Next]_vars, NEW k \in Items PROVE ItemOK(k)'
<1>0. ItemOK(k)
  BY ItemHolds
<1>1. ASSUME UNCHANGED vars PROVE ItemOK(k)'
  <2>1. Left(k)
    BY <1>1 DEF vars, tables, Left, Holds
  <2> QED
    BY <1>0, <2>1, LeftStaysOK
<1>2. ASSUME MatcherNext PROVE ItemOK(k)'
  <2>1. PICK m \in Matchers :
            \/ \E x \in Items : ClaimCandidate(m, x)
            \/ \E answered \in BOOLEAN : SaveNoMatch(m, answered) \/ QueueOpportunity(m, answered)
            \/ SaveMatched(m) \/ MatchFails(m) \/ Abandon(m)
    BY <1>2 DEF MatcherNext
  <2>2. ASSUME \/ \E answered \in BOOLEAN : SaveNoMatch(m, answered)
               \/ SaveMatched(m) \/ MatchFails(m) \/ Abandon(m)
        PROVE  ItemOK(k)'
    BY <2>2, SaveKeeps
  <2>3. ASSUME NEW answered \in BOOLEAN, QueueOpportunity(m, answered) PROVE ItemOK(k)'
    BY <2>3, QueueKeeps
  <2> QED
    BY <2>1, <2>2, <2>3, ClaimKeeps
<1>3. ASSUME DeciderNext PROVE ItemOK(k)'
  <2>1. PICK d \in Deciders :
            \/ \E batch \in SUBSET Items : ClaimOpportunities(d, batch)
            \/ \E x \in Items : ScoreFails(d, x) \/ Scores(d, x)
            \/ \E resolved, wants \in SUBSET Items : \E paid \in SUBSET wants :
                    PersistDecisions(d, resolved, wants, paid)
            \/ DeciderStops(d)
    BY <1>3 DEF DeciderNext, Scores
  <2> QED
    BY <2>1, BatchKeeps, ScoreKeeps, FailKeeps, StopKeeps, PersistKeeps
<1>4. ASSUME AssessorNext PROVE ItemOK(k)'
  BY <1>4, AssessorKeeps DEF AssessorNext
<1>5. ASSUME ItemNext PROVE ItemOK(k)'
  BY <1>5, ItemKeeps DEF ItemNext
<1> QED
  BY <1>1, <1>2, <1>3, <1>4, <1>5 DEF Next

-----------------------------------------------------------------------------
(* The inductive invariant.                                                *)

\* An opportunity stays: no step takes a row out of the queue.
LEMMA OpportunityStays ==
    ASSUME IInv, [Next]_vars, NEW x \in Items, opportunities[x].status # "none"
    PROVE  opportunities'[x].status # "none"
<1>0. RowsTyped /\ HandsOK
  BY ItemHolds
<1> DEFINE Kept == opportunities'[x].status # "none"
<1>1. ASSUME NEW y \in Items, NEW st \in OpportunityStatuses \ {"none"},
             opportunities' = [opportunities EXCEPT ![y].status = st]
      PROVE  Kept
  <2>1. opportunities'[y].status = st /\ \A z \in Items \ {y} : opportunities'[z] = opportunities[z]
    BY <1>0, <1>1, OpportunityWritten
  <2> QED
    BY <2>1
<1>2. {"queued", "reviewed", "passed", "expired"} \subseteq OpportunityStatuses \ {"none"}
  BY DEF OpportunityStatuses
<1>3. ASSUME UNCHANGED opportunities PROVE Kept
  BY <1>3
<1>4. ASSUME MatcherNext PROVE Kept
  <2>1. PICK m \in Matchers :
            \/ \E y \in Items : ClaimCandidate(m, y)
            \/ \E answered \in BOOLEAN : SaveNoMatch(m, answered) \/ QueueOpportunity(m, answered)
            \/ SaveMatched(m) \/ MatchFails(m) \/ Abandon(m)
    BY <1>4 DEF MatcherNext
  <2>2. ASSUME NEW answered \in BOOLEAN, QueueOpportunity(m, answered) PROVE Kept
    <3>1. matchers[m].item \in Items
      BY <1>0, <2>2, BusyAt, Busy DEF QueueOpportunity
    <3>2. UNCHANGED opportunities \/ opportunities' = [opportunities EXCEPT ![matchers[m].item].status = "queued"]
      BY <2>2 DEF QueueOpportunity
    <3> QED
      BY <1>1, <1>2, <1>3, <3>1, <3>2
  <2>3. ASSUME ~\E answered \in BOOLEAN : QueueOpportunity(m, answered) PROVE Kept
    BY <1>3, <2>1, <2>3 DEF ClaimCandidate, SaveNoMatch, SaveMatched, MatchFails, Abandon, tables
  <2> QED
    BY <2>2, <2>3
<1>5. ASSUME DeciderNext PROVE Kept
  <2>1. PICK d \in Deciders :
            \/ \E batch \in SUBSET Items : ClaimOpportunities(d, batch)
            \/ \E y \in Items : ScoreFails(d, y)
            \/ \E y \in Items, buy, over, dear \in BOOLEAN, bid \in Bids, raw \in SUBSET Reasons :
                    Score(d, y, buy, raw, over, dear, bid)
            \/ \E resolved, wants \in SUBSET Items : \E paid \in SUBSET wants :
                    PersistDecisions(d, resolved, wants, paid)
            \/ DeciderStops(d)
    BY <1>5 DEF DeciderNext
  <2>2. ASSUME NEW batch \in SUBSET Items, ClaimOpportunities(d, batch) PROVE Kept
    <3>1. opportunities[x] \in OpportunityRow
      BY <1>0 DEF RowsTyped
    <3> QED
      BY <2>2, <3>1 DEF ClaimOpportunities, OpportunityRow
  <2>3. ASSUME NEW y \in Items, ScoreFails(d, y) PROVE Kept
    BY <1>0, <2>3 DEF ScoreFails, RowsTyped
  <2>4. ASSUME NEW resolved \in SUBSET Items, NEW wants \in SUBSET Items, NEW paid \in SUBSET wants,
               PersistDecisions(d, resolved, wants, paid)
        PROVE  Kept
    <3>1. CASE x \in DOMAIN deciders[d].scored
      <4>1. opportunities'[x].status \in {"expired", "reviewed"}
        BY <1>0, <2>4, <3>1, Persisted
      <4> QED
        BY <4>1
    <3>2. CASE x \notin DOMAIN deciders[d].scored
      <4>1. /\ decisions'[x] = decisions[x] /\ purchases'[x] = purchases[x] /\ against'[x] = against[x]
            /\ opportunities'[x] = opportunities[x] /\ candidates'[x] = candidates[x]
        BY <1>0, <2>4, <3>2, Persisted
      <4> QED
        BY <4>1
    <3> QED
      BY <3>1, <3>2
  <2>5. ASSUME NEW y \in Items, NEW buy \in BOOLEAN, NEW over \in BOOLEAN, NEW dear \in BOOLEAN, NEW bid \in Bids,
               NEW raw \in SUBSET Reasons, Score(d, y, buy, raw, over, dear, bid)
        PROVE  Kept
    BY <1>3, <2>5 DEF Score, tables
  <2>6. CASE DeciderStops(d)
    BY <1>3, <2>6 DEF DeciderStops, tables
  <2> QED
    BY <2>1, <2>2, <2>3, <2>4, <2>5, <2>6
<1>6. ASSUME AssessorNext PROVE Kept
  <2>1. PICK a \in Assessors :
            \/ \E y \in Items : ClaimSafety(a, y)
            \/ \E allowed \in BOOLEAN : PersistSafety(a, allowed)
            \/ SafetyFails(a)
    BY <1>6 DEF AssessorNext
  <2>2. ASSUME NEW allowed \in BOOLEAN, PersistSafety(a, allowed) PROVE Kept
    <3>1. assessors[a].item \in Items
      BY <1>0, <2>2 DEF PersistSafety, HandsOK, AssessorOK
    <3>2. \E st \in {"reviewed", "passed"} : opportunities' = [opportunities EXCEPT ![assessors[a].item].status = st]
      BY <2>2 DEF PersistSafety, SetStatus
    <3> QED
      BY <1>1, <1>2, <3>1, <3>2
  <2>3. CASE (\E y \in Items : ClaimSafety(a, y)) \/ SafetyFails(a)
    BY <1>3, <2>3 DEF ClaimSafety, SafetyFails, tables
  <2> QED
    BY <2>1, <2>2, <2>3
<1>7. ASSUME ItemNext PROVE Kept
  <2>1. PICK y \in Items :
            \/ CandidateClaimLapses(y) \/ OpportunityClaimLapses(y)
            \/ \E s \in {"reviewed", "passed"} : Drain(y, s)
            \/ DrainExpired(y) \/ AuctionEnds(y)
    BY <1>7 DEF ItemNext
  <2>2. CASE OpportunityClaimLapses(y)
    <3>1. opportunities[x] \in OpportunityRow
      BY <1>0 DEF RowsTyped
    <3> QED
      BY <1>0, <2>2, <3>1 DEF OpportunityClaimLapses, RowsTyped, OpportunityRow
  <2>3. CASE (\E s \in {"reviewed", "passed"} : Drain(y, s)) \/ DrainExpired(y)
    BY <1>1, <1>2, <2>3 DEF Drain, DrainExpired, SetStatus
  <2>4. CASE CandidateClaimLapses(y) \/ AuctionEnds(y)
    BY <1>3, <2>4 DEF CandidateClaimLapses, AuctionEnds, tables
  <2> QED
    BY <2>1, <2>2, <2>3, <2>4
<1>8. ASSUME UNCHANGED vars PROVE Kept
  BY <1>3, <1>8 DEF vars, tables
<1> QED
  BY <1>4, <1>5, <1>6, <1>7, <1>8 DEF Next

\* A step asks of an item that has an opportunity, or leaves the worker with what it had.
LEMMA AskedStays == ASSUME IInv, [Next]_vars, NEW a \in Assessors PROVE Asked(a)'
<1>0. RowsTyped /\ HandsOK /\ Asked(a)
  BY TypeIsRows DEF IInv
<1>1. \/ assessors'[a] = assessors[a] \/ assessors'[a] = Unasked
      \/ \E x \in Items : /\ opportunities[x].status \in {"queued", "reviewed"}
                          /\ assessors'[a].item = x
  <2>1. CASE AssessorNext
    <3>1. PICK b \in Assessors :
              \/ \E y \in Items : ClaimSafety(b, y)
              \/ \E allowed \in BOOLEAN : PersistSafety(b, allowed)
              \/ SafetyFails(b)
      BY <2>1 DEF AssessorNext
    <3>2. ASSUME NEW y \in Items, ClaimSafety(b, y)
          PROVE  \/ assessors'[a] = assessors[a]
                 \/ /\ opportunities[y].status \in {"queued", "reviewed"}
                    /\ assessors'[a].item = y
      BY <1>0, <3>2 DEF ClaimSafety, RowsTyped
    <3>3. CASE (\E allowed \in BOOLEAN : PersistSafety(b, allowed)) \/ SafetyFails(b)
      BY <1>0, <3>3 DEF PersistSafety, SafetyFails, RowsTyped
    <3> QED
      BY <3>1, <3>2, <3>3
  <2>2. CASE MatcherNext
    <3>1. UNCHANGED assessors
      BY <2>2 DEF MatcherNext, ClaimCandidate, SaveNoMatch, SaveMatched, QueueOpportunity, MatchFails, Abandon
    <3> QED
      BY <3>1
  <2>3. CASE DeciderNext
    <3>1. PICK d \in Deciders :
            \/ \E batch \in SUBSET Items : ClaimOpportunities(d, batch)
            \/ \E y \in Items : ScoreFails(d, y)
            \/ \E y \in Items, buy, over, dear \in BOOLEAN, bid \in Bids, raw \in SUBSET Reasons :
                    Score(d, y, buy, raw, over, dear, bid)
            \/ \E resolved, wants \in SUBSET Items : \E paid \in SUBSET wants :
                    PersistDecisions(d, resolved, wants, paid)
            \/ DeciderStops(d)
      BY <2>3 DEF DeciderNext
    <3>2. CASE (\E batch \in SUBSET Items : ClaimOpportunities(d, batch)) \/ (\E y \in Items : ScoreFails(d, y))
      BY <3>2 DEF ClaimOpportunities, ScoreFails
    <3>3. ASSUME NEW y \in Items, NEW buy \in BOOLEAN, NEW over \in BOOLEAN, NEW dear \in BOOLEAN, NEW bid \in Bids,
                 NEW raw \in SUBSET Reasons, Score(d, y, buy, raw, over, dear, bid)
          PROVE  UNCHANGED assessors
      BY <3>3 DEF Score
    <3>4. ASSUME NEW resolved \in SUBSET Items, NEW wants \in SUBSET Items, NEW paid \in SUBSET wants,
                 PersistDecisions(d, resolved, wants, paid)
          PROVE  UNCHANGED assessors
      BY <3>4 DEF PersistDecisions
    <3>5. CASE DeciderStops(d)
      BY <3>5 DEF DeciderStops
    <3> QED
      BY <3>1, <3>2, <3>3, <3>4, <3>5
  <2>4. CASE ItemNext
    BY <2>4 DEF ItemNext, CandidateClaimLapses, OpportunityClaimLapses, Drain, DrainExpired, AuctionEnds
  <2>5. CASE UNCHANGED vars
    BY <2>5 DEF vars
  <2> QED
    BY <2>1, <2>2, <2>3, <2>4, <2>5 DEF Next
<1>2. CASE assessors'[a] = assessors[a] /\ assessors[a] # Unasked
  <2>1. assessors[a].item \in Items /\ opportunities[assessors[a].item].status # "none"
    BY <1>0, <1>2 DEF HandsOK, AssessorOK, Asked
  <2>2. opportunities'[assessors[a].item].status # "none"
    BY <2>1, OpportunityStays
  <2> QED
    BY <1>2, <2>2 DEF Asked
<1>3. CASE assessors'[a] = Unasked
  BY <1>3 DEF Asked
<1>4. ASSUME NEW x \in Items, opportunities[x].status \in {"queued", "reviewed"}, assessors'[a].item = x
      PROVE  Asked(a)'
  BY <1>4, OpportunityStays DEF Asked
<1> QED
  BY <1>1, <1>2, <1>3, <1>4

LEMMA InitOK == Init => IInv
<1> SUFFICES ASSUME Init PROVE IInv
  OBVIOUS
<1>1. HandsOK
  BY AtRestIsEmpty DEF Init, HandsOK, MatcherOK, DeciderOK, AssessorOK
<1>2. RowsTyped
  <2>1. /\ [status |-> "pending", attempts |-> 0, token |-> None, held |-> FALSE] \in CandidateRow
        /\ [status |-> "none", held |-> FALSE] \in OpportunityRow
        /\ Undecided \in [buy : BOOLEAN, execution : Execution \cup {"none"}]
        /\ Unasked \in [item : Items \cup {None}, buy : BOOLEAN]
    BY QueueAssumption DEF CandidateRow, CandidateStatuses, OpportunityRow, OpportunityStatuses, Undecided, Unasked
  <2>2. 0 \in 0..MaxOverruns
    BY QueueAssumption
  <2> QED
    BY <2>1, <2>2, IdleTyped DEF Init, RowsTyped
<1>3. \A a \in Assessors : Asked(a)
  BY DEF Init, Asked
<1>4. \A d \in Deciders, x \in Items : ~Holds(d, x)
  BY AtRestIsEmpty DEF Init, Holds
<1>5. \A m \in Matchers, x \in Items : matchers[m].item # x
  BY QueueAssumption DEF Init, Idle
<1>6. ASSUME NEW x \in Items PROVE Traced(x) /\ InOrder(x)
  <2>1. Traced(x) /\ OneDecider(x) /\ OneMatcher(x)
    BY <1>4, <1>5 DEF Init, Traced, OneMatcher, OneDecider
  <2>2. CandidateSpeaks(x)
    BY DEF Init, CandidateSpeaks
  <2> QED
    BY <2>1, <2>2 DEF InOrder
<1>7. QueuedIsSearched /\ AutoBuyIsClean
  BY <1>2 DEF Init, QueuedIsSearched, AutoBuyIsClean, RowsTyped
<1> QED
  BY <1>1, <1>2, <1>3, <1>6, <1>7, TypeIsRows DEF IInv

\* Every reachable state has the invariant: no step of any worker, drainer, claim or
\* auction leads out of it.
THEOREM Inductive == Spec => []IInv
<1>1. IInv /\ [Next]_vars => IInv'
  <2> SUFFICES ASSUME IInv, [Next]_vars PROVE IInv'
    OBVIOUS
  <2>1. TypeOK' /\ HandsOK'
    BY NextTyped DEF IInv
  <2>2. \A x \in Items : ItemOK(x)'
    BY NextKeeps
  <2>3. \A a \in Assessors : Asked(a)'
    BY AskedStays
  <2>4. live' \subseteq Items
    BY <2>1 DEF TypeOK
  <2>5. QueuedIsSearched' /\ AutoBuyIsClean'
    BY <2>2, <2>4 DEF ItemOK, Searched, Clean, QueuedIsSearched, AutoBuyIsClean
  <2>6. \A x \in Items : (Traced(x) /\ InOrder(x))'
    BY <2>2 DEF ItemOK
  <2> QED
    BY <2>1, <2>3, <2>5, <2>6 DEF IInv
<1> QED
  BY <1>1, InitOK, PTL DEF Spec

\* The rows and the workers have the states of the code (TypeOK), for any number of
\* items, workers and attempts.
THEOREM TypeCorrect == Spec => []TypeOK
<1>1. IInv => TypeOK
  BY DEF IInv
<1> QED
  BY <1>1, Inductive, PTL

\* A queued candidate of an auction that runs has its opportunity and its search
\* job (QueuedIsSearched), whatever claims lapse and whoever dies.
THEOREM QueuedHasItsSearch == Spec => []QueuedIsSearched
<1>1. IInv => QueuedIsSearched
  BY DEF IInv
<1> QED
  BY <1>1, Inductive, PTL

\* What is approved had no reason against it, what is monitored none but such as go
\* with the auction's risk, and nothing is queued against a hard reason
\* (AutoBuyIsClean), for any reasons that the bridge may report and any cash.
THEOREM NoAutoBuyAgainstAReason == Spec => []AutoBuyIsClean
<1>1. IInv => AutoBuyIsClean
  BY DEF IInv
<1> QED
  BY <1>1, Inductive, PTL

\* As long as no worker outlives its claim an item has one decider at a time and one
\* decision, and purchase and opportunity speak of it (DecidedOnce), although drainer
\* and safety worker write the same row and a lost answer may put its candidate back;
\* without a lost answer the candidate speaks of it as well.
THEOREM DecisionsDoNotCollide == Spec => []DecidedOnce
<1>1. ASSUME IInv, NEW x \in Items, overruns[x] = 0
      PROVE  /\ Cardinality({d \in Deciders : Holds(d, x)}) <= 1
             /\ decisions[x] # Undecided =>
                  /\ opportunities[x].status # "queued" /\ ~\E d \in Deciders : Holds(d, x)
                  /\ purchases[x] \in {"none", PurchaseStatus(decisions[x].execution)}
                  /\ x \notin unanswered => candidates[x].status = CandidateStatus(decisions[x].execution)
  <2> DEFINE holders == {d \in Deciders : Holds(d, x)}
  <2>1. OneDecider(x) /\ (x \notin unanswered => CandidateSpeaks(x))
    BY <1>1 DEF IInv, InOrder
  <2>2. CASE holders = {}
    <3>1. Cardinality(holders) = 0
      BY <2>2, FS_EmptySet
    <3> QED
      BY <2>1, <2>2, <3>1 DEF OneDecider, CandidateSpeaks
  <2>3. CASE holders # {}
    <3>1. PICK d \in Deciders : Holds(d, x)
      BY <2>3
    <3>2. holders = {d}
      BY <2>1, <3>1 DEF OneDecider
    <3>3. Cardinality(holders) = 1
      BY <3>2, FS_Singleton
    <3> QED
      BY <2>1, <3>1, <3>3 DEF OneDecider
  <2> QED
    BY <2>2, <2>3
<1>2. IInv => DecidedOnce
  BY <1>1 DEF DecidedOnce
<1> QED
  BY <1>2, Inductive, PTL

\* Only the transaction of a decider writes decisions and purchases.
LEMMA Decided ==
    ASSUME IInv, [Next]_vars
    PROVE  \/ UNCHANGED <<decisions, purchases, against>>
           \/ \E d \in Deciders : \E resolved, wants \in SUBSET Items : \E paid \in SUBSET wants :
                    PersistDecisions(d, resolved, wants, paid)
<1>1. CASE MatcherNext
  <2>1. PICK m \in Matchers :
            \/ \E x \in Items : ClaimCandidate(m, x)
            \/ \E answered \in BOOLEAN : SaveNoMatch(m, answered) \/ QueueOpportunity(m, answered)
            \/ SaveMatched(m) \/ MatchFails(m) \/ Abandon(m)
    BY <1>1 DEF MatcherNext
  <2>2. ASSUME NEW answered \in BOOLEAN, SaveNoMatch(m, answered) \/ QueueOpportunity(m, answered)
        PROVE  UNCHANGED <<decisions, purchases, against>>
    BY <2>2 DEF SaveNoMatch, QueueOpportunity
  <2>3. ASSUME (\E x \in Items : ClaimCandidate(m, x)) \/ SaveMatched(m) \/ MatchFails(m) \/ Abandon(m)
        PROVE  UNCHANGED <<decisions, purchases, against>>
    BY <2>3 DEF ClaimCandidate, SaveMatched, MatchFails, Abandon, tables
  <2> QED
    BY <2>1, <2>2, <2>3
<1>2. CASE DeciderNext
  <2>1. PICK d \in Deciders :
            \/ \E batch \in SUBSET Items : ClaimOpportunities(d, batch)
            \/ \E y \in Items : ScoreFails(d, y)
            \/ \E y \in Items, buy, over, dear \in BOOLEAN, bid \in Bids, raw \in SUBSET Reasons :
                    Score(d, y, buy, raw, over, dear, bid)
            \/ \E resolved, wants \in SUBSET Items : \E paid \in SUBSET wants :
                    PersistDecisions(d, resolved, wants, paid)
            \/ DeciderStops(d)
    BY <1>2 DEF DeciderNext
  <2>2. CASE (\E batch \in SUBSET Items : ClaimOpportunities(d, batch)) \/ (\E y \in Items : ScoreFails(d, y))
    BY <2>2 DEF ClaimOpportunities, ScoreFails
  <2>3. ASSUME NEW y \in Items, NEW buy \in BOOLEAN, NEW over \in BOOLEAN, NEW dear \in BOOLEAN, NEW bid \in Bids,
               NEW raw \in SUBSET Reasons, Score(d, y, buy, raw, over, dear, bid)
        PROVE  UNCHANGED <<decisions, purchases, against>>
    BY <2>3 DEF Score, tables
  <2>4. CASE DeciderStops(d)
    BY <2>4 DEF DeciderStops, tables
  <2> QED
    BY <2>1, <2>2, <2>3, <2>4
<1>3. CASE AssessorNext
  BY <1>3 DEF AssessorNext, ClaimSafety, PersistSafety, SafetyFails, tables
<1>4. CASE ItemNext
  BY <1>4 DEF ItemNext, CandidateClaimLapses, OpportunityClaimLapses, Drain, DrainExpired, AuctionEnds, tables
<1>5. CASE UNCHANGED vars
  BY <1>5 DEF vars, tables
<1> QED
  BY <1>1, <1>2, <1>3, <1>4, <1>5 DEF Next

\* A purchase is never written again, and what spoke against it is what spoke
\* against it when it was made; nor is a decision, unless a claim of its item
\* lapsed under a busy worker.
THEOREM PurchaseStands ==
    Spec => [][\A x \in Items :
                 /\ purchases[x] # "none" => purchases'[x] = purchases[x] /\ against'[x] = against[x]
                 /\ overruns[x] = 0 /\ decisions[x] # Undecided => decisions'[x] = decisions[x]]_vars
<1> DEFINE Stands(x) ==
             /\ purchases[x] # "none" => purchases'[x] = purchases[x] /\ against'[x] = against[x]
             /\ overruns[x] = 0 /\ decisions[x] # Undecided => decisions'[x] = decisions[x]
<1>1. ASSUME IInv, [Next]_vars, NEW x \in Items PROVE Stands(x)
  <2>1. CASE UNCHANGED <<decisions, purchases, against>>
    BY <2>1
  <2>2. ASSUME NEW d \in Deciders,
               NEW resolved \in SUBSET Items, NEW wants \in SUBSET Items, NEW paid \in SUBSET wants,
               PersistDecisions(d, resolved, wants, paid)
        PROVE  Stands(x)
    <3>1. RowsTyped /\ HandsOK /\ ItemOK(x)
      BY <1>1, ItemHolds
    <3>2. CASE x \notin DOMAIN deciders[d].scored
      <4>1. /\ decisions'[x] = decisions[x] /\ purchases'[x] = purchases[x] /\ against'[x] = against[x]
            /\ opportunities'[x] = opportunities[x] /\ candidates'[x] = candidates[x]
        BY <2>2, <3>1, <3>2, Persisted
      <4> QED
        BY <4>1
    <3>3. CASE x \in DOMAIN deciders[d].scored
      <4>1. \/ purchases'[x] = purchases[x] /\ against'[x] = against[x]
            \/ purchases[x] = "none"
        BY <2>2, <3>1, <3>3, Persisted
      <4>2. Holds(d, x)
        BY <3>3 DEF Holds
      <4>3. overruns[x] = 0 => decisions[x] = Undecided
        BY <3>1, <4>2 DEF ItemOK, InOrder, OneDecider
      <4> QED
        BY <4>1, <4>3
    <3> QED
      BY <3>2, <3>3
  <2> QED
    BY <1>1, <2>1, <2>2, Decided
<1>2. IInv /\ [Next]_vars => [\A x \in Items : Stands(x)]_vars
  BY <1>1
<1> QED
  BY <1>2, Inductive, PTL DEF Spec

=============================================================================
