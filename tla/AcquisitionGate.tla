--------------------------- MODULE AcquisitionGate ---------------------------
(***************************************************************************)
(* What an acquisition decision may spend: the reasons that the capital-   *)
(* safety bridge reports against a listing, the contract's second sorting  *)
(* of them into hard and soft, and the execution status that follows from  *)
(* them, from the economic signal and from the allocation of the cash.     *)
(*                                                                         *)
(* The economics (comps, fees, scores) are the input `buy`.                *)
(***************************************************************************)
EXTENDS Naturals, FiniteSets

Execution == {"AUTO_BUY_READY", "BID_MONITOR_READY", "REVIEW_REQUIRED", "BLOCKED", "EXPIRED",
              "CAPITAL_LIMIT_SKIPPED"}

\* HARD_CAPITAL_BLOCKERS of the bridge, and its own word for a gate that blocks
\* without a reason.
BridgeHard ==
    {"CAPITAL_GATE_LISTING_NOT_LIVE", "CAPITAL_GATE_NOT_DEDUPE_PRIMARY", "CAPITAL_GATE_BUDGET_EXCEEDED",
     "CAPITAL_GATE_BANNED_CATEGORY", "CAPITAL_GATE_ZERO_ACCEPTED_COMPS", "CAPITAL_GATE_NO_ACCEPTED_COMPS",
     "CAPITAL_GATE_PRICE_EXCEEDS_MAX_BID", "CAPITAL_GATE_AUCTION_EXPIRED", "CAPITAL_GATE_SOURCE_UNAVAILABLE",
     "CAPITAL_GATE_CATEGORY_DISABLED", "REPLAY_CERTIFICATION_FAILED", "CAPITAL_SAFETY_GATE_BLOCKED"}

\* HARD_CAPITAL_BLOCKERS of the contract.
ContractHard ==
    {"CAPITAL_GATE_LISTING_NOT_LIVE", "CAPITAL_GATE_NOT_DEDUPE_PRIMARY", "CAPITAL_GATE_BUDGET_EXCEEDED",
     "CAPITAL_GATE_BANNED_CATEGORY", "CAPITAL_GATE_ZERO_ACCEPTED_COMPS", "CAPITAL_GATE_NEGATIVE_PROFIT",
     "CAPITAL_GATE_BELOW_MIN_NET_PROFIT", "CAPITAL_GATE_BELOW_MIN_ROI", "CAPITAL_GATE_EXPIRED_AUCTION",
     "CAPITAL_GATE_SOURCE_UNAVAILABLE", "REPLAY_CERTIFICATION_FAILED"}

Ended == {"CAPITAL_GATE_LISTING_NOT_LIVE", "CAPITAL_GATE_EXPIRED_AUCTION"}

\* SOFT_CAPITAL_REVIEW_REASONS.
SoftReview ==
    {"CAPITAL_GATE_LOW_COMP_COUNT", "CAPITAL_GATE_WEAK_COMP_GROUNDING", "CAPITAL_GATE_LOW_CONFIDENCE",
     "CAPITAL_GATE_HIGH_VOLATILITY", "CAPITAL_GATE_HIGH_RETURN_RISK", "CAPITAL_GATE_HIGH_DISPUTE_RISK",
     "LOW_STARTING_BID_MONITOR_AUCTION_RISK", "CAPITAL_SAFETY_GATE_REQUIRED_FOR_BUY",
     "REPLAY_CERTIFICATION_REQUIRED_FOR_BUY", "DB_MUTATION_LEDGER_REQUIRED_FOR_BUY",
     "FORENSIC_CHAIN_REQUIRED_FOR_BUY", "SHIPENGINE_RATE_REQUIRED_FOR_BUY"}

\* The soft reason with which an auction may still be monitored.
MonitorRisk == "LOW_STARTING_BID_MONITOR_AUCTION_RISK"

\* deriveListingHardBlocks: a status that says the listing is over, an auction
\* past its end, a bid above the maximum.
ListingBlocks(over, ended, dear) ==
    (IF over THEN {"CAPITAL_GATE_LISTING_NOT_LIVE"} ELSE {})
        \cup (IF ended THEN {"CAPITAL_GATE_EXPIRED_AUCTION"} ELSE {})
        \cup (IF dear THEN {"CAPITAL_GATE_PRICE_EXCEEDS_MAX_BID"} ELSE {})

\* hardenSafetyEvaluation: what the contract does not know is informational, and
\* goes with the soft reasons.
Hard(raw, listing) == (raw \cap ContractHard) \cup listing

\* Mutant: informational reasons are dropped.
SoftKnown(raw) == raw \cap SoftReview

Soft(raw) == raw \ ContractHard

CapitalStatus(buy, hard, soft) ==
    IF hard # {} THEN "BLOCK" ELSE IF buy /\ soft # {} THEN "REVIEW_REQUIRED" ELSE "PASS"

\* The maximum bid of a listing; "none" also when it is not an auction.
Bids == {"none", "zero", "positive"}

\* resolveExecutionStatus as makeSafetyEvaluation calls it.
ExecutionStatus(buy, hard, soft, bid) ==
    LET capital == CapitalStatus(buy, hard, soft)
    IN  CASE hard \cap Ended # {}           -> "EXPIRED"
          [] hard \cap Ended = {} /\ (capital = "BLOCK" \/ ~buy) -> "BLOCKED"
          [] buy /\ capital = "REVIEW_REQUIRED" ->
                IF bid = "positive" /\ MonitorRisk \in soft THEN "BID_MONITOR_READY" ELSE "REVIEW_REQUIRED"
          [] buy /\ capital = "PASS"        -> IF bid # "none" THEN "BID_MONITOR_READY" ELSE "AUTO_BUY_READY"

Buys == {"AUTO_BUY_READY", "BID_MONITOR_READY", "REVIEW_REQUIRED"}

\* For the history, the gravest kind of reason by classifyGateReason; what allows an
\* auction to be monitored is told apart from the other reasons for a review.
Gravest(raw, listing) ==
    CASE listing # {} \/ raw \cap ContractHard # {} -> {"hard"}
      [] listing = {} /\ raw \cap ContractHard = {} /\ MonitorRisk \in raw -> {"monitor"}
      [] listing = {} /\ raw \cap ContractHard = {} /\ MonitorRisk \notin raw ->
            {kind \in {"review"} : raw # {}}

\* scoreCandidate. For the history: what speaks against what may be bought.
Scored(buy, raw, listing, bid) ==
    LET execution == ExecutionStatus(buy, Hard(raw, listing), Soft(raw), bid)
    IN  [buy |-> buy, execution |-> execution, audit |-> "none",
         against |-> IF execution \in Buys THEN Gravest(raw, listing) ELSE {}]

\* allocateAcquisitionPortfolio: the rules of a BUY it has no capital for are marked
\* BUY_NOT_ALLOCATED; nothing else of the decision changes.
Allocated(decision, skipped) ==
    [decision EXCEPT !.against = IF skipped THEN @ \cup {"unfunded"} ELSE @]

\* hardenAllocatedDecision: a skip shows in the allocation audit or in the status;
\* nothing between scoreCandidate and here sets either.
Hardened(decision) ==
    IF decision.audit = "skipped" \/ decision.execution = "CAPITAL_LIMIT_SKIPPED"
    THEN "CAPITAL_LIMIT_SKIPPED" ELSE decision.execution

=============================================================================
