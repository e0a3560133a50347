------------------------- MODULE CompPipeline_proof -------------------------
(***************************************************************************)
(* Proofs about CompPipeline for any listings, workers and retriers, any   *)
(* ceilings and any batch size.                                            *)
(*                                                                         *)
(* The statements that finish, put off or bury a listing name it by its id *)
(* and look at no lock, so that nobody disturbs the work of another rests  *)
(* on the claims alone: Held says what the row of a listing shows as long  *)
(* as some process has the listing in hand, its last, unprotected step     *)
(* (the candidate update) included.                                        *)
(***************************************************************************)
EXTENDS CompPipeline, TLAPS

\* A worker that is not idle has a listing, and a retrier's batch is empty between
\* its batches.
HandsKnown ==
    /\ \A w \in Workers : step[w] = "idle" <=> job[w] = NoOne
    /\ \A r \in Retriers : phase[r] # "batch" => todo[r] = {}

\* A worker past the market has persisted it.
MarketBehind ==
    \A w \in Workers : step[w] \in {"finalize", "candidate"} => job[w] \in hasMarket

\* What the row of a listing shows while a process has it in hand.
HeldByWorker(l) ==
    /\ \A w \in Workers : job[w] = l /\ step[w] = "candidate" => status[l] = "completed"
    /\ \A w \in Workers : Working(w, l) =>
          status[l] = "processing" /\ lockedBy[l] = w /\ lockAge[l] = "fresh"
    /\ \A v, w \in Workers : job[v] = l /\ job[w] = l => v = w

HeldByRetrier(l) ==
    \A r \in Retriers : l \in todo[r] =>
        status[l] = "retry" /\ lockedBy[l] = r /\ lockAge[l] = "fresh" /\ due[l]

Held == Punctual => \A l \in Listings \ Recoverable : HeldByWorker(l) /\ HeldByRetrier(l)

IInv ==
    /\ TypeOK /\ HandsKnown
    /\ needsSearch \subseteq Recoverable
    /\ MarketBehind /\ CompletedHasMarket
    /\ Held

-----------------------------------------------------------------------------
(* Type correctness.                                                       *)

USE DEF Statuses, Ages, Classes

LEMMA CeilingIsNat == Ceiling \in Nat \ {0} /\ \A n \in 0 .. Ceiling : CountUp(n) \in 0 .. Ceiling
<1>1. Ceiling \in Nat \ {0}
  BY PipelineAssumption DEF Ceiling
<1> QED
  BY <1>1 DEF CountUp

LEMMA InitTyped == Init => TypeOK /\ HandsKnown
BY CeilingIsNat, PipelineAssumption DEF Init, TypeOK, HandsKnown

\* A statement that moves a listing on.
LEMMA ReleasedTyped ==
    ASSUME TypeOK, NEW l, NEW s \in Statuses, NEW c \in Classes, NEW d \in BOOLEAN,
           Released(l, s, c, d)
    PROVE  /\ status' \in [Listings -> Statuses] /\ class' \in [Listings -> Classes]
           /\ due' \in [Listings -> BOOLEAN] /\ lockAge' \in [Listings -> Ages]
           /\ lockedBy' \in [Listings -> Workers \cup Retriers \cup {NoOne}]
           /\ attempts' = attempts
BY DEF Released, TypeOK

LEMMA IdleTyped ==
    ASSUME TypeOK, HandsKnown, NEW w \in Workers, Idle(w)
    PROVE  /\ step' \in [Workers -> {"idle", "search", "market", "finalize", "candidate"}]
           /\ job' \in [Workers -> Listings \cup {NoOne}]
           /\ tries' \in [Workers -> 0 .. Ceiling]
           /\ \A v \in Workers : step'[v] = "idle" <=> job'[v] = NoOne
BY CeilingIsNat DEF Idle, TypeOK, HandsKnown

LEMMA TakeTyped ==
    ASSUME TypeOK, NEW w \in Workers, NEW l \in Claimable, Take(w, l)
    PROVE  /\ l \in Listings
           /\ status' \in [Listings -> Statuses] /\ lockAge' \in [Listings -> Ages]
           /\ lockedBy' \in [Listings -> Workers \cup Retriers \cup {NoOne}]
           /\ attempts' \in [Listings -> 0 .. Ceiling]
BY CeilingIsNat DEF Claimable, Take, TypeOK

LEMMA WorkTyped ==
    ASSUME TypeOK, HandsKnown, NEW w \in Workers, Work(w) \/ ClaimUnread(w) \/ Drop(w)
    PROVE  TypeOK' /\ HandsKnown'
<1>0. /\ step[w] # "idle" => job[w] \in Listings
      /\ NoOne \notin Listings
  BY PipelineAssumption DEF TypeOK, HandsKnown
<1>1. CASE ClaimNextListing(w)
  <2>1. PICK l \in Claimable :
          /\ Take(w, l)
          /\ step' = [step EXCEPT ![w] = "search"]
          /\ job' = [job EXCEPT ![w] = l]
          /\ tries' = [tries EXCEPT ![w] = CountUp(attempts[l])]
    BY <1>1 DEF ClaimNextListing
  <2>2. l \in Listings /\ CountUp(attempts[l]) \in 0 .. Ceiling
    BY <2>1, TakeTyped, CeilingIsNat DEF TypeOK
  <2> QED
    BY <1>0, <2>1, <2>2, TakeTyped DEF Take, TypeOK, HandsKnown, evidence, retrier
<1>2. CASE ClaimUnread(w)
  <2>1. PICK l \in Claimable : Take(w, l) /\ UNCHANGED worker
    BY <1>2 DEF ClaimUnread
  <2> QED
    BY <2>1, TakeTyped DEF Take, TypeOK, HandsKnown, evidence, retrier, worker
<1>3. CASE PersistComps(w)
  BY <1>0, <1>3 DEF PersistComps, TypeOK, HandsKnown, row, retrier
<1>4. CASE PersistMarket(w)
  BY <1>0, <1>4 DEF PersistMarket, TypeOK, HandsKnown, row, retrier
<1>5. CASE FinalizeSuccess(w)
  BY <1>0, <1>5, ReleasedTyped, ZenonT(40) DEF FinalizeSuccess, TypeOK, HandsKnown, evidence, retrier
<1>6. CASE CloseCandidate(w)
  BY <1>6, IdleTyped DEF CloseCandidate, TypeOK, HandsKnown, row, retrier
<1>7. ASSUME NEW retryable \in BOOLEAN, NEW c \in Classes \ {"none"}, Fail(w, retryable, c)
      PROVE  TypeOK' /\ HandsKnown'
  <2>1. /\ Idle(w) /\ UNCHANGED <<ended, evidence, retrier>>
        /\ \/ ToRetry(job[w], c)
           \/ ToDeadLetter(job[w], c) /\ job[w] \in Listings
    BY <1>0, <1>7 DEF Fail
  <2>2. \E s \in Statuses, d \in BOOLEAN : Released(job[w], s, c, d)
    BY <2>1 DEF ToRetry, ToDeadLetter
  <2>3. buried' \subseteq Listings
    BY <2>1, ZenonT(40) DEF ToRetry, ToDeadLetter, TypeOK
  <2>4. /\ status' \in [Listings -> Statuses] /\ class' \in [Listings -> Classes]
        /\ due' \in [Listings -> BOOLEAN] /\ lockAge' \in [Listings -> Ages]
        /\ lockedBy' \in [Listings -> Workers \cup Retriers \cup {NoOne}]
        /\ attempts' = attempts
    BY <2>2, ReleasedTyped
  <2>5. HandsKnown'
    BY <2>1, IdleTyped DEF HandsKnown, retrier
  <2> QED
    BY <2>1, <2>3, <2>4, <2>5, IdleTyped DEF TypeOK, evidence, retrier
<1>8. CASE Drop(w)
  BY <1>8, IdleTyped DEF Drop, TypeOK, HandsKnown, row, evidence, retrier
<1> QED
  BY <1>1, <1>2, <1>3, <1>4, <1>5, <1>6, <1>7, <1>8 DEF Work

Rows == [tries : 0 .. Ceiling, class : Classes]

LEMMA DoneTyped ==
    ASSUME TypeOK, HandsKnown, NEW r \in Retriers, NEW l \in Listings, Done(r, l)
    PROVE  /\ todo' \in [Retriers -> SUBSET Listings]
           /\ seen' \in [Retriers -> [Listings -> [tries : 0 .. Ceiling, class : Classes]]]
           /\ phase' \in [Retriers -> {"sweep", "claim", "batch"}]
           /\ \A q \in Retriers : phase'[q] # "batch" => todo'[q] = {}
<1>1. [tries |-> 0, class |-> "none"] \in Rows /\ seen[r] \in [Listings -> Rows]
  BY CeilingIsNat DEF Rows, TypeOK
<1>2. seen' = [seen EXCEPT ![r] = [seen[r] EXCEPT ![l] = [tries |-> 0, class |-> "none"]]]
  BY DEF Done
<1>3. seen' \in [Retriers -> [Listings -> Rows]]
  BY <1>1, <1>2 DEF TypeOK, Rows
<1>4. \A q \in Retriers : phase'[q] # "batch" => todo'[q] = {}
  BY DEF Done, TypeOK, HandsKnown
<1> QED
  BY <1>3, <1>4 DEF Done, TypeOK, Rows

LEMMA RetryTyped ==
    ASSUME TypeOK, HandsKnown, NEW r \in Retriers,
           Retry(r) \/ Restart(r) \/ \E l \in Listings : SkipCandidate(r, l)
    PROVE  TypeOK' /\ HandsKnown'
<1>1. CASE ReclaimStale(r)
  <2>1. todo[r] = {}
    BY <1>1 DEF ReclaimStale, HandsKnown
  <2> QED
    BY <1>1, <2>1 DEF ReclaimStale, TypeOK, HandsKnown, evidence, worker
<1>2. CASE ClaimRetries(r)
  <2>1. PICK picked \in SUBSET Candidates :
         /\ lockedBy' = [l \in Listings |-> IF l \in picked THEN r ELSE lockedBy[l]]
         /\ lockAge' = [l \in Listings |-> IF l \in picked THEN "fresh" ELSE lockAge[l]]
         /\ todo' = [todo EXCEPT ![r] = picked]
         /\ seen' = [seen EXCEPT ![r] = [l \in Listings |->
                       IF l \in picked THEN [tries |-> attempts[l], class |-> class[l]]
                                       ELSE seen[r][l]]]
         /\ phase' = [phase EXCEPT ![r] = IF picked = {} THEN "sweep" ELSE "batch"]
    BY <1>2 DEF ClaimRetries, TypeOK
  <2>2. picked \in SUBSET Listings
    BY DEF Candidates
  <2>3. [l \in Listings |-> IF l \in picked THEN [tries |-> attempts[l], class |-> class[l]]
                                            ELSE seen[r][l]] \in [Listings -> Rows]
    BY DEF TypeOK, Rows
  <2>4. seen' \in [Retriers -> [Listings -> Rows]]
    BY <2>1, <2>3 DEF TypeOK, Rows
  <2>5. HandsKnown'
    BY <1>2, <2>1 DEF ClaimRetries, HandsKnown, TypeOK, worker
  <2> QED
    BY <1>2, <2>1, <2>2, <2>4, <2>5 DEF ClaimRetries, TypeOK, Rows, evidence, worker
<1>3. ASSUME NEW l \in Listings, BurySpent(r, l) PROVE TypeOK' /\ HandsKnown'
  <2>1. HandsKnown'
    BY <1>3, DoneTyped DEF BurySpent, HandsKnown, worker
  <2> QED
    BY <1>3, <2>1, DoneTyped, ReleasedTyped DEF BurySpent, ToDeadLetter, TypeOK, evidence, worker
<1>4. ASSUME NEW l \in Listings, ResetToPending(r, l) PROVE TypeOK' /\ HandsKnown'
  <2>1. HandsKnown'
    BY <1>4, DoneTyped DEF ResetToPending, HandsKnown, worker
  <2>2. CASE UNCHANGED row
    BY <1>4, <2>1, <2>2, DoneTyped DEF ResetToPending, TypeOK, row, evidence, worker
  <2>3. CASE Released(l, "pending", class[l], TRUE)
    <3>1. class[l] \in Classes
      BY DEF TypeOK
    <3>2. /\ status' \in [Listings -> Statuses] /\ class' \in [Listings -> Classes]
          /\ due' \in [Listings -> BOOLEAN] /\ lockAge' \in [Listings -> Ages]
          /\ lockedBy' \in [Listings -> Workers \cup Retriers \cup {NoOne}]
          /\ attempts' = attempts
      BY <2>3, <3>1, ReleasedTyped, "pending" \in Statuses
    <3>3. /\ todo' \in [Retriers -> SUBSET Listings]
          /\ seen' \in [Retriers -> [Listings -> [tries : 0 .. Ceiling, class : Classes]]]
          /\ phase' \in [Retriers -> {"sweep", "claim", "batch"}]
      BY <1>4, DoneTyped DEF ResetToPending
    <3>4. UNCHANGED <<ended, evidence, buried, worker>>
      BY <1>4 DEF ResetToPending
    <3> QED
      BY <2>1, <3>2, <3>3, <3>4 DEF TypeOK, evidence, worker
  <2> QED
    BY <1>4, <2>2, <2>3 DEF ResetToPending
<1>5. ASSUME NEW l \in Listings, SkipCandidate(r, l) PROVE TypeOK' /\ HandsKnown'
  <2>1. HandsKnown'
    BY <1>5, DoneTyped DEF SkipCandidate, HandsKnown, worker
  <2> QED
    BY <1>5, <2>1, DoneTyped DEF SkipCandidate, TypeOK, row, evidence, worker
<1>6. CASE Restart(r)
  <2>1. [l \in Listings |-> [tries |-> 0, class |-> "none"]] \in [Listings -> Rows]
    BY CeilingIsNat DEF Rows
  <2>2. seen' \in [Retriers -> [Listings -> Rows]]
    BY <1>6, <2>1 DEF Restart, TypeOK, Rows
  <2> QED
    BY <1>6, <2>2 DEF Restart, TypeOK, HandsKnown, Rows, row, evidence, worker
<1> QED
  BY <1>1, <1>2, <1>3, <1>4, <1>5, <1>6 DEF Retry

LEMMA SurroundingsTyped ==
    ASSUME TypeOK, HandsKnown, NEW l \in Listings,
           LockGetsOlder(l) \/ BecomesDue(l) \/ AuctionEnds(l) \/ RecoverCandidate(l)
    PROVE  TypeOK' /\ HandsKnown'
BY ZenonT(40) DEF LockGetsOlder, GetsOlder, BecomesDue, AuctionEnds, RecoverCandidate, TypeOK, HandsKnown,
       row, evidence, worker, retrier

LEMMA NextTyped == TypeOK /\ HandsKnown /\ [Next]_vars => TypeOK' /\ HandsKnown'
<1>1. CASE UNCHANGED vars
  BY <1>1 DEF vars, row, evidence, worker, retrier, TypeOK, HandsKnown
<1> QED
  BY <1>1, WorkTyped, RetryTyped, SurroundingsTyped DEF Next

-----------------------------------------------------------------------------
(* Completed listings have a market.                                       *)

MarketKnown == MarketBehind /\ CompletedHasMarket

\* A statement that writes a status other than completed.
LEMMA MarketStays ==
    ASSUME IInv, TypeOK', hasMarket \subseteq hasMarket',
           \A l \in Listings : status'[l] = "completed" => status[l] = "completed",
           \A w \in Workers : step'[w] \in {"finalize", "candidate"} =>
               job'[w] = job[w] /\ step[w] \in {"finalize", "candidate"}
    PROVE  MarketKnown'
BY DEF IInv, MarketKnown, MarketBehind, CompletedHasMarket

LEMMA WorkKeepsMarket ==
    ASSUME IInv, TypeOK', NEW w \in Workers, Work(w) \/ ClaimUnread(w) \/ Drop(w)
    PROVE  MarketKnown' /\ needsSearch' \subseteq Recoverable
<1>1. CASE ClaimNextListing(w) \/ ClaimUnread(w)
  BY <1>1, MarketStays DEF ClaimNextListing, ClaimUnread, Take, Claimable, IInv, TypeOK, evidence, worker
<1>2. CASE PersistComps(w) \/ Drop(w) \/ CloseCandidate(w)
  BY <1>2, MarketStays DEF PersistComps, Drop, CloseCandidate, Idle, IInv, TypeOK, row, evidence
<1>3. CASE PersistMarket(w)
  BY <1>3 DEF PersistMarket, MarketKnown, MarketBehind, CompletedHasMarket, IInv, TypeOK, row
<1>4. CASE FinalizeSuccess(w)
  BY <1>4 DEF FinalizeSuccess, Released, MarketKnown, MarketBehind, CompletedHasMarket, IInv,
     TypeOK, evidence
<1>5. ASSUME NEW retryable \in BOOLEAN, NEW c \in Classes \ {"none"}, Fail(w, retryable, c)
      PROVE  MarketKnown' /\ needsSearch' \subseteq Recoverable
  BY <1>5, MarketStays DEF Fail, ToRetry, ToDeadLetter, Released, Idle, IInv, TypeOK, evidence
<1> QED
  BY <1>1, <1>2, <1>3, <1>4, <1>5 DEF Work

LEMMA OthersKeepMarket ==
    ASSUME IInv, TypeOK',
           \/ \E r \in Retriers : Retry(r) \/ Restart(r) \/ \E l \in Listings : SkipCandidate(r, l)
           \/ \E l \in Listings :
                 LockGetsOlder(l) \/ BecomesDue(l) \/ AuctionEnds(l) \/ RecoverCandidate(l)
    PROVE  MarketKnown' /\ needsSearch' \subseteq Recoverable
<1>1. ASSUME NEW r \in Retriers, Retry(r) \/ Restart(r) \/ \E l \in Listings : SkipCandidate(r, l)
      PROVE  MarketKnown' /\ needsSearch' \subseteq Recoverable
  <2>1. UNCHANGED <<evidence, worker>>
    BY <1>1 DEF Retry, ReclaimStale, ClaimRetries, BurySpent, ResetToPending, Restart, SkipCandidate
  <2>2. \A l \in Listings : status'[l] = "completed" => status[l] = "completed"
    BY <1>1 DEF Retry, ReclaimStale, ClaimRetries, BurySpent, ResetToPending, Restart, SkipCandidate,
       ToDeadLetter, Released, IInv, TypeOK, row
  <2> QED
    BY <2>1, <2>2, MarketStays DEF IInv, evidence, worker
<1>2. ASSUME NEW l \in Listings,
             LockGetsOlder(l) \/ BecomesDue(l) \/ AuctionEnds(l) \/ RecoverCandidate(l)
      PROVE  MarketKnown' /\ needsSearch' \subseteq Recoverable
  BY <1>2, MarketStays DEF LockGetsOlder, GetsOlder, BecomesDue, AuctionEnds, RecoverCandidate,
     IInv, row, evidence, worker
<1> QED
  BY <1>1, <1>2

-----------------------------------------------------------------------------
(* Nobody disturbs who has a listing in hand.                              *)

HeldListing(l) == HeldByWorker(l) /\ HeldByRetrier(l)

\* Nothing that the invariant speaks of changed for a listing but who lets go of it.
LEMMA StillHeld ==
    ASSUME NEW l \in Listings, HeldListing(l),
           status'[l] = status[l], lockedBy'[l] = lockedBy[l], lockAge'[l] = lockAge[l], due[l] => due'[l],
           \A w \in Workers : job'[w] = l =>
               job[w] = l /\ (step'[w] = "candidate" <=> step[w] = "candidate"),
           \A r \in Retriers : l \in todo'[r] => l \in todo[r]
    PROVE  HeldListing(l)'
BY DEF HeldListing, HeldByWorker, HeldByRetrier, Working

LEMMA LetGo ==
    ASSUME NEW l, \A w \in Workers : job'[w] # l, \A r \in Retriers : l \notin todo'[r]
    PROVE  HeldListing(l)'
BY DEF HeldListing, HeldByWorker, HeldByRetrier, Working

\* What may be claimed nobody has in hand.
LEMMA ClaimableIsFree ==
    ASSUME IInv, Punctual, NEW l \in Listings \ Recoverable, l \in Claimable \/ l \in Candidates
    PROVE  /\ \A w \in Workers : job[w] # l
           /\ \A r \in Retriers : l \notin todo[r]
<1>1. Unlocked(l) /\ status[l] # "completed"
  BY DEF Claimable, Candidates, IInv
<1>2. NoOne \notin Workers \cup Retriers
  BY PipelineAssumption
<1>3. HeldByWorker(l) /\ HeldByRetrier(l)
  BY DEF IInv, Held
<1> QED
  BY <1>1, <1>2, <1>3 DEF HeldByWorker, HeldByRetrier, Working, Unlocked

\* Who has a listing in hand is alone with it.
LEMMA WorkerIsAlone ==
    ASSUME IInv, Punctual, NEW w \in Workers, job[w] \in Listings \ Recoverable
    PROVE  /\ \A v \in Workers \ {w} : job[v] # job[w]
           /\ \A r \in Retriers : job[w] \notin todo[r]
           /\ status[job[w]] \in {"processing", "completed"}
<1>1. HeldByWorker(job[w]) /\ HeldByRetrier(job[w])
  BY DEF IInv, Held
<1>2. status[job[w]] \in {"processing", "completed"}
  BY <1>1 DEF HeldByWorker, Working
<1> QED
  BY <1>1, <1>2 DEF HeldByWorker, HeldByRetrier

LEMMA RetrierIsAlone ==
    ASSUME IInv, Punctual, NEW r \in Retriers, NEW l \in todo[r], l \in Listings \ Recoverable
    PROVE  /\ \A w \in Workers : job[w] # l
           /\ \A q \in Retriers \ {r} : l \notin todo[q]
           /\ status[l] = "retry" /\ due[l]
<1>1. HeldByWorker(l) /\ HeldByRetrier(l)
  BY DEF IInv, Held
<1> QED
  BY <1>1 DEF HeldByWorker, HeldByRetrier, Working

LEMMA WorkKeepsHeld ==
    ASSUME IInv, Punctual, NEW w \in Workers, Work(w) \/ ClaimUnread(w) \/ Drop(w),
           NEW l \in Listings \ Recoverable
    PROVE  HeldListing(l)'
<1>0. /\ HeldListing(l) /\ TypeOK /\ NoOne \notin Listings
      /\ step[w] = "idle" <=> job[w] = NoOne
      /\ step[w] # "idle" => job[w] \in Listings
  BY PipelineAssumption DEF IInv, Held, HeldListing, HandsKnown, TypeOK
<1>1. CASE ClaimNextListing(w)
  <2>1. PICK k \in Claimable :
          /\ Take(w, k) /\ step[w] = "idle"
          /\ step' = [step EXCEPT ![w] = "search"]
          /\ job' = [job EXCEPT ![w] = k]
    BY <1>1 DEF ClaimNextListing
  <2>2. k \in Listings /\ UNCHANGED retrier
    BY <2>1 DEF Take, Claimable
  <2>3. CASE k # l
    BY <1>0, <2>1, <2>2, <2>3, StillHeld DEF Take, TypeOK, retrier
  <2>4. CASE k = l
    <3>1. /\ \A v \in Workers : job[v] # l
          /\ \A r \in Retriers : l \notin todo'[r]
      BY <2>1, <2>2, <2>4, ClaimableIsFree DEF retrier
    <3> QED
      BY <1>0, <2>1, <2>2, <2>4, <3>1
         DEF Take, TypeOK, HeldListing, HeldByWorker, HeldByRetrier, Working
  <2> QED
    BY <2>3, <2>4
<1>2. CASE ClaimUnread(w)
  <2>1. PICK k \in Claimable : Take(w, k) /\ UNCHANGED worker
    BY <1>2 DEF ClaimUnread
  <2>2. k \in Listings /\ UNCHANGED retrier
    BY <2>1 DEF Take, Claimable
  <2>3. CASE k # l
    BY <1>0, <2>1, <2>2, <2>3, StillHeld DEF Take, TypeOK, retrier, worker
  <2>4. CASE k = l
    BY <2>1, <2>2, <2>4, ClaimableIsFree, LetGo DEF retrier, worker
  <2> QED
    BY <2>3, <2>4
<1>3. CASE PersistComps(w) \/ PersistMarket(w) \/ CloseCandidate(w) \/ Drop(w)
  BY <1>0, <1>3, StillHeld, ZenonT(40) DEF PersistComps, PersistMarket, CloseCandidate, Drop, Idle, TypeOK,
     row, retrier
<1>4. CASE FinalizeSuccess(w)
  <2>1. CASE job[w] # l
    BY <1>0, <1>4, <2>1, StillHeld DEF FinalizeSuccess, Released, TypeOK, retrier
  <2>2. CASE job[w] = l
    <3>1. /\ \A v \in Workers \ {w} : job[v] # l
          /\ \A r \in Retriers : l \notin todo[r]
      BY <2>2, WorkerIsAlone
    <3>2. /\ status'[l] = "completed" /\ job' = job /\ step'[w] = "candidate"
          /\ todo' = todo
      BY <1>0, <1>4, <2>2 DEF FinalizeSuccess, Released, TypeOK, retrier
    <3> QED
      BY <2>2, <3>1, <3>2 DEF HeldListing, HeldByWorker, HeldByRetrier, Working
  <2> QED
    BY <2>1, <2>2
<1>5. ASSUME NEW retryable \in BOOLEAN, NEW c \in Classes \ {"none"}, Fail(w, retryable, c)
      PROVE  HeldListing(l)'
  <2>1. /\ Idle(w) /\ UNCHANGED retrier
        /\ \E s \in Statuses, d \in BOOLEAN : Released(job[w], s, c, d)
    BY <1>5 DEF Fail, ToRetry, ToDeadLetter
  <2>2. CASE job[w] # l
    BY <1>0, <2>1, <2>2, StillHeld DEF Idle, Released, TypeOK, retrier
  <2>3. CASE job[w] = l
    BY <1>0, <2>1, <2>3, WorkerIsAlone, LetGo DEF Idle, TypeOK, retrier
  <2> QED
    BY <2>2, <2>3
<1> QED
  BY <1>1, <1>2, <1>3, <1>4, <1>5 DEF Work

LEMMA RetryKeepsHeld ==
    ASSUME IInv, Punctual, NEW r \in Retriers,
           Retry(r) \/ Restart(r) \/ \E l \in Listings : SkipCandidate(r, l),
           NEW l \in Listings \ Recoverable
    PROVE  HeldListing(l)'
<1>0. HeldListing(l) /\ TypeOK /\ HandsKnown
  BY DEF IInv, Held, HeldListing
<1>1. CASE ReclaimStale(r)
  <2>1. CASE Sweeps(l)
    <3>1. lockAge[l] # "fresh" /\ status[l] = "processing"
      BY <2>1 DEF Sweeps
    <3>2. /\ \A w \in Workers : job[w] # l
          /\ \A q \in Retriers : l \notin todo[q]
      BY <1>0, <3>1 DEF HeldListing, HeldByWorker, HeldByRetrier, Working
    <3> QED
      BY <1>1, <3>2, LetGo DEF ReclaimStale, worker
  <2>2. CASE ~Sweeps(l)
    BY <1>0, <1>1, <2>2, StillHeld DEF ReclaimStale, worker
  <2> QED
    BY <2>1, <2>2
<1>2. CASE ClaimRetries(r)
  <2>1. PICK picked \in SUBSET Candidates :
         /\ lockedBy' = [k \in Listings |-> IF k \in picked THEN r ELSE lockedBy[k]]
         /\ lockAge' = [k \in Listings |-> IF k \in picked THEN "fresh" ELSE lockAge[k]]
         /\ todo' = [todo EXCEPT ![r] = picked]
    BY <1>2 DEF ClaimRetries
  <2>2. UNCHANGED <<status, due, job, step>> /\ todo[r] = {}
    BY <1>0, <1>2 DEF ClaimRetries, worker, HandsKnown
  <2>3. CASE l \in picked
    <3>1. /\ \A w \in Workers : job[w] # l
          /\ \A q \in Retriers : l \notin todo[q]
          /\ status[l] = "retry" /\ due[l]
      BY <2>1, <2>3, ClaimableIsFree DEF Candidates
    <3> QED
      BY <1>0, <2>1, <2>2, <2>3, <3>1
         DEF TypeOK, HeldListing, HeldByWorker, HeldByRetrier, Working
  <2>4. CASE l \notin picked
    BY <1>0, <2>1, <2>2, <2>4, StillHeld DEF TypeOK
  <2> QED
    BY <2>3, <2>4
<1>3. ASSUME NEW k \in Listings, k \in todo[r], Done(r, k), UNCHANGED worker,
             \/ UNCHANGED row
             \/ \E s \in Statuses, c \in Classes : Released(k, s, c, TRUE)
      PROVE  HeldListing(l)'
  <2>1. \A q \in Retriers : todo'[q] = IF q = r THEN todo[q] \ {k} ELSE todo[q]
    BY <1>0, <1>3 DEF Done, TypeOK
  <2>2. CASE k # l
    <3>1. /\ status'[l] = status[l] /\ lockedBy'[l] = lockedBy[l] /\ lockAge'[l] = lockAge[l]
          /\ due'[l] = due[l]
      BY <1>0, <1>3, <2>2 DEF Released, TypeOK, row
    <3> QED
      BY <1>0, <1>3, <2>1, <3>1, StillHeld DEF worker
  <2>3. CASE k = l
    <3>1. /\ \A w \in Workers : job[w] # l
          /\ \A q \in Retriers \ {r} : l \notin todo[q]
      BY <1>3, <2>3, RetrierIsAlone
    <3> QED
      BY <1>3, <2>1, <2>3, <3>1, LetGo DEF worker
  <2> QED
    BY <2>2, <2>3
<1>4. ASSUME NEW k \in Listings, BurySpent(r, k) \/ ResetToPending(r, k) \/ SkipCandidate(r, k)
      PROVE  HeldListing(l)'
  <2>1. class[k] \in Classes
    BY <1>0 DEF TypeOK
  <2>2. /\ k \in todo[r] /\ Done(r, k) /\ UNCHANGED worker
        /\ \/ UNCHANGED row
           \/ \E s \in Statuses, c \in Classes : Released(k, s, c, TRUE)
    BY <1>4, <2>1 DEF BurySpent, ResetToPending, SkipCandidate, ToDeadLetter
  <2> QED
    BY <1>3, <2>2
<1>5. CASE Restart(r)
  BY <1>0, <1>5, StillHeld DEF Restart, TypeOK, row, worker
<1> QED
  BY <1>1, <1>2, <1>4, <1>5 DEF Retry

\* A lock gets older only when nobody works on the listing.
LEMMA SurroundingsKeepHeld ==
    ASSUME IInv, Punctual, NEW k \in Listings,
           LockGetsOlder(k) \/ BecomesDue(k) \/ AuctionEnds(k) \/ RecoverCandidate(k),
           NEW l \in Listings \ Recoverable
    PROVE  HeldListing(l)'
<1>0. HeldListing(l) /\ TypeOK
  BY DEF IInv, Held, HeldListing
<1>1. CASE LockGetsOlder(k)
  <2>1. CASE k = l
    BY <1>1, <2>1, LetGo DEF LockGetsOlder, GetsOlder, UnderWork, worker, retrier
  <2>2. CASE k # l
    BY <1>0, <1>1, <2>2, StillHeld DEF LockGetsOlder, GetsOlder, TypeOK, worker, retrier
  <2> QED
    BY <2>1, <2>2
<1>2. CASE BecomesDue(k) \/ AuctionEnds(k) \/ RecoverCandidate(k)
  BY <1>0, <1>2, StillHeld, SMTT(30) DEF BecomesDue, AuctionEnds, RecoverCandidate, TypeOK, row, worker, retrier
<1> QED
  BY <1>1, <1>2

-----------------------------------------------------------------------------
(* The invariant and the theorems.                                         *)

LEMMA InitHolds == Init => IInv
<1>1. Init => TypeOK /\ HandsKnown
  BY InitTyped
<1>2. Init => /\ needsSearch \subseteq Recoverable
              /\ MarketBehind /\ CompletedHasMarket /\ Held
  BY PipelineAssumption DEF Init, MarketBehind, CompletedHasMarket, Held, HeldByWorker,
     HeldByRetrier, Working
<1> QED
  BY <1>1, <1>2 DEF IInv

LEMMA NextHolds == IInv /\ [Next]_vars => IInv'
<1>1. SUFFICES ASSUME IInv, [Next]_vars PROVE IInv'
  OBVIOUS
<1>2. TypeOK' /\ HandsKnown'
  BY <1>1, NextTyped DEF IInv
<1>3. CASE UNCHANGED vars
  <2>1. MarketKnown' /\ needsSearch' \subseteq Recoverable
    BY <1>1, <1>2, <1>3, MarketStays DEF IInv, vars, row, evidence, worker
  <2>2. Held'
    BY <1>1, <1>3 DEF IInv, Held, HeldByWorker, HeldByRetrier, Working, vars, row, worker, retrier
  <2> QED
    BY <1>2, <2>1, <2>2 DEF IInv, MarketKnown
<1>4. CASE Next
  <2>1. MarketKnown' /\ needsSearch' \subseteq Recoverable
    BY <1>1, <1>2, <1>4, WorkKeepsMarket, OthersKeepMarket DEF Next
  <2>2. ASSUME Punctual, NEW l \in Listings \ Recoverable PROVE HeldListing(l)'
    BY <1>1, <1>4, <2>2, WorkKeepsHeld, RetryKeepsHeld, SurroundingsKeepHeld DEF Next
  <2> QED
    BY <1>2, <2>1, <2>2 DEF IInv, MarketKnown, Held, HeldListing
<1> QED
  BY <1>1, <1>3, <1>4

\* Every reachable state has the invariant, whether processes keep to the time to live
\* or not; what it says of a listing in hand, it says if they do.
THEOREM Inductive == Spec => []IInv
BY InitHolds, NextHolds, PTL DEF Spec

\* Rows and processes hold values of their types.
THEOREM TypeCorrect == Spec => []TypeOK
<1>1. IInv => TypeOK
  BY DEF IInv
<1> QED
  BY <1>1, Inductive, PTL

\* No listing is completed without a market, also when locks run out under live
\* workers and several of them finish the same listing.
THEOREM MarketFirst == Spec => []CompletedHasMarket
<1>1. IInv => CompletedHasMarket
  BY DEF IInv
<1> QED
  BY <1>1, Inductive, PTL

\* If processes keep to the time to live, a listing is in the hands of one worker or
\* one retrier at a time, although no statement but the claims looks at the lock.
THEOREM WorkIsExclusive == Spec => []OneAtATime
<1>1. IInv => OneAtATime
  <2> SUFFICES ASSUME IInv, Punctual, NEW l \in Listings \ Recoverable
               PROVE  /\ \A w \in Workers : Working(w, l) =>
                            /\ status[l] = "processing" /\ lockedBy[l] = w
                            /\ \A v \in Workers \ {w} : ~Working(v, l)
                      /\ \A r \in Retriers : l \in todo[r] => status[l] = "retry" /\ lockedBy[l] = r
    BY DEF OneAtATime
  <2>1. HeldByWorker(l) /\ HeldByRetrier(l)
    BY DEF IInv, Held
  <2> QED
    BY <2>1 DEF HeldByWorker, HeldByRetrier, Working
<1> QED
  BY <1>1, Inductive, PTL

\* The workers leave a listing alone that is put off: they work on what is in
\* processing or just completed, and claim only what is due.
LEMMA WorkersRespectDelay ==
    ASSUME IInv, Punctual, NEW w \in Workers, Work(w) \/ ClaimUnread(w) \/ Drop(w),
           NEW l \in Listings \ Recoverable, status[l] = "retry", ~due[l]
    PROVE  status'[l] = "retry"
<1>0. /\ TypeOK
      /\ step[w] # "idle" => job[w] \in Listings
  BY DEF IInv, HandsKnown, TypeOK
<1>00. job[w] # l
  BY WorkerIsAlone
<1>1. CASE ClaimNextListing(w) \/ ClaimUnread(w)
  BY <1>0, <1>1 DEF ClaimNextListing, ClaimUnread, Take, Claimable, TypeOK
<1>2. CASE FinalizeSuccess(w) \/ \E retryable \in BOOLEAN, c \in Classes \ {"none"} : Fail(w, retryable, c)
  BY <1>0, <1>00, <1>2 DEF FinalizeSuccess, Fail, ToRetry, ToDeadLetter, Released, TypeOK
<1>3. CASE PersistComps(w) \/ PersistMarket(w) \/ CloseCandidate(w) \/ Drop(w)
  BY <1>3 DEF PersistComps, PersistMarket, CloseCandidate, Drop, row
<1> QED
  BY <1>1, <1>2, <1>3 DEF Work

LEMMA RetriersRespectDelay ==
    ASSUME IInv, Punctual, NEW r \in Retriers,
           Retry(r) \/ Restart(r) \/ \E l \in Listings : SkipCandidate(r, l),
           NEW l \in Listings \ Recoverable, status[l] = "retry", ~due[l]
    PROVE  status'[l] = "retry"
<1>0. TypeOK /\ l \notin todo[r]
  BY RetrierIsAlone DEF IInv
<1>1. CASE ReclaimStale(r)
  BY <1>1 DEF ReclaimStale, Sweeps
<1>2. CASE ClaimRetries(r) \/ Restart(r) \/ \E k \in Listings : SkipCandidate(r, k)
  BY <1>2 DEF ClaimRetries, Restart, SkipCandidate, row
<1>3. ASSUME NEW k \in Listings, BurySpent(r, k) \/ ResetToPending(r, k) PROVE status'[l] = "retry"
  BY <1>0, <1>3 DEF BurySpent, ResetToPending, ToDeadLetter, Released, TypeOK, row
<1> QED
  BY <1>1, <1>2, <1>3 DEF Retry

\* If processes keep to the time to live, what was put off is neither taken nor moved on
\* before next_comp_attempt_at: a retrier that holds a listing holds one that was due.
THEOREM DelayIsKept == Spec => PutOffUntilDue
<1>1. IInv /\ [Next]_vars =>
        [Punctual => \A l \in Listings \ Recoverable :
            status[l] = "retry" /\ ~due[l] => status'[l] = "retry"]_vars
  <2> SUFFICES ASSUME IInv, Next, Punctual, NEW l \in Listings \ Recoverable,
                      status[l] = "retry", ~due[l]
               PROVE  status'[l] = "retry"
    OBVIOUS
  <2>1. ASSUME NEW k \in Listings,
               LockGetsOlder(k) \/ BecomesDue(k) \/ AuctionEnds(k) \/ RecoverCandidate(k)
        PROVE  status'[l] = "retry"
    BY <2>1 DEF LockGetsOlder, GetsOlder, BecomesDue, AuctionEnds, RecoverCandidate, row
  <2> QED
    BY <2>1, WorkersRespectDelay, RetriersRespectDelay DEF Next
<1> QED
  BY <1>1, Inductive, PTL DEF Spec, PutOffUntilDue

=============================================================================
