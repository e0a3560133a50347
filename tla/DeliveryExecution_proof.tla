---------------------- MODULE DeliveryExecution_proof ----------------------
(***************************************************************************)
(* Proofs about DeliveryExecution for any number of deliveries, workers,   *)
(* attempts and permits.                                                   *)
(*                                                                         *)
(* The properties of the runs are not inductive: that a queued delivery    *)
(* may be sent again rests on what the earlier attempts recorded, what     *)
(* they recorded on what the provider did, and both on there being one     *)
(* sender at a time.  IInv ties the delivery row, the attempt rows, the    *)
(* executor loops and the provider together.                               *)
(***************************************************************************)
EXTENDS DeliveryExecution, TLAPS

\* Attempt rows exist for 1 .. attempt_count and for no other number.
AttemptsAreNumbered ==
    \A d \in Deliveries : \A n \in Numbers :
        outcome[d][n] = "NONE" <=> n > attemptCount[d]

\* What the last attempt row says of a delivery in each state.
RowAgreesWithAttempt ==
    \A d \in Deliveries :
        /\ state[d] \in Queued => attemptCount[d] < MaxAttempts
        /\ state[d] \in Queued \cup {"SUPPRESSED"} /\ attemptCount[d] > 0
             => outcome[d][attemptCount[d]] = "RETRYABLE_FAILURE"
        /\ state[d] = "SENDING" =>
             attemptCount[d] > 0 /\ outcome[d][attemptCount[d]] = "STARTED"
        /\ state[d] = "ACCEPTED_BY_PROVIDER" =>
             attemptCount[d] > 0 /\ outcome[d][attemptCount[d]] = "ACCEPTED"
        /\ state[d] = "DEAD_LETTERED" =>
             attemptCount[d] > 0 /\ outcome[d][attemptCount[d]] = "FINAL_FAILURE"

\* What an attempt row says of the request at the provider.
AttemptAgreesWithProvider ==
    \A d \in Deliveries : \A n \in Numbers :
        /\ outcome[d][n] = "NONE" => fate[d][n] = "none"
        /\ outcome[d][n] = "RETRYABLE_FAILURE" => fate[d][n] = "refused"
        /\ outcome[d][n] = "ACCEPTED" => fate[d][n] = "accepted"
        /\ outcome[d][n] = "FINAL_FAILURE" => fate[d][n] # "inflight"

\* What an executor loop knows of the delivery in its hands.
LoopKnows(l) ==
    /\ Sending(l) => outcome[cur[l]][num[l]] \in {"STARTED", "ACCEPTED"}
    /\ pc[l] \in {"send", "await"} => outcome[cur[l]][num[l]] = "STARTED"
    /\ pc[l] = "send" => fate[cur[l]][num[l]] = "none"
    /\ pc[l] = "answered" /\ reply[l] = "accepted" =>
         fate[cur[l]][num[l]] = "accepted"
    /\ pc[l] = "answered" /\ reply[l] = "retryable" =>
         fate[cur[l]][num[l]] = "refused"
    /\ pc[l] = "answered" /\ reply[l] = "final" =>
         fate[cur[l]][num[l]] # "inflight"

LoopAgreesWithAttempt == \A l \in Loops : LoopKnows(l)

Ledger ==
    /\ AttemptsAreNumbered
    /\ NoResendAfterAmbiguity
    /\ RowAgreesWithAttempt
    /\ AttemptAgreesWithProvider
    /\ LoopAgreesWithAttempt
    /\ OneSenderPerDelivery

IInv == TypeOK /\ Ledger

-----------------------------------------------------------------------------
(* Type correctness.                                                       *)

USE DEF Numbers, Loops, States, Outcomes, Replies, Fates

LEMMA InitTyped == Init => TypeOK
BY ChannelAssumption, BoundAssumption, NullAssumption DEF Init, TypeOK

\* Where a loop goes when it leaves a delivery.
LEMMA NextInBatchTyped ==
    ASSUME TypeOK, NEW l \in Loops, NextInBatch(l)
    PROVE  /\ pc' \in [Loops -> {"idle", "next", "denied", "permitted", "send", "await", "answered"}]
           /\ batch' = batch
           /\ cur' \in [Loops -> Deliveries \cup {NoOne}]
           /\ num' \in [Loops -> Numbers]
           /\ reply' \in [Loops -> Replies]
           /\ \A m \in Loops : pc'[m] \notin {"idle", "next"} => cur'[m] \in Deliveries
BY BoundAssumption DEF NextInBatch, TypeOK

LEMMA ClaimRowsTyped ==
    ASSUME TypeOK, NEW l \in Loops,
           NEW picked \in SUBSET Claimable(l[2]), ClaimRows(l, picked)
    PROVE  /\ state' \in [Deliveries -> States]
           /\ owner' \in [Deliveries -> Workers \cup {NoOne}]
           /\ leaseLive' \in [Deliveries -> BOOLEAN]
           /\ completed' \in [Deliveries -> BOOLEAN]
           /\ lockLive' \in [Deliveries -> BOOLEAN]
BY DEF ClaimRows, TypeOK

LEMMA ExecuteTyped ==
    ASSUME TypeOK, NEW l \in Loops, Execute(l)
    PROVE  TypeOK'
<1>0. /\ l[1] \in Workers /\ l[2] \in Channels
      /\ cur[l] \in Deliveries \cup {NoOne} /\ num[l] \in Numbers
  BY DEF TypeOK
<1>1. CASE Claim(l)
  <2>1. PICK picked \in SUBSET Claimable(l[2]) :
          /\ ClaimRows(l, picked)
          /\ batch' = [batch EXCEPT ![l] = picked]
          /\ pc' = [pc EXCEPT ![l] = IF picked = {} THEN "idle" ELSE "next"]
    BY <1>1 DEF Claim
  <2>2. picked \in SUBSET Deliveries
    BY DEF Claimable
  <2> QED
    BY <2>1, <2>2, ClaimRowsTyped DEF TypeOK, ClaimRows, gates
<1>2. CASE AcquirePermit(l)
  <2>1. bucket' \in [Channels -> 0 .. MaxPerMinute]
    BY <1>0, <1>2, BoundAssumption DEF AcquirePermit, TypeOK
  <2> QED
    BY <1>2, <2>1 DEF AcquirePermit, TypeOK, row, outbox
<1>3. CASE ReleaseClaim(l) \/ BeginReleased(l)
  <2>1. NextInBatch(l) /\ ReleaseRow(cur[l]) /\ UNCHANGED <<outcome, tasks, gates, fate>>
    BY <1>3 DEF ReleaseClaim, BeginReleased
  <2> QED
    BY <2>1, NextInBatchTyped DEF ReleaseRow, TypeOK, gates
<1>4. CASE ClaimRaises(l) \/ FailureRefused(l)
  BY <1>4, NextInBatchTyped DEF ClaimRaises, FailureRefused, Abandon, TypeOK, row, outbox, gates
<1>5. CASE BeginSuppressed(l)
  BY <1>5, NextInBatchTyped DEF BeginSuppressed, TypeOK, gates
<1>6. CASE BeginStarted(l)
  <2>4. cur[l] \in Deliveries
    BY <1>6 DEF BeginStarted, TypeOK
  <2>1. /\ attemptCount[cur[l]] \in 0 .. MaxAttempts
        /\ attemptCount[cur[l]] + 1 <= MaxAttempts
    BY <1>6, <2>4 DEF BeginStarted, TypeOK
  <2>5. attemptCount[cur[l]] + 1 \in Numbers \cap (0 .. MaxAttempts)
    BY <2>1, BoundAssumption
  <2>2. attemptCount' \in [Deliveries -> 0 .. MaxAttempts]
    <3>1. attemptCount' = [attemptCount EXCEPT ![cur[l]] = attemptCount[cur[l]] + 1]
      BY <1>6 DEF BeginStarted
    <3> QED
      BY <2>5, <3>1 DEF TypeOK
  <2>3. outcome' \in [Deliveries -> [Numbers -> Outcomes]]
    BY <1>6, <2>5 DEF BeginStarted, TypeOK
  <2> QED
    BY <1>6, <2>5, <2>2, <2>3, <2>4 DEF BeginStarted, TypeOK, outbox, gates
<1>7. CASE RejectBeforeCall(l)
  BY <1>7 DEF RejectBeforeCall, TypeOK, row, outbox, gates
<1>8. CASE CallProvider(l)
  BY <1>8 DEF CallProvider, TypeOK, row, outbox, gates
<1>9. CASE Answer(l)
  BY <1>9 DEF Answer, Classified, TypeOK, row, outbox, gates
<1>10. CASE RecordAcceptance(l)
  <2>1. CASE NextInBatch(l)
    BY <1>10, <2>1, NextInBatchTyped DEF RecordAcceptance, Close, TypeOK, gates
  <2>2. CASE ~NextInBatch(l)
    BY <1>10, <2>2 DEF RecordAcceptance, Close, TypeOK, gates
  <2> QED
    BY <2>1, <2>2
<1>11. CASE AcceptanceNotRecorded(l)
  BY <1>11 DEF AcceptanceNotRecorded, TypeOK, row, outbox, gates
<1>12. CASE FailUnknown(l)
  <2>1. cur[l] \in Deliveries
    BY <1>12 DEF FailUnknown, Failing, TypeOK
  <2> QED
    BY <1>12, <2>1, NextInBatchTyped DEF FailUnknown, Close, TypeOK, gates
<1>13. CASE FailRetry(l)
  BY <1>13, NextInBatchTyped DEF FailRetry, Close, TypeOK, gates
<1>14. CASE FailDead(l)
  BY <1>14, NextInBatchTyped DEF FailDead, Close, TypeOK, gates
<1> QED
  BY <1>1, <1>2, <1>3, <1>4, <1>5, <1>6, <1>7, <1>8, <1>9, <1>10, <1>11,
     <1>12, <1>13, <1>14 DEF Execute

LEMMA EnvironmentTyped ==
    ASSUME TypeOK, Clock \/ Outside \/ Fault
    PROVE  TypeOK'
<1>1. ASSUME NEW d \in Deliveries, LockExpires(d) PROVE TypeOK'
  BY <1>1 DEF LockExpires, TypeOK, row, gates, loop
<1>2. ASSUME NEW d \in Deliveries, LeaseExpires(d) PROVE TypeOK'
  BY <1>2 DEF LeaseExpires, TypeOK, outbox, gates, loop
<1>6. ASSUME NEW d \in Deliveries, BecomesDue(d) PROVE TypeOK'
  BY <1>6 DEF BecomesDue, TypeOK, row, gates, loop
<1>7. ASSUME NEW c \in Channels, MinuteRolls(c) PROVE TypeOK'
  BY <1>7, BoundAssumption DEF MinuteRolls, TypeOK, row, outbox, loop
<1>8. ASSUME NEW d \in Deliveries, ConsentChanges(d) PROVE TypeOK'
  BY <1>8 DEF ConsentChanges, TypeOK, row, outbox, loop
<1>9. ASSUME NEW c \in Channels, SwitchChannel(c) PROVE TypeOK'
  BY <1>9 DEF SwitchChannel, TypeOK, row, outbox, loop
<1>10. ASSUME NEW d \in Deliveries, NEW n \in Numbers, ProviderDecides(d, n)
       PROVE  TypeOK'
  BY <1>10 DEF ProviderDecides, TypeOK, row, outbox, gates, loop
<1>3. ASSUME NEW l \in Loops, ClaimUnread(l) PROVE TypeOK'
  <2>1. PICK picked \in SUBSET Claimable(l[2]) : ClaimRows(l, picked)
    BY <1>3 DEF ClaimUnread
  <2> QED
    BY <1>3, <2>1, ClaimRowsTyped DEF TypeOK, ClaimUnread, ClaimRows, gates
<1>4. ASSUME NEW l \in Loops, ConnectionLost(l) PROVE TypeOK'
  BY <1>4, NextInBatchTyped DEF ConnectionLost, Abandon, TypeOK, row, outbox, gates
<1>5. ASSUME NEW w \in Workers, Crash(w) PROVE TypeOK'
  BY <1>5, BoundAssumption DEF Crash, TypeOK, row, outbox, gates
<1> QED
  BY <1>1, <1>2, <1>3, <1>4, <1>5, <1>6, <1>7, <1>8, <1>9, <1>10
  DEF Clock, Outside, Fault

LEMMA StepTyped == TypeOK /\ [Next]_vars => TypeOK'
<1>1. CASE UNCHANGED vars
  BY <1>1 DEF vars, row, outbox, gates, loop, TypeOK
<1> QED
  BY <1>1, ExecuteTyped, EnvironmentTyped DEF Next

\* Every reachable state is well typed; in particular the permits granted in a
\* minute never exceed max_submissions_per_minute and attempt_count never
\* exceeds max_attempts.
THEOREM TypeCorrect == Spec => []TypeOK
<1>1. Init => TypeOK
  BY InitTyped
<1>2. TypeOK /\ [Next]_vars => TypeOK'
  BY StepTyped
<1> QED
  BY <1>1, <1>2, PTL DEF Spec

-----------------------------------------------------------------------------
(* The ledger: steps that touch neither attempts nor the provider.         *)

\* The last attempt of a delivery in a sender's hands is that sender's.
LEMMA SenderHoldsLastAttempt ==
    ASSUME IInv, NEW l \in Loops, Sending(l)
    PROVE  /\ cur[l] \in Deliveries /\ num[l] \in Numbers
           /\ num[l] = attemptCount[cur[l]]
<1>1. cur[l] \in Deliveries /\ num[l] \in Numbers
  BY DEF IInv, TypeOK, Sending
<1>2. outcome[cur[l]][num[l]] \in {"STARTED", "ACCEPTED"}
  BY DEF IInv, Ledger, LoopAgreesWithAttempt, LoopKnows
<1>3. /\ attemptCount[cur[l]] \in Nat
      /\ ~(num[l] < attemptCount[cur[l]]) /\ ~(num[l] > attemptCount[cur[l]])
  BY <1>1, <1>2 DEF IInv, TypeOK, Ledger, AttemptsAreNumbered, NoResendAfterAmbiguity
<1> QED
  BY <1>1, <1>3

\* Rows may be reshelved, suppressed or quarantined and loops may stop sending
\* without any harm, as long as attempts and provider are left alone.
LEMMA Reshelved ==
    ASSUME IInv,
           UNCHANGED <<attemptCount, outcome, fate>>,
           \A d \in Deliveries :
              \/ state'[d] = state[d]
              \/ state[d] \in Queued /\ state'[d] \in Queued \cup {"SUPPRESSED"}
              \/ state'[d] = "UNKNOWN_PROVIDER_OUTCOME",
           \A l \in Loops : Sending(l)' =>
              Sending(l) /\ UNCHANGED <<pc[l], cur[l], num[l], reply[l]>>
    PROVE  Ledger'
<1>1. AttemptsAreNumbered' /\ NoResendAfterAmbiguity' /\ AttemptAgreesWithProvider'
  BY DEF IInv, Ledger, AttemptsAreNumbered, NoResendAfterAmbiguity, AttemptAgreesWithProvider
<1>2. RowAgreesWithAttempt'
  BY DEF IInv, Ledger, RowAgreesWithAttempt, Queued
<1>3. LoopAgreesWithAttempt'
  BY DEF IInv, Ledger, LoopAgreesWithAttempt, LoopKnows, Sending
<1>4. OneSenderPerDelivery'
  BY DEF IInv, Ledger, OneSenderPerDelivery
<1> QED
  BY <1>1, <1>2, <1>3, <1>4 DEF Ledger

LEMMA LeavingDelivery ==
    ASSUME IInv, NEW l \in Loops, NextInBatch(l)
    PROVE  \A m \in Loops : Sending(m)' =>
              Sending(m) /\ UNCHANGED <<pc[m], cur[m], num[m], reply[m]>>
BY DEF IInv, TypeOK, NextInBatch, Sending

LEMMA ClaimKeepsLedger ==
    ASSUME IInv, NEW l \in Loops, Claim(l) \/ ClaimUnread(l)
    PROVE  Ledger'
<1>1. PICK picked \in SUBSET Claimable(l[2]) :
        /\ ClaimRows(l, picked)
        /\ \/ pc' = [pc EXCEPT ![l] = IF picked = {} THEN "idle" ELSE "next"]
           \/ UNCHANGED pc
  BY DEF Claim, ClaimUnread
<1>2. UNCHANGED <<attemptCount, outcome, fate, cur, num, reply>>
  BY <1>1 DEF ClaimRows
<1>3. \A d \in Deliveries :
        \/ state'[d] = state[d]
        \/ state[d] \in Queued /\ state'[d] \in Queued \cup {"SUPPRESSED"}
        \/ state'[d] = "UNKNOWN_PROVIDER_OUTCOME"
  BY <1>1 DEF ClaimRows, Claimable, Queued
<1>4. \A m \in Loops : Sending(m)' =>
         Sending(m) /\ UNCHANGED <<pc[m], cur[m], num[m], reply[m]>>
  BY <1>1, <1>2 DEF IInv, TypeOK, Sending
<1> QED
  BY <1>2, <1>3, <1>4, Reshelved

LEMMA LeavingKeepsLedger ==
    ASSUME IInv, NEW l \in Loops,
           \/ ReleaseClaim(l) \/ BeginReleased(l) \/ BeginSuppressed(l)
           \/ ClaimRaises(l) \/ FailureRefused(l) \/ ConnectionLost(l)
    PROVE  Ledger'
<1>1. NextInBatch(l) /\ UNCHANGED <<attemptCount, outcome, fate>>
  BY DEF ReleaseClaim, BeginReleased, BeginSuppressed, ReleaseRow, ClaimRaises,
         FailureRefused, ConnectionLost, Abandon, row
<1>2. \/ UNCHANGED state
      \/ /\ HoldsLease(l[1], cur[l])
         /\ \E s \in {"PENDING", "SUPPRESSED"} : state' = [state EXCEPT ![cur[l]] = s]
  BY DEF ReleaseClaim, BeginReleased, BeginSuppressed, ReleaseRow, ClaimRaises,
         FailureRefused, ConnectionLost, Abandon, row
<1>3. \A d \in Deliveries :
        \/ state'[d] = state[d]
        \/ state[d] \in Queued /\ state'[d] \in Queued \cup {"SUPPRESSED"}
        \/ state'[d] = "UNKNOWN_PROVIDER_OUTCOME"
  BY <1>2 DEF IInv, TypeOK, HoldsLease, Queued
<1> QED
  BY <1>1, <1>3, LeavingDelivery, Reshelved

LEMMA PermitKeepsLedger ==
    ASSUME IInv, NEW l \in Loops, AcquirePermit(l)
    PROVE  Ledger'
<1>1. UNCHANGED <<state, attemptCount, outcome, fate>>
  BY DEF AcquirePermit, row
<1>2. \A m \in Loops : Sending(m)' =>
         Sending(m) /\ UNCHANGED <<pc[m], cur[m], num[m], reply[m]>>
  BY DEF AcquirePermit, IInv, TypeOK, Sending
<1> QED
  BY <1>1, <1>2, Reshelved

LEMMA OutsideKeepsLedger ==
    ASSUME IInv,
           \/ Clock
           \/ \E d \in Deliveries : ConsentChanges(d)
           \/ \E c \in Channels : SwitchChannel(c)
           \/ \E w \in Workers : Crash(w)
    PROVE  Ledger'
<1>1. UNCHANGED <<state, attemptCount, outcome, fate>>
  BY DEF Clock, LockExpires, LeaseExpires, BecomesDue, MinuteRolls, ConsentChanges,
         SwitchChannel, Crash, row
<1>2. \A m \in Loops : Sending(m)' =>
         Sending(m) /\ UNCHANGED <<pc[m], cur[m], num[m], reply[m]>>
  BY DEF Clock, LockExpires, LeaseExpires, BecomesDue, MinuteRolls, ConsentChanges,
         SwitchChannel, Crash, loop, Sending
<1> QED
  BY <1>1, <1>2, Reshelved

-----------------------------------------------------------------------------
(* The ledger: the steps of a send.                                        *)

LEMMA BeginKeepsLedger ==
    ASSUME IInv, NEW l \in Loops, BeginStarted(l)
    PROVE  Ledger'
<1> DEFINE d == cur[l]
           n == attemptCount[d] + 1
<1>1. /\ d \in Deliveries /\ attemptCount[d] \in Nat /\ n \in Numbers
      /\ attemptCount[d] < n
  <2>1. d \in Deliveries /\ attemptCount[d] \in 0 .. MaxAttempts /\ n <= MaxAttempts
    BY DEF IInv, TypeOK, BeginStarted
  <2> QED
    BY <2>1, BoundAssumption
<1>2. /\ state[d] = "CLAIMED"
      /\ state' = [state EXCEPT ![d] = "SENDING"]
      /\ attemptCount' = [attemptCount EXCEPT ![d] = n]
      /\ outcome' = [outcome EXCEPT ![d][n] = "STARTED"]
      /\ num' = [num EXCEPT ![l] = n]
      /\ pc[l] = "permitted" /\ pc' = [pc EXCEPT ![l] = "send"]
      /\ UNCHANGED <<cur, reply, fate>>
  BY DEF BeginStarted, HoldsLease
<1>3. outcome[d][n] = "NONE" /\ fate[d][n] = "none"
  BY <1>1 DEF IInv, Ledger, AttemptsAreNumbered, AttemptAgreesWithProvider
<1>4. /\ \A e \in Deliveries : attemptCount'[e] = IF e = d THEN n ELSE attemptCount[e]
      /\ \A e \in Deliveries : state'[e] = IF e = d THEN "SENDING" ELSE state[e]
      /\ \A e \in Deliveries : \A k \in Numbers :
           outcome'[e][k] = IF e = d /\ k = n THEN "STARTED" ELSE outcome[e][k]
  BY <1>1, <1>2 DEF IInv, TypeOK
<1>12. /\ \A m \in Loops : pc'[m] = IF m = l THEN "send" ELSE pc[m]
       /\ \A m \in Loops : num'[m] = IF m = l THEN n ELSE num[m]
  BY <1>2 DEF IInv, TypeOK
<1>5. \A m \in Loops : Sending(m) => cur[m] # d
  <2>1. SUFFICES ASSUME NEW m \in Loops, Sending(m), cur[m] = d PROVE FALSE
    OBVIOUS
  <2>2. num[m] = attemptCount[d] /\ num[m] \in Numbers
    BY <2>1, SenderHoldsLastAttempt
  <2>3. outcome[d][attemptCount[d]] \in {"STARTED", "ACCEPTED"}
    BY <2>1, <2>2 DEF IInv, Ledger, LoopAgreesWithAttempt, LoopKnows
  <2>4. outcome[d][attemptCount[d]] = "RETRYABLE_FAILURE"
    BY <1>1, <1>2, <2>2 DEF IInv, Ledger, RowAgreesWithAttempt, Queued
  <2> QED
    BY <2>3, <2>4
<1>6. AttemptsAreNumbered'
  <2>1. SUFFICES ASSUME NEW e \in Deliveries, NEW k \in Numbers
                 PROVE  outcome'[e][k] = "NONE" <=> k > attemptCount'[e]
    BY DEF AttemptsAreNumbered
  <2>2. outcome[e][k] = "NONE" <=> k > attemptCount[e]
    BY DEF IInv, Ledger, AttemptsAreNumbered
  <2> QED
    BY <1>1, <1>4, <2>2
<1>7. NoResendAfterAmbiguity'
  <2>1. SUFFICES ASSUME NEW e \in Deliveries, NEW k \in Numbers, k < attemptCount'[e]
                 PROVE  outcome'[e][k] = "RETRYABLE_FAILURE"
    BY DEF NoResendAfterAmbiguity
  <2>2. CASE e # d \/ k < attemptCount[e]
    BY <1>1, <1>4, <2>1, <2>2 DEF IInv, Ledger, NoResendAfterAmbiguity
  <2>3. CASE e = d /\ ~(k < attemptCount[e])
    <3>1. k = attemptCount[d] /\ attemptCount[d] > 0 /\ k # n
      BY <1>1, <1>4, <2>1, <2>3
    <3> QED
      BY <1>1, <1>2, <1>4, <2>3, <3>1 DEF IInv, Ledger, RowAgreesWithAttempt, Queued
  <2> QED
    BY <2>2, <2>3
<1>8. RowAgreesWithAttempt'
  <2>1. \A e \in Deliveries : e = d => /\ state'[e] = "SENDING" /\ attemptCount'[e] = n
                                       /\ n > 0 /\ outcome'[e][n] = "STARTED"
    BY <1>1, <1>4
  <2>2. \A e \in Deliveries : e # d =>
          /\ state'[e] = state[e] /\ attemptCount'[e] = attemptCount[e]
          /\ outcome'[e] = outcome[e]
    BY <1>1, <1>2, <1>4 DEF IInv, TypeOK
  <2> QED
    BY <2>1, <2>2 DEF IInv, Ledger, RowAgreesWithAttempt, Queued
<1>9. AttemptAgreesWithProvider'
  BY <1>2, <1>4 DEF IInv, Ledger, AttemptAgreesWithProvider
<1>10. LoopAgreesWithAttempt'
  <2>1. SUFFICES ASSUME NEW m \in Loops
                 PROVE  LoopKnows(m)'
    BY DEF LoopAgreesWithAttempt
  <2>2. CASE m = l
    BY <1>1, <1>2, <1>3, <1>4, <1>12, <2>2 DEF LoopKnows, Sending
  <2>3. CASE m # l /\ Sending(m)
    <3>1. cur[m] # d /\ cur[m] \in Deliveries /\ num[m] \in Numbers
      BY <1>5, <2>3, SenderHoldsLastAttempt
    <3>2. outcome'[cur[m]][num[m]] = outcome[cur[m]][num[m]]
      BY <1>4, <3>1
    <3> QED
      BY <1>2, <1>12, <2>3, <3>2 DEF IInv, Ledger, LoopAgreesWithAttempt, LoopKnows, Sending
  <2>4. CASE m # l /\ ~Sending(m)
    BY <1>12, <2>4 DEF LoopKnows, Sending
  <2> QED
    BY <2>2, <2>3, <2>4
<1>11. OneSenderPerDelivery'
  BY <1>2, <1>5, <1>12 DEF IInv, Ledger, OneSenderPerDelivery, Sending
<1> QED
  BY <1>6, <1>7, <1>8, <1>9, <1>10, <1>11 DEF Ledger

LEMMA AnsweringKeepsLedger ==
    ASSUME IInv, ~GatewayMasks, NEW l \in Loops,
           RejectBeforeCall(l) \/ Answer(l) \/ AcceptanceNotRecorded(l)
    PROVE  Ledger'
<1>1. /\ UNCHANGED <<state, attemptCount, outcome, fate, cur, num>>
      /\ Sending(l)
      /\ pc' = [pc EXCEPT ![l] = "answered"]
      /\ \E r \in Replies : reply' = [reply EXCEPT ![l] = r]
  <2>1. pc = [pc EXCEPT ![l] = pc[l]]
    BY DEF IInv, TypeOK
  <2> QED
    BY <2>1 DEF RejectBeforeCall, Answer, Classified, AcceptanceNotRecorded, row, Sending
<1>2. /\ \A m \in Loops : pc'[m] = IF m = l THEN "answered" ELSE pc[m]
      /\ \A m \in Loops : m # l => reply'[m] = reply[m]
  BY <1>1 DEF IInv, TypeOK
<1>3. /\ reply'[l] = "accepted" => fate[cur[l]][num[l]] = "accepted"
      /\ reply'[l] = "retryable" => fate[cur[l]][num[l]] = "refused"
      /\ reply'[l] = "final" => fate[cur[l]][num[l]] # "inflight"
  <2>1. CASE RejectBeforeCall(l)
    BY <2>1 DEF RejectBeforeCall, IInv, TypeOK, Ledger, LoopAgreesWithAttempt, LoopKnows
  <2>2. CASE Answer(l)
    BY <2>2 DEF Answer, Classified, IInv, TypeOK
  <2>3. CASE AcceptanceNotRecorded(l)
    BY <2>3 DEF AcceptanceNotRecorded, IInv, TypeOK
  <2> QED
    BY <2>1, <2>2, <2>3
<1>4. LoopAgreesWithAttempt'
  BY <1>1, <1>2, <1>3 DEF IInv, Ledger, LoopAgreesWithAttempt, LoopKnows, Sending
<1>5. OneSenderPerDelivery'
  BY <1>1, <1>2 DEF IInv, Ledger, OneSenderPerDelivery, Sending
<1>6. AttemptsAreNumbered' /\ NoResendAfterAmbiguity' /\ AttemptAgreesWithProvider'
  BY <1>1 DEF IInv, Ledger, AttemptsAreNumbered, NoResendAfterAmbiguity, AttemptAgreesWithProvider
<1>7. RowAgreesWithAttempt'
  BY <1>1 DEF IInv, Ledger, RowAgreesWithAttempt
<1> QED
  BY <1>4, <1>5, <1>6, <1>7 DEF Ledger

LEMMA CallKeepsLedger ==
    ASSUME IInv, NEW l \in Loops, CallProvider(l)
    PROVE  Ledger'
<1>1. /\ UNCHANGED <<state, attemptCount, outcome, cur, num, reply>>
      /\ pc[l] = "send" /\ Sending(l)
      /\ pc' = [pc EXCEPT ![l] = "await"]
      /\ fate' = [fate EXCEPT ![cur[l]][num[l]] = "inflight"]
  BY DEF CallProvider, row, Sending
<1>2. /\ cur[l] \in Deliveries /\ num[l] \in Numbers
      /\ outcome[cur[l]][num[l]] = "STARTED"
  BY <1>1, SenderHoldsLastAttempt DEF IInv, Ledger, LoopAgreesWithAttempt, LoopKnows
<1>3. /\ \A m \in Loops : pc'[m] = IF m = l THEN "await" ELSE pc[m]
      /\ \A e \in Deliveries : \A k \in Numbers :
           fate'[e][k] = IF e = cur[l] /\ k = num[l] THEN "inflight" ELSE fate[e][k]
  BY <1>1, <1>2 DEF IInv, TypeOK
<1>4. LoopAgreesWithAttempt'
  <2>1. SUFFICES ASSUME NEW m \in Loops PROVE LoopKnows(m)'
    BY DEF LoopAgreesWithAttempt
  <2>2. CASE m = l
    BY <1>1, <1>2, <1>3, <2>2 DEF LoopKnows, Sending
  <2>3. CASE m # l /\ Sending(m)
    <3>1. /\ cur[m] # cur[l] /\ cur[m] \in Deliveries /\ num[m] \in Numbers
          /\ LoopKnows(m)
      BY <1>1, <2>3, SenderHoldsLastAttempt
      DEF IInv, Ledger, OneSenderPerDelivery, LoopAgreesWithAttempt
    <3> QED
      BY <1>1, <1>3, <2>3, <3>1 DEF LoopKnows, Sending
  <2>4. CASE m # l /\ ~Sending(m)
    BY <1>3, <2>4 DEF LoopKnows, Sending
  <2> QED
    BY <2>2, <2>3, <2>4
<1>5. OneSenderPerDelivery'
  BY <1>1, <1>3 DEF IInv, Ledger, OneSenderPerDelivery, Sending
<1>6. AttemptsAreNumbered' /\ NoResendAfterAmbiguity' /\ RowAgreesWithAttempt'
  BY <1>1 DEF IInv, Ledger, AttemptsAreNumbered, NoResendAfterAmbiguity, RowAgreesWithAttempt
<1>7. AttemptAgreesWithProvider'
  BY <1>1, <1>2, <1>3 DEF IInv, Ledger, AttemptAgreesWithProvider
<1> QED
  BY <1>4, <1>5, <1>6, <1>7 DEF Ledger

LEMMA ProviderKeepsLedger ==
    ASSUME IInv, NEW d \in Deliveries, NEW n \in Numbers, ProviderDecides(d, n)
    PROVE  Ledger'
<1>1. /\ UNCHANGED <<state, attemptCount, outcome, pc, cur, num, reply>>
      /\ fate[d][n] = "inflight"
  BY DEF ProviderDecides, row, loop
<1>2. \A e \in Deliveries : \A k \in Numbers :
        \/ fate'[e][k] = fate[e][k]
        \/ fate[e][k] = "inflight" /\ fate'[e][k] \in {"accepted", "refused"}
  BY <1>1 DEF ProviderDecides, IInv, TypeOK
<1>3. LoopAgreesWithAttempt'
  <2>1. SUFFICES ASSUME NEW m \in Loops PROVE LoopKnows(m)'
    BY DEF LoopAgreesWithAttempt
  <2>2. CASE Sending(m)
    <3>1. cur[m] \in Deliveries /\ num[m] \in Numbers /\ LoopKnows(m)
      BY <2>2, SenderHoldsLastAttempt DEF IInv, Ledger, LoopAgreesWithAttempt
    <3> QED
      BY <1>1, <1>2, <2>2, <3>1 DEF LoopKnows, Sending
  <2>3. CASE ~Sending(m)
    BY <1>1, <2>3 DEF LoopKnows, Sending
  <2> QED
    BY <2>2, <2>3
<1>4. OneSenderPerDelivery'
  BY <1>1 DEF IInv, Ledger, OneSenderPerDelivery, Sending
<1>5. AttemptsAreNumbered' /\ NoResendAfterAmbiguity' /\ RowAgreesWithAttempt'
  BY <1>1 DEF IInv, Ledger, AttemptsAreNumbered, NoResendAfterAmbiguity, RowAgreesWithAttempt
<1>6. AttemptAgreesWithProvider'
  BY <1>1, <1>2 DEF IInv, Ledger, AttemptAgreesWithProvider
<1> QED
  BY <1>3, <1>4, <1>5, <1>6 DEF Ledger

\* The recording of an answer: the last attempt closes with the delivery.
LEMMA RecordingKeepsLedger ==
    ASSUME IInv, NEW l \in Loops, pc[l] = "answered", MayRecord(l),
           NEW s \in States, NEW o \in Outcomes, Close(l, s, o),
           \/ s = "ACCEPTED_BY_PROVIDER" /\ o = "ACCEPTED" /\ reply[l] = "accepted"
           \/ s = "UNKNOWN_PROVIDER_OUTCOME" /\ o = "UNKNOWN"
           \/ /\ s = "FAILED_RETRYABLE" /\ o = "RETRYABLE_FAILURE"
              /\ reply[l] = "retryable" /\ attemptCount[cur[l]] < MaxAttempts
           \/ /\ s = "DEAD_LETTERED" /\ o = "FINAL_FAILURE"
              /\ reply[l] \in {"final", "retryable"},
           \/ NextInBatch(l)
           \/ /\ o = "ACCEPTED" /\ UNCHANGED <<pc, cur, num>>
              /\ reply' = [reply EXCEPT ![l] = "ambiguous"]
    PROVE  Ledger'
<1> DEFINE d == cur[l]
           n == num[l]
<1>1. /\ d \in Deliveries /\ n \in Numbers /\ Sending(l)
      /\ n = attemptCount[d] /\ attemptCount[d] \in Nat /\ n > 0
  BY SenderHoldsLastAttempt DEF Sending, IInv, TypeOK
<1>2. /\ state[d] = "SENDING" /\ outcome[d][n] = "STARTED"
      /\ UNCHANGED <<attemptCount, fate>>
  BY DEF MayRecord, Close
<1>3. /\ \A e \in Deliveries : state'[e] = IF e = d THEN s ELSE state[e]
      /\ \A e \in Deliveries : \A k \in Numbers :
           outcome'[e][k] = IF e = d /\ k = n THEN o ELSE outcome[e][k]
      /\ \A e \in Deliveries : e # d => outcome'[e] = outcome[e]
  BY <1>1 DEF Close, IInv, TypeOK
<1>4. /\ o = "RETRYABLE_FAILURE" => fate[d][n] = "refused"
      /\ o = "ACCEPTED" => fate[d][n] = "accepted"
      /\ o = "FINAL_FAILURE" => fate[d][n] # "inflight"
      /\ o \notin {"NONE", "STARTED"}
  BY <1>1 DEF IInv, Ledger, LoopAgreesWithAttempt, LoopKnows
<1>5. /\ \A m \in Loops : m # l =>
            /\ pc'[m] = pc[m] /\ cur'[m] = cur[m] /\ num'[m] = num[m]
            /\ reply'[m] = reply[m]
      /\ Sending(l)' => /\ o = "ACCEPTED" /\ cur'[l] = d /\ num'[l] = n
                        /\ pc'[l] = "answered" /\ reply'[l] = "ambiguous"
  BY DEF NextInBatch, IInv, TypeOK, Sending
<1>6. \A m \in Loops : Sending(m) /\ m # l => cur[m] # d
  BY <1>1 DEF IInv, Ledger, OneSenderPerDelivery
<1>7. AttemptsAreNumbered'
  <2>1. SUFFICES ASSUME NEW e \in Deliveries, NEW k \in Numbers
                 PROVE  outcome'[e][k] = "NONE" <=> k > attemptCount[e]
    BY <1>2 DEF AttemptsAreNumbered
  <2>2. outcome[e][k] = "NONE" <=> k > attemptCount[e]
    BY DEF IInv, Ledger, AttemptsAreNumbered
  <2> QED
    BY <1>1, <1>3, <1>4, <2>2
<1>8. NoResendAfterAmbiguity'
  BY <1>1, <1>2, <1>3 DEF IInv, Ledger, NoResendAfterAmbiguity
<1>9. RowAgreesWithAttempt'
  <2>1. SUFFICES ASSUME NEW e \in Deliveries PROVE RowAgreesWithAttempt!(e)'
    BY DEF RowAgreesWithAttempt
  <2>2. CASE e = d
    BY <1>1, <1>2, <1>3, <2>2 DEF Queued
  <2>3. CASE e # d
    BY <1>2, <1>3, <2>3 DEF IInv, Ledger, RowAgreesWithAttempt, Queued
  <2> QED
    BY <2>2, <2>3
<1>10. AttemptAgreesWithProvider'
  BY <1>2, <1>3, <1>4 DEF IInv, Ledger, AttemptAgreesWithProvider
<1>11. LoopAgreesWithAttempt'
  <2>1. SUFFICES ASSUME NEW m \in Loops PROVE LoopKnows(m)'
    BY DEF LoopAgreesWithAttempt
  <2>2. CASE m = l
    BY <1>1, <1>3, <1>5, <2>2 DEF LoopKnows, Sending
  <2>3. CASE m # l /\ Sending(m)
    <3>1. /\ cur[m] # d /\ cur[m] \in Deliveries /\ num[m] \in Numbers
          /\ LoopKnows(m)
      BY <1>6, <2>3, SenderHoldsLastAttempt DEF IInv, Ledger, LoopAgreesWithAttempt
    <3> QED
      BY <1>2, <1>3, <1>5, <2>3, <3>1 DEF LoopKnows, Sending
  <2>4. CASE m # l /\ ~Sending(m)
    BY <1>5, <2>4 DEF LoopKnows, Sending
  <2> QED
    BY <2>2, <2>3, <2>4
<1>12. OneSenderPerDelivery'
  <2>1. \A m \in Loops : Sending(m)' => Sending(m) /\ cur'[m] = cur[m]
    BY <1>1, <1>5 DEF Sending
  <2> QED
    BY <2>1 DEF IInv, Ledger, OneSenderPerDelivery
<1> QED
  BY <1>7, <1>8, <1>9, <1>10, <1>11, <1>12 DEF Ledger

-----------------------------------------------------------------------------
(* The inductive invariant and what follows from it.                       *)

LEMMA LedgerStep ==
    ASSUME IInv, ~GatewayMasks, [Next]_vars
    PROVE  Ledger'
<1>1. ASSUME NEW l \in Loops, Execute(l) PROVE Ledger'
  <2>1. CASE Claim(l)
    BY <2>1, ClaimKeepsLedger
  <2>2. CASE AcquirePermit(l)
    BY <2>2, PermitKeepsLedger
  <2>3. CASE \/ ReleaseClaim(l) \/ BeginReleased(l) \/ BeginSuppressed(l)
             \/ ClaimRaises(l) \/ FailureRefused(l)
    BY <2>3, LeavingKeepsLedger
  <2>4. CASE BeginStarted(l)
    BY <2>4, BeginKeepsLedger
  <2>5. CASE RejectBeforeCall(l) \/ Answer(l) \/ AcceptanceNotRecorded(l)
    BY <2>5, AnsweringKeepsLedger
  <2>6. CASE CallProvider(l)
    BY <2>6, CallKeepsLedger
  <2>7. CASE RecordAcceptance(l)
    BY <2>7, RecordingKeepsLedger DEF RecordAcceptance
  <2>8. CASE FailUnknown(l)
    BY <2>8, RecordingKeepsLedger DEF FailUnknown, Failing
  <2>9. CASE FailRetry(l)
    BY <2>9, RecordingKeepsLedger DEF FailRetry, Failing
  <2>10. CASE FailDead(l)
    BY <2>10, RecordingKeepsLedger DEF FailDead, Failing
  <2> QED
    BY <1>1, <2>1, <2>2, <2>3, <2>4, <2>5, <2>6, <2>7, <2>8, <2>9, <2>10 DEF Execute
<1>2. CASE Clock
  BY <1>2, OutsideKeepsLedger
<1>3. CASE Outside
  BY <1>3, OutsideKeepsLedger, ProviderKeepsLedger DEF Outside
<1>4. CASE Fault
  BY <1>4, OutsideKeepsLedger, ClaimKeepsLedger, LeavingKeepsLedger DEF Fault
<1>5. CASE UNCHANGED vars
  <2>1. /\ UNCHANGED <<state, attemptCount, outcome, fate>>
        /\ UNCHANGED <<pc, cur, num, reply>>
    BY <1>5 DEF vars, row, loop
  <2> QED
    BY <2>1, Reshelved DEF Sending
<1> QED
  BY <1>1, <1>2, <1>3, <1>4, <1>5 DEF Next

LEMMA InitLedger == Init => Ledger
<1> SUFFICES ASSUME Init PROVE Ledger
  OBVIOUS
<1>1. \A d \in Deliveries : state[d] = "PENDING" /\ attemptCount[d] = 0
  BY DEF Init
<1>2. \A d \in Deliveries : \A n \in Numbers :
        outcome[d][n] = "NONE" /\ fate[d][n] = "none" /\ n > 0 /\ ~(n < 0)
  BY BoundAssumption DEF Init
<1>3. \A l \in Loops : pc[l] = "idle"
  BY DEF Init
<1>4. RowAgreesWithAttempt
  BY <1>1, BoundAssumption DEF RowAgreesWithAttempt
<1> QED
  BY <1>1, <1>2, <1>3, <1>4
  DEF Ledger, AttemptsAreNumbered, NoResendAfterAmbiguity, AttemptAgreesWithProvider,
      LoopAgreesWithAttempt, LoopKnows, OneSenderPerDelivery, Sending

LEMMA Inductive == ASSUME ~GatewayMasks PROVE Spec => []IInv
<1>1. Init => IInv
  BY InitTyped, InitLedger DEF IInv
<1>2. IInv /\ [Next]_vars => IInv'
  BY StepTyped, LedgerStep DEF IInv
<1> QED
  BY <1>1, <1>2, PTL DEF Spec

\* Two executor loops are never inside the send of the same delivery, for any
\* number of processes: begin_delivery_execution_10c takes the row out of the
\* claimable states and only the recording of that send puts it back.
THEOREM SingleSender == ASSUME ~GatewayMasks PROVE Spec => []OneSenderPerDelivery
<1>1. IInv => OneSenderPerDelivery
  BY DEF IInv, Ledger
<1> QED
  BY <1>1, Inductive, PTL

\* Attempt n + 1 exists only after attempt n was recorded as an explicit
\* retryable failure: fail_delivery_execution_10c never requeues a doubtful send.
THEOREM NoBlindResend == ASSUME ~GatewayMasks PROVE Spec => []NoResendAfterAmbiguity
<1>1. IInv => NoResendAfterAmbiguity
  BY DEF IInv, Ledger
<1> QED
  BY <1>1, Inductive, PTL

\* At most one request of a delivery was, or can still be, taken by the
\* provider, provided a retryable answer means that it was refused.
THEOREM SingleAcceptance == ASSUME ~GatewayMasks PROVE Spec => []AtMostOneAcceptance
<1>1. IInv => AtMostOneAcceptance
  <2>1. SUFFICES ASSUME IInv, NEW d \in Deliveries, NEW n \in Numbers, NEW m \in Numbers,
                        fate[d][n] \in {"inflight", "accepted"},
                        fate[d][m] \in {"inflight", "accepted"}
                 PROVE  n = m
    BY DEF AtMostOneAcceptance
  <2>2. attemptCount[d] \in Nat
    BY <2>1 DEF IInv, TypeOK
  <2>3. ASSUME NEW k \in Numbers, fate[d][k] \in {"inflight", "accepted"}
        PROVE  k = attemptCount[d]
    <3>1. ~(k > attemptCount[d])
      BY <2>1, <2>3
      DEF IInv, Ledger, AttemptsAreNumbered, AttemptAgreesWithProvider
    <3>2. ~(k < attemptCount[d])
      BY <2>1, <2>3
      DEF IInv, Ledger, NoResendAfterAmbiguity, AttemptAgreesWithProvider
    <3> QED
      BY <2>2, <3>1, <3>2
  <2> QED
    BY <2>1, <2>3
<1> QED
  BY <1>1, Inductive, PTL

\* ACCEPTED_BY_PROVIDER is never a guess: the provider took the last attempt.
THEOREM AcceptanceHappened == ASSUME ~GatewayMasks PROVE Spec => []AcceptanceIsReal
<1>1. IInv => AcceptanceIsReal
  <2>1. SUFFICES ASSUME IInv, NEW d \in Deliveries, state[d] = "ACCEPTED_BY_PROVIDER"
                 PROVE  /\ attemptCount[d] > 0
                        /\ outcome[d][attemptCount[d]] = "ACCEPTED"
                        /\ fate[d][attemptCount[d]] = "accepted"
    BY DEF AcceptanceIsReal
  <2>2. /\ attemptCount[d] > 0 /\ attemptCount[d] \in Numbers
        /\ outcome[d][attemptCount[d]] = "ACCEPTED"
    BY <2>1, BoundAssumption DEF IInv, TypeOK, Ledger, RowAgreesWithAttempt
  <2> QED
    BY <2>1, <2>2 DEF IInv, Ledger, AttemptAgreesWithProvider
<1> QED
  BY <1>1, Inductive, PTL

\* begin_delivery_execution_10c never meets a queued delivery whose attempts are
\* used up, so its ceiling check is never the reason a delivery is stuck.
THEOREM AttemptLeft == ASSUME ~GatewayMasks PROVE Spec => []QueuedHasAttemptLeft
<1>1. IInv => QueuedHasAttemptLeft
  BY DEF IInv, Ledger, RowAgreesWithAttempt, QueuedHasAttemptLeft
<1> QED
  BY <1>1, Inductive, PTL

\* A delivery suppressed for lack of consent was never taken by the provider.
THEOREM SuppressedIsUnsent == ASSUME ~GatewayMasks PROVE Spec => []SuppressedNotSent
<1>1. IInv => SuppressedNotSent
  <2>1. SUFFICES ASSUME IInv, NEW d \in Deliveries, NEW n \in Numbers,
                        state[d] = "SUPPRESSED"
                 PROVE  fate[d][n] \notin {"inflight", "accepted"}
    BY DEF SuppressedNotSent
  <2>2. attemptCount[d] \in Nat
    BY <2>1 DEF IInv, TypeOK
  <2>3. CASE n > attemptCount[d]
    BY <2>1, <2>3 DEF IInv, Ledger, AttemptsAreNumbered, AttemptAgreesWithProvider
  <2>4. CASE n < attemptCount[d]
    BY <2>1, <2>4 DEF IInv, Ledger, NoResendAfterAmbiguity, AttemptAgreesWithProvider
  <2>5. CASE n = attemptCount[d]
    <3>1. outcome[d][n] = "RETRYABLE_FAILURE"
      BY <2>1, <2>5, BoundAssumption DEF IInv, Ledger, RowAgreesWithAttempt
    <3> QED
      BY <2>1, <3>1 DEF IInv, Ledger, AttemptAgreesWithProvider
  <2> QED
    BY <2>2, <2>3, <2>4, <2>5
<1> QED
  BY <1>1, Inductive, PTL

\* The outbox row is closed exactly when the delivery needs no more executor,
\* whatever the gateways of the provider answer.
THEOREM OutboxInStep == Spec => []OutboxAgreesWithDelivery
<1> DEFINE Agrees == TypeOK /\ OutboxAgreesWithDelivery
<1>1. Init => Agrees
  BY InitTyped DEF Init, OutboxAgreesWithDelivery, Settled
<1>2. Agrees /\ [Next]_vars => Agrees'
  <2> SUFFICES ASSUME Agrees, [Next]_vars PROVE OutboxAgreesWithDelivery'
    BY StepTyped
  <2>1. ASSUME NEW l \in Loops, Claim(l) \/ ClaimUnread(l)
        PROVE  OutboxAgreesWithDelivery'
    <3>1. PICK picked \in SUBSET Claimable(l[2]) : ClaimRows(l, picked)
      BY <2>1 DEF Claim, ClaimUnread
    <3>2. \A d \in picked : state[d] \in Queued /\ ~completed[d]
      BY <3>1 DEF Claimable
    <3>3. \A d \in Deliveries :
            \/ state'[d] = "UNKNOWN_PROVIDER_OUTCOME" /\ completed'[d]
            \/ d \in picked /\ state'[d] = "CLAIMED" /\ completed'[d] = completed[d]
            \/ state'[d] = state[d] /\ completed'[d] = completed[d]
      BY <3>1 DEF ClaimRows, TypeOK
    <3> QED
      BY <3>2, <3>3 DEF TypeOK, OutboxAgreesWithDelivery, Settled
  <2>2. ASSUME NEW l \in Loops, Execute(l), ~Claim(l)
        PROVE  OutboxAgreesWithDelivery'
    <3>1. \/ UNCHANGED <<state, completed>>
          \/ HoldsLease(l[1], cur[l]) /\ \E s \in {"PENDING", "SENDING"} :
               state' = [state EXCEPT ![cur[l]] = s] /\ UNCHANGED completed
          \/ MayRecord(l) /\ state' = [state EXCEPT ![cur[l]] = "FAILED_RETRYABLE"]
               /\ UNCHANGED completed
          \/ \E s \in Settled : /\ state' = [state EXCEPT ![cur[l]] = s]
                               /\ completed' = [completed EXCEPT ![cur[l]] = TRUE]
      BY <2>2 DEF Execute, AcquirePermit, ReleaseClaim, ReleaseRow, ClaimRaises, Abandon,
           BeginReleased, BeginSuppressed, BeginStarted, RejectBeforeCall, CallProvider,
           Answer, RecordAcceptance, AcceptanceNotRecorded, FailUnknown, FailRetry,
           FailDead, Failing, FailureRefused, Close, row, outbox, Settled
    <3>2. \/ cur[l] \notin Deliveries
          \/ state[cur[l]] \notin Settled /\ state'[cur[l]] \notin Settled
               /\ completed'[cur[l]] = completed[cur[l]]
          \/ state'[cur[l]] \in Settled /\ completed'[cur[l]]
          \/ UNCHANGED <<state, completed>>
      BY <3>1 DEF HoldsLease, MayRecord, TypeOK, Settled
    <3>3. \A d \in Deliveries : d # cur[l] =>
            state'[d] = state[d] /\ completed'[d] = completed[d]
      BY <3>1 DEF TypeOK
    <3> QED
      BY <3>2, <3>3 DEF OutboxAgreesWithDelivery
  <2>3. CASE Clock \/ Outside \/ UNCHANGED vars \/ \E w \in Workers : Crash(w)
    <3>1. UNCHANGED <<state, completed>>
      BY <2>3 DEF Clock, LockExpires, LeaseExpires, BecomesDue, MinuteRolls, Outside,
           ConsentChanges, SwitchChannel, ProviderDecides, Crash, vars, row, outbox
    <3> QED
      BY <3>1 DEF OutboxAgreesWithDelivery
  <2>4. ASSUME NEW l \in Loops, ConnectionLost(l) PROVE OutboxAgreesWithDelivery'
    BY <2>4 DEF ConnectionLost, Abandon, row, outbox, OutboxAgreesWithDelivery
  <2> QED
    BY <2>1, <2>2, <2>3, <2>4 DEF Next, Fault
<1> QED
  BY <1>1, <1>2, PTL DEF Spec

-----------------------------------------------------------------------------
(* Refinement: every step is a step of the promise or invisible to it.     *)

LEMMA PhaseTable ==
    /\ \A s \in Queued : PhaseOf(s) = "queued"
    /\ PhaseOf("SENDING") = "open"
    /\ PhaseOf("ACCEPTED_BY_PROVIDER") = "accepted"
    /\ PhaseOf("UNKNOWN_PROVIDER_OUTCOME") = "quarantined"
    /\ PhaseOf("DEAD_LETTERED") = "dead"
    /\ PhaseOf("SUPPRESSED") = "suppressed"
BY DEF PhaseOf, Queued

\* Only the last request of a delivery can have been taken.
LEMMA NotTaken ==
    ASSUME IInv, NEW d \in Deliveries,
           \A n \in Numbers : n = attemptCount[d] => fate[d][n] # "accepted"
    PROVE  ~Taken(d)
<1>1. SUFFICES ASSUME NEW n \in Numbers, n # attemptCount[d] PROVE fate[d][n] # "accepted"
  BY DEF Taken
<1>2. attemptCount[d] \in Nat
  BY DEF IInv, TypeOK
<1>3. CASE n > attemptCount[d]
  BY <1>3 DEF IInv, Ledger, AttemptsAreNumbered, AttemptAgreesWithProvider
<1>4. CASE n < attemptCount[d]
  BY <1>4 DEF IInv, Ledger, NoResendAfterAmbiguity, AttemptAgreesWithProvider
<1> QED
  BY <1>1, <1>2, <1>3, <1>4

LEMMA QueuedNotTaken ==
    ASSUME IInv, NEW d \in Deliveries, state[d] \in Queued
    PROVE  ~Taken(d)
<1>1. ASSUME NEW n \in Numbers, n = attemptCount[d]
      PROVE  fate[d][n] # "accepted"
  <2>1. outcome[d][n] = "RETRYABLE_FAILURE"
    BY <1>1, BoundAssumption DEF IInv, Ledger, RowAgreesWithAttempt
  <2> QED
    BY <2>1 DEF IInv, Ledger, AttemptAgreesWithProvider
<1> QED
  BY <1>1, NotTaken

LEMMA Unseen ==
    ASSUME \A d \in Deliveries : PhaseOf(state'[d]) = PhaseOf(state[d]),
           UNCHANGED attemptCount,
           \A d \in Deliveries : Taken(d)' <=> Taken(d)
    PROVE  UNCHANGED Promise!promise
BY Zenon DEF Promise!promise

\* One delivery changes its phase and nothing else is visible.
LEMMA PhaseMoves ==
    ASSUME IInv, NEW d \in Deliveries, NEW s \in States,
           state' = [state EXCEPT ![d] = s], UNCHANGED <<attemptCount, fate>>,
           \/ state[d] = "SENDING" /\ s \in {"UNKNOWN_PROVIDER_OUTCOME", "DEAD_LETTERED"}
           \/ state[d] = "SENDING" /\ s = "ACCEPTED_BY_PROVIDER" /\ Taken(d)
           \/ /\ state[d] = "SENDING" /\ s = "FAILED_RETRYABLE"
              /\ ~Taken(d) /\ attemptCount[d] < MaxAttempts
           \/ state[d] \in Queued /\ s \in Queued \cup {"SUPPRESSED"}
    PROVE  Promise!Next \/ UNCHANGED Promise!promise
<1> DEFINE phase == [e \in Deliveries |-> PhaseOf(state[e])]
           copies == [e \in Deliveries |-> IF Taken(e) THEN 1 ELSE 0]
<1>1. /\ \A e \in Deliveries : Taken(e)' <=> Taken(e)
      /\ copies' = copies
  BY DEF Taken
<1>2. \A e \in Deliveries : state'[e] = IF e = d THEN s ELSE state[e]
  BY DEF IInv, TypeOK
<1>3. phase' = [phase EXCEPT ![d] = PhaseOf(s)]
  <2>1. \A e \in Deliveries :
          PhaseOf(state'[e]) = IF e = d THEN PhaseOf(s) ELSE PhaseOf(state[e])
    BY <1>2
  <2>2. phase' = [e \in Deliveries |-> PhaseOf(state'[e])]
    OBVIOUS
  <2> QED
    BY <2>1, <2>2
<1>4. phase[d] = PhaseOf(state[d])
  OBVIOUS
<1>5. CASE state[d] = "SENDING" /\ s = "UNKNOWN_PROVIDER_OUTCOME"
  <2>1. {d} \in SUBSET {e \in Deliveries : phase[e] = "open"}
    BY <1>4, <1>5, PhaseTable
  <2>2. phase' = [e \in Deliveries |-> IF e \in {d} THEN "quarantined" ELSE phase[e]]
    BY <1>3, <1>5, PhaseTable
  <2>3. Promise!Quarantine
    BY <1>1, <2>1, <2>2 DEF Promise!Quarantine
  <2> QED
    BY <2>3 DEF Promise!Next
<1>6. CASE state[d] = "SENDING" /\ s = "DEAD_LETTERED"
  <2>1. Promise!Bury(d)
    BY <1>1, <1>3, <1>4, <1>6, PhaseTable DEF Promise!Bury
  <2> QED
    BY <2>1 DEF Promise!Next
<1>7. CASE state[d] = "SENDING" /\ s = "ACCEPTED_BY_PROVIDER" /\ Taken(d)
  <2>1. Promise!Accept(d)
    BY <1>1, <1>3, <1>4, <1>7, PhaseTable DEF Promise!Accept
  <2> QED
    BY <2>1 DEF Promise!Next
<1>8. CASE /\ state[d] = "SENDING" /\ s = "FAILED_RETRYABLE"
           /\ ~Taken(d) /\ attemptCount[d] < MaxAttempts
  <2>1. PhaseOf(s) = "queued"
    BY <1>8, PhaseTable DEF Queued
  <2>2. Promise!Requeue(d)
    BY <1>1, <1>3, <1>4, <1>8, <2>1, PhaseTable DEF Promise!Requeue
  <2> QED
    BY <2>2 DEF Promise!Next
<1>9. CASE state[d] \in Queued /\ s = "SUPPRESSED"
  <2>1. Promise!Suppress(d)
    BY <1>1, <1>3, <1>4, <1>9, PhaseTable, QueuedNotTaken DEF Promise!Suppress
  <2> QED
    BY <2>1 DEF Promise!Next
<1>10. CASE state[d] \in Queued /\ s \in Queued
  <2>1. \A e \in Deliveries : PhaseOf(state'[e]) = PhaseOf(state[e])
    BY <1>2, <1>10, PhaseTable
  <2> QED
    BY <1>1, <2>1, Unseen
<1> QED
  BY <1>5, <1>6, <1>7, <1>8, <1>9, <1>10

\* The sweep of a claim gives up the lapsed sends; the claimed rows stay queued.
LEMMA ClaimKeepsPromise ==
    ASSUME IInv, NEW l \in Loops, Claim(l) \/ ClaimUnread(l)
    PROVE  Promise!Next
<1> DEFINE phase == [e \in Deliveries |-> PhaseOf(state[e])]
           lapsed == LapsedSends(l[2])
<1>1. PICK picked \in SUBSET Claimable(l[2]) : ClaimRows(l, picked)
  BY DEF Claim, ClaimUnread
<1>2. \A e \in Deliveries :
        state'[e] = IF e \in lapsed THEN "UNKNOWN_PROVIDER_OUTCOME"
                    ELSE IF e \in picked THEN "CLAIMED" ELSE state[e]
  BY <1>1 DEF ClaimRows
<1>3. /\ \A e \in picked : PhaseOf(state[e]) = "queued" /\ PhaseOf("CLAIMED") = "queued"
      /\ lapsed \in SUBSET {e \in Deliveries : phase[e] = "open"}
  BY PhaseTable DEF Claimable, Queued, LapsedSends
<1>4. \A e \in Deliveries :
        PhaseOf(state'[e]) = IF e \in lapsed THEN "quarantined" ELSE PhaseOf(state[e])
  BY <1>2, <1>3, PhaseTable
<1>5. phase' = [e \in Deliveries |-> IF e \in lapsed THEN "quarantined" ELSE phase[e]]
  <2>1. phase' = [e \in Deliveries |-> PhaseOf(state'[e])]
    OBVIOUS
  <2> QED
    BY <1>4, <2>1
<1>6. UNCHANGED <<attemptCount, fate>>
  BY <1>1 DEF ClaimRows
<1>7. Promise!Quarantine
  BY <1>3, <1>5, <1>6 DEF Promise!Quarantine, Taken
<1> QED
  BY <1>7 DEF Promise!Next

LEMMA TryKeepsPromise ==
    ASSUME IInv, NEW l \in Loops, BeginStarted(l)
    PROVE  Promise!Next
<1> DEFINE phase == [e \in Deliveries |-> PhaseOf(state[e])]
           d == cur[l]
<1>1. /\ d \in Deliveries /\ state[d] = "CLAIMED" /\ attemptCount[d] + 1 <= MaxAttempts
      /\ state' = [state EXCEPT ![d] = "SENDING"]
      /\ attemptCount' = [attemptCount EXCEPT ![d] = @ + 1]
      /\ UNCHANGED fate
  BY DEF BeginStarted, HoldsLease, IInv, TypeOK
<1>2. \A e \in Deliveries :
        PhaseOf(state'[e]) = IF e = d THEN "open" ELSE PhaseOf(state[e])
  BY <1>1, PhaseTable DEF IInv, TypeOK
<1>3. phase' = [phase EXCEPT ![d] = "open"]
  <2>1. phase' = [e \in Deliveries |-> PhaseOf(state'[e])]
    OBVIOUS
  <2> QED
    BY <1>2, <2>1
<1>4. phase[d] = "queued" /\ attemptCount[d] < MaxAttempts
  <2>1. attemptCount[d] \in 0 .. MaxAttempts
    BY <1>1 DEF IInv, TypeOK
  <2> QED
    BY <1>1, <2>1, PhaseTable, BoundAssumption DEF Queued
<1>5. Promise!Try(d)
  BY <1>1, <1>3, <1>4 DEF Promise!Try, Taken
<1> QED
  BY <1>1, <1>5 DEF Promise!Next

LEMMA TakeKeepsPromise ==
    ASSUME IInv, NEW d \in Deliveries, NEW n \in Numbers, ProviderDecides(d, n)
    PROVE  Promise!Next \/ UNCHANGED Promise!promise
<1> DEFINE copies == [e \in Deliveries |-> IF Taken(e) THEN 1 ELSE 0]
<1>1. fate[d][n] = "inflight" /\ UNCHANGED <<state, attemptCount>>
  BY DEF ProviderDecides, row
<1>2. n = attemptCount[d]
  <2>1. attemptCount[d] \in Nat
    BY DEF IInv, TypeOK
  <2>2. ~(n > attemptCount[d])
    BY <1>1 DEF IInv, Ledger, AttemptsAreNumbered, AttemptAgreesWithProvider
  <2>3. ~(n < attemptCount[d])
    BY <1>1 DEF IInv, Ledger, NoResendAfterAmbiguity, AttemptAgreesWithProvider
  <2> QED
    BY <2>1, <2>2, <2>3
<1>3. ~Taken(d)
  BY <1>1, <1>2, NotTaken
<1>4. state[d] \in {"SENDING", "UNKNOWN_PROVIDER_OUTCOME"}
  <2>1. outcome[d][n] \notin {"RETRYABLE_FAILURE", "ACCEPTED", "FINAL_FAILURE"}
    BY <1>1 DEF IInv, Ledger, AttemptAgreesWithProvider
  <2>2. n > 0 /\ state[d] \in States
    BY DEF IInv, TypeOK
  <2> QED
    BY <1>2, <2>1, <2>2 DEF IInv, Ledger, RowAgreesWithAttempt, Queued
<1>5. CASE fate' = [fate EXCEPT ![d][n] = "accepted"]
  <2>1. \A e \in Deliveries : \A k \in Numbers :
          fate'[e][k] = IF e = d /\ k = n THEN "accepted" ELSE fate[e][k]
    BY <1>5 DEF IInv, TypeOK
  <2>2. \A e \in Deliveries : Taken(e)' <=> (e = d \/ Taken(e))
    BY <2>1 DEF Taken
  <2>3. copies' = [copies EXCEPT ![d] = 1]
    <3>1. copies' = [e \in Deliveries |-> IF Taken(e)' THEN 1 ELSE 0]
      OBVIOUS
    <3> QED
      BY <2>2, <3>1
  <2>4. Promise!Take(d)
    BY <1>1, <1>3, <1>4, <2>3, PhaseTable DEF Promise!Take
  <2> QED
    BY <2>4 DEF Promise!Next
<1>6. CASE fate' = [fate EXCEPT ![d][n] = "refused"]
  <2>1. \A e \in Deliveries : \A k \in Numbers :
          fate'[e][k] = IF e = d /\ k = n THEN "refused" ELSE fate[e][k]
    BY <1>6 DEF IInv, TypeOK
  <2>2. \A e \in Deliveries : Taken(e)' <=> Taken(e)
    BY <1>1, <2>1 DEF Taken
  <2> QED
    BY <1>1, <2>2, Unseen
<1> QED
  BY <1>5, <1>6 DEF ProviderDecides

LEMMA RecordingKeepsPromise ==
    ASSUME IInv, NEW l \in Loops,
           RecordAcceptance(l) \/ FailUnknown(l) \/ FailRetry(l) \/ FailDead(l)
    PROVE  Promise!Next \/ UNCHANGED Promise!promise
<1> DEFINE d == cur[l]
<1>1. /\ pc[l] = "answered" /\ state[d] = "SENDING" /\ UNCHANGED <<attemptCount, fate>>
  BY DEF RecordAcceptance, FailUnknown, FailRetry, FailDead, Failing, MayRecord, Close
<1>2. d \in Deliveries /\ num[l] \in Numbers /\ num[l] = attemptCount[d] /\ LoopKnows(l)
  BY <1>1, SenderHoldsLastAttempt DEF Sending, IInv, Ledger, LoopAgreesWithAttempt
<1>3. CASE RecordAcceptance(l)
  <2>1. Taken(d)
    BY <1>1, <1>2, <1>3 DEF RecordAcceptance, LoopKnows, Taken
  <2>2. state' = [state EXCEPT ![d] = "ACCEPTED_BY_PROVIDER"]
    BY <1>3 DEF RecordAcceptance, Close
  <2> QED
    BY <1>1, <1>2, <2>1, <2>2, PhaseMoves
<1>4. CASE FailUnknown(l)
  <2>1. state' = [state EXCEPT ![d] = "UNKNOWN_PROVIDER_OUTCOME"]
    BY <1>4 DEF FailUnknown, Close
  <2> QED
    BY <1>1, <1>2, <2>1, PhaseMoves
<1>5. CASE FailRetry(l)
  <2>1. fate[d][num[l]] = "refused"
    BY <1>1, <1>2, <1>5 DEF FailRetry, Failing, LoopKnows
  <2>2. ~Taken(d)
    BY <1>2, <2>1, NotTaken
  <2>3. state' = [state EXCEPT ![d] = "FAILED_RETRYABLE"] /\ attemptCount[d] < MaxAttempts
    BY <1>5 DEF FailRetry, Close
  <2> QED
    BY <1>1, <1>2, <2>2, <2>3, PhaseMoves
<1>6. CASE FailDead(l)
  <2>1. state' = [state EXCEPT ![d] = "DEAD_LETTERED"]
    BY <1>6 DEF FailDead, Close
  <2> QED
    BY <1>1, <1>2, <2>1, PhaseMoves
<1> QED
  BY <1>3, <1>4, <1>5, <1>6

LEMMA LeavingKeepsPromise ==
    ASSUME IInv, NEW l \in Loops,
           ReleaseClaim(l) \/ BeginReleased(l) \/ BeginSuppressed(l)
    PROVE  Promise!Next \/ UNCHANGED Promise!promise
<1>1. /\ state[cur[l]] = "CLAIMED" /\ UNCHANGED <<attemptCount, fate>>
      /\ pc[l] \in {"denied", "permitted"}
      /\ \E s \in {"PENDING", "SUPPRESSED"} : state' = [state EXCEPT ![cur[l]] = s]
  BY DEF ReleaseClaim, BeginReleased, BeginSuppressed, ReleaseRow, HoldsLease
<1>2. cur[l] \in Deliveries
  BY <1>1 DEF IInv, TypeOK
<1> QED
  BY <1>1, <1>2, PhaseMoves DEF Queued

LEMMA InvisibleSteps ==
    ASSUME IInv,
           \/ \E l \in Loops : \/ AcquirePermit(l) \/ ClaimRaises(l) \/ RejectBeforeCall(l)
                              \/ CallProvider(l) \/ Answer(l) \/ AcceptanceNotRecorded(l)
                              \/ FailureRefused(l) \/ ConnectionLost(l)
           \/ Clock
           \/ \E d \in Deliveries : ConsentChanges(d)
           \/ \E c \in Channels : SwitchChannel(c)
           \/ \E w \in Workers : Crash(w)
           \/ UNCHANGED vars
    PROVE  UNCHANGED Promise!promise
<1>1. UNCHANGED <<state, attemptCount>>
  BY DEF AcquirePermit, ClaimRaises, RejectBeforeCall, CallProvider, Answer, Abandon,
         AcceptanceNotRecorded, FailureRefused, ConnectionLost, Clock, LockExpires,
         LeaseExpires, BecomesDue, MinuteRolls, ConsentChanges, SwitchChannel, Crash,
         row, vars
<1>2. \/ UNCHANGED fate
      \/ \E l \in Loops : CallProvider(l)
  BY DEF AcquirePermit, ClaimRaises, RejectBeforeCall, Answer, Abandon,
         AcceptanceNotRecorded, FailureRefused, ConnectionLost, Clock, LockExpires,
         LeaseExpires, BecomesDue, MinuteRolls, ConsentChanges, SwitchChannel, Crash, vars
<1>3. \A d \in Deliveries : Taken(d)' <=> Taken(d)
  <2>1. CASE UNCHANGED fate
    BY <2>1 DEF Taken
  <2>2. ASSUME NEW l \in Loops, CallProvider(l)
        PROVE  \A d \in Deliveries : Taken(d)' <=> Taken(d)
    <3>1. /\ fate' = [fate EXCEPT ![cur[l]][num[l]] = "inflight"]
          /\ fate[cur[l]][num[l]] = "none"
      BY <2>2 DEF CallProvider, IInv, Ledger, LoopAgreesWithAttempt, LoopKnows
    <3>2. \A d \in Deliveries : \A n \in Numbers :
            \/ fate'[d][n] = fate[d][n]
            \/ fate[d][n] = "none" /\ fate'[d][n] = "inflight"
      BY <3>1 DEF IInv, TypeOK
    <3> QED
      BY <3>2 DEF Taken
  <2> QED
    BY <1>2, <2>1, <2>2
<1> QED
  BY <1>1, <1>3, Unseen

\* The executors implement DeliveryPromise, for any number of deliveries,
\* processes and attempts: what the stored functions and the retry rule do is,
\* seen from outside, at most one copy per message.
THEOREM Implements == ASSUME ~GatewayMasks PROVE Spec => KeepsPromise
<1>1. Init => Promise!Init
  <2> SUFFICES ASSUME Init PROVE Promise!Init
    OBVIOUS
  <2>1. \A d \in Deliveries : PhaseOf(state[d]) = "queued" /\ ~Taken(d)
    BY PhaseTable DEF Init, Queued, Taken
  <2> QED
    BY <2>1 DEF Promise!Init, Init
<1>2. IInv /\ [Next]_vars => Promise!Next \/ UNCHANGED Promise!promise
  <2> SUFFICES ASSUME IInv, [Next]_vars
               PROVE  Promise!Next \/ UNCHANGED Promise!promise
    OBVIOUS
  <2>1. ASSUME NEW l \in Loops, Execute(l) \/ ClaimUnread(l) \/ ConnectionLost(l)
        PROVE  Promise!Next \/ UNCHANGED Promise!promise
    BY <2>1, ClaimKeepsPromise, TryKeepsPromise, RecordingKeepsPromise,
       LeavingKeepsPromise, InvisibleSteps DEF Execute
  <2>2. CASE Clock \/ Outside \/ (\E w \in Workers : Crash(w)) \/ UNCHANGED vars
    BY <2>2, TakeKeepsPromise, InvisibleSteps DEF Outside
  <2> QED
    BY <2>1, <2>2 DEF Next, Fault
<1>3. IInv /\ [Next]_vars => [Promise!Next]_(Promise!promise)
  BY <1>2
<1> QED
  BY <1>1, <1>3, Inductive, PTL DEF Spec, KeepsPromise, Promise!Spec

=============================================================================
