------------------------ MODULE DeliveryEvidence_proof ------------------------
(***************************************************************************)
(* Proofs about DeliveryEvidence for any deliveries, reconciliation        *)
(* workers and finite set of webhooks, delivered in any order.             *)
(*                                                                         *)
(* The receipts of a delivery always have a newest one: an event is filed  *)
(* behind all others, so it is the newest or the newest stays what it was. *)
(* The code finds that receipt with a query; because it exists, an event   *)
(* that is not older than it is not older than any.                        *)
(***************************************************************************)
EXTENDS DeliveryEvidence, FiniteSetTheorems, TLAPS

\* What the webhooks say; it never changes.
SaysOK == says \in [Events -> [of : Deliveries, status : Reports, at : 1 .. MaxTime]]

\* receipt_id counts the receipts.
Numbered == \A e \in OnFile : order[e] \in 1 .. Cardinality(OnFile)

\* The query for the newest receipt of a delivery with receipts finds one.
HasNewest(d) == Filed(d) # {} => Latest(d) # {}

IInv ==
    /\ SaysOK /\ TypeOK /\ EvidenceShows /\ Numbered
    /\ \A d \in Deliveries : HasNewest(d)

-----------------------------------------------------------------------------
(* What happens to the receipts: nothing, or one event is filed.           *)

USE DEF States, Failures, Terminal, Reports, TaskStates, Kinds

SameReceipts == UNCHANGED <<says, kind, order>>

Filing(e, k) == e \in Events \ OnFile /\ k \in Kinds /\ Files(e, k) /\ UNCHANGED says

LEMMA ReceiptsMove ==
    ASSUME [Next]_vars
    PROVE  SameReceipts \/ \E e \in Events, k \in Kinds : Filing(e, k)
<1>1. ASSUME NEW e \in Events, Webhook(e) PROVE SameReceipts \/ \E k \in Kinds : Filing(e, k)
  <2>1. CASE Duplicate(e) \/ ConflictRaises(e)
    BY <2>1 DEF Duplicate, ConflictRaises, SameReceipts, vars
  <2>2. CASE Unmatched(e)
    BY <2>2 DEF Unmatched, Filing, delivery
  <2>3. CASE Stale(e)
    BY <2>3 DEF Stale, Filing, delivery
  <2>4. CASE Sent(e)
    BY <2>4 DEF Sent, Applies, Filing, delivery
  <2>5. CASE Conflict(e)
    BY <2>5 DEF Conflict, Applies, Filing, delivery
  <2>6. ASSUME NEW S, Finalized(e, S) PROVE Filing(e, "TELNYX_FINALIZED")
    BY <2>6 DEF Finalized, Applies, Filing
  <2>7. CASE Delivered(e) \/ Failed(e) \/ Unconfirmed(e)
    BY <2>6, <2>7 DEF Delivered, Failed, Unconfirmed
  <2> QED
    BY <1>1, <2>1, <2>2, <2>3, <2>4, <2>5, <2>7 DEF Webhook
<1>2. SameReceipts \/ \E e \in Events : Webhook(e)
  BY DEF Next, Accepted, Doubtful, GivenUp, LeaseExpires, Resolve, Work, ClaimTasks, Surface, SurfaceRaises,
      Crash, SameReceipts, vars, delivery, receipts
<1> QED
  BY <1>1, <1>2

LEMMA Counted ==
    /\ IsFiniteSet(OnFile) /\ Cardinality(OnFile) \in Nat
    /\ \A e \in Events \ OnFile : Cardinality(OnFile \cup {e}) = Cardinality(OnFile) + 1
    /\ \A S \in SUBSET Events : Cardinality(S) \in Nat /\ Cardinality(S) <= Cardinality(Events)
    /\ Cardinality(Events) \in Nat
<1>1. IsFiniteSet(Events) /\ OnFile \subseteq Events
  BY EvidenceAssumption DEF OnFile
<1>2. IsFiniteSet(OnFile)
  BY <1>1, FS_Subset
<1>3. \A S \in SUBSET Events : IsFiniteSet(S) /\ Cardinality(S) <= Cardinality(Events)
  BY <1>1, FS_Subset
<1> QED
  BY <1>1, <1>2, <1>3, FS_CardinalityType, FS_AddElement

\* An event on file stays there as what it was filed; a filed event comes last.
LEMMA FilingFacts ==
    ASSUME TypeOK, NEW e \in Events, NEW k \in Kinds, Filing(e, k)
    PROVE  /\ OnFile' = OnFile \cup {e} /\ e \notin OnFile
           /\ kind'[e] = k /\ order'[e] = Cardinality(OnFile) + 1
           /\ \A f \in Events \ {e} : kind'[f] = kind[f] /\ order'[f] = order[f]
           /\ Cardinality(OnFile') = Cardinality(OnFile) + 1
           /\ kind' \in [Events -> Kinds \cup {"NONE"}]
<1>1. /\ e \notin OnFile /\ kind'[e] = k /\ order'[e] = Cardinality(OnFile) + 1
      /\ \A f \in Events \ {e} : kind'[f] = kind[f] /\ order'[f] = order[f]
      /\ kind' \in [Events -> Kinds \cup {"NONE"}]
  BY DEF Filing, Files, TypeOK
<1>2. OnFile' = OnFile \cup {e}
  BY <1>1 DEF OnFile
<1> QED
  BY <1>1, <1>2, Counted DEF Filing

LEMMA ReceiptsTyped ==
    ASSUME IInv, [Next]_vars
    PROVE  SaysOK' /\ kind' \in [Events -> Kinds \cup {"NONE"}] /\ order' \in [Events -> 0 .. Cardinality(Events)]
<1>0. TypeOK
  BY DEF IInv
<1>1. CASE SameReceipts
  BY <1>1 DEF SameReceipts, IInv, SaysOK, TypeOK
<1>2. ASSUME NEW e \in Events, NEW k \in Kinds, Filing(e, k)
      PROVE  SaysOK' /\ kind' \in [Events -> Kinds \cup {"NONE"}] /\ order' \in [Events -> 0 .. Cardinality(Events)]
  <2>1. Cardinality(OnFile \cup {e}) = Cardinality(OnFile) + 1 /\ (OnFile \cup {e}) \in SUBSET Events
    BY <1>2, Counted DEF Filing, OnFile
  <2>2. Cardinality(OnFile) + 1 \in 0 .. Cardinality(Events)
    BY <2>1, Counted
  <2>3. order' \in [Events -> 0 .. Cardinality(Events)]
    BY <1>0, <1>2, <2>2 DEF Filing, Files, TypeOK
  <2> QED
    BY <1>0, <1>2, <2>3, FilingFacts DEF Filing, IInv, SaysOK
<1> QED
  BY <1>1, <1>2, ReceiptsMove

LEMMA StaysNumbered == ASSUME IInv, [Next]_vars PROVE Numbered'
<1>1. CASE SameReceipts
  BY <1>1 DEF SameReceipts, IInv, Numbered, OnFile
<1>2. ASSUME NEW e \in Events, NEW k \in Kinds, Filing(e, k) PROVE Numbered'
  <2>1. /\ OnFile' = OnFile \cup {e} /\ e \notin OnFile /\ order'[e] = Cardinality(OnFile) + 1
        /\ \A f \in Events \ {e} : order'[f] = order[f]
        /\ Cardinality(OnFile') = Cardinality(OnFile) + 1
    BY <1>2, FilingFacts DEF IInv
  <2>2. \A f \in OnFile : f \in Events \ {e} /\ order[f] \in 1 .. Cardinality(OnFile)
    BY <2>1 DEF IInv, Numbered, OnFile
  <2>3. \A f \in OnFile \cup {e} : order'[f] \in 1 .. Cardinality(OnFile) + 1
    BY <2>1, <2>2, Counted
  <2> QED
    BY <2>1, <2>3 DEF Numbered
<1> QED
  BY <1>1, <1>2, ReceiptsMove

\* The event filed last is newer than the newest, or the newest stays it.
LEMMA NewestStays == ASSUME IInv, [Next]_vars, NEW d \in Deliveries PROVE HasNewest(d)'
<1>1. CASE SameReceipts
  BY <1>1 DEF SameReceipts, IInv, HasNewest, Filed, Latest, Newer, OnFile
<1>2. ASSUME NEW e \in Events, NEW k \in Kinds, Filing(e, k) PROVE HasNewest(d)'
  <2>1. /\ OnFile' = OnFile \cup {e} /\ e \notin OnFile /\ order'[e] = Cardinality(OnFile) + 1
        /\ \A f \in Events \ {e} : order'[f] = order[f]
        /\ says' = says
    BY <1>2, FilingFacts DEF IInv, Filing
  <2>2. \A f \in OnFile : order[f] \in Nat /\ order[f] <= Cardinality(OnFile) /\ f \in Events \ {e}
    BY <2>1, Counted DEF IInv, Numbered, OnFile
  <2>3. \A f \in Events : says[f].at \in Nat
    BY DEF IInv, SaysOK
  <2>4. \A f \in Filed(d) : f \in OnFile /\ f \in Filed(d)'
    BY <2>1 DEF Filed
  <2>5. CASE says[e].of # d
    <3>1. Filed(d)' = Filed(d)
      BY <2>1, <2>5 DEF Filed
    <3>2. \A f, g \in Filed(d) : Newer(f, g)' <=> Newer(f, g)
      BY <2>1, <2>2, <2>4 DEF Newer
    <3>3. Latest(d)' = Latest(d)
      BY <3>1, <3>2 DEF Latest
    <3> QED
      BY <3>1, <3>3 DEF IInv, HasNewest
  <2>6. CASE says[e].of = d
    <3>1. Filed(d)' = Filed(d) \cup {e}
      BY <2>1, <2>6 DEF Filed
    <3>2. CASE Filed(d) = {}
      <4>1. e \in Latest(d)'
        BY <3>1, <3>2 DEF Latest
      <4> QED
        BY <4>1 DEF HasNewest
    <3>3. CASE Filed(d) # {}
      <4>1. PICK l \in Filed(d) : \A f \in Filed(d) \ {l} : Newer(l, f)
        BY <3>3 DEF IInv, HasNewest, Latest
      <4>2. l \in OnFile /\ l \in Events /\ l # e
        BY <2>1, <2>4, <4>1 DEF OnFile
      <4>3. CASE says[l].at > says[e].at
        <5>1. Newer(l, e)'
          BY <2>1, <4>3 DEF Newer
        <5>2. \A f \in Filed(d) \ {l} : Newer(l, f)'
          BY <2>1, <2>2, <2>4, <4>1, <4>2 DEF Newer
        <5>3. l \in Latest(d)'
          BY <3>1, <4>1, <5>1, <5>2 DEF Latest
        <5> QED
          BY <5>3 DEF HasNewest
      <4>4. CASE ~(says[l].at > says[e].at)
        <5>1. says[l].at <= says[e].at
          BY <2>3, <4>2, <4>4
        <5>2. ASSUME NEW f \in Filed(d) PROVE Newer(e, f)'
          <6>1. f \in OnFile /\ f \in Events /\ order'[f] = order[f] /\ order[f] \in Nat /\ order[f] <= Cardinality(OnFile)
            BY <2>1, <2>2, <2>4
          <6>2. order'[e] > order'[f]
            BY <2>1, <6>1, Counted
          <6>3. f = l \/ Newer(l, f)
            BY <4>1
          <6>4. says[f].at <= says[l].at
            BY <2>3, <4>2, <6>1, <6>3 DEF Newer
          <6>5. says[f].at \in Nat /\ says[l].at \in Nat /\ says[e].at \in Nat
            BY <2>3, <4>2, <6>1
          <6>6. says[e].at > says[f].at \/ says[e].at = says[f].at
            BY <5>1, <6>4, <6>5
          <6> QED
            BY <2>1, <6>2, <6>6 DEF Newer
        <5>3. e \in Latest(d)'
          BY <3>1, <5>2 DEF Latest
        <5> QED
          BY <5>3 DEF HasNewest
      <4> QED
        BY <4>3, <4>4
    <3> QED
      BY <3>2, <3>3
  <2> QED
    BY <2>5, <2>6
<1> QED
  BY <1>1, <1>2, ReceiptsMove

\* An event that the stale check lets through is as new as every receipt.
LEMMA NotStaleIsNewest ==
    ASSUME IInv, NEW e \in Events, ~IsStale(e), NEW f \in Filed(says[e].of)
    PROVE  says[f].at <= says[e].at
<1>1. says[e].of \in Deliveries /\ f \in Events /\ \A g \in Events : says[g].at \in Nat
  BY DEF IInv, SaysOK, Filed, OnFile
<1>2. PICK l \in Filed(says[e].of) : l \in Latest(says[e].of)
  BY <1>1 DEF IInv, HasNewest, Latest
<1>3. l \in Events
  BY <1>2 DEF Filed, OnFile
<1>4. ~(says[e].at < says[l].at)
  BY <1>2 DEF IsStale
<1>5. f = l \/ Newer(l, f)
  BY <1>2 DEF Latest
<1>6. says[f].at <= says[l].at
  BY <1>1, <1>3, <1>5 DEF Newer
<1>7. says[f].at \in Nat /\ says[l].at \in Nat /\ says[e].at \in Nat
  BY <1>1, <1>3
<1> QED
  BY <1>4, <1>6, <1>7

-----------------------------------------------------------------------------
(* Type correctness.                                                       *)

\* The rows that are no receipts.
RowsTyped ==
    /\ state \in [Deliveries -> States]
    /\ known \subseteq Deliveries
    /\ task \in [Deliveries -> TaskStates]
    /\ taskOwner \in [Deliveries -> Workers \cup {NoOne}]
    /\ taskLive \in [Deliveries -> BOOLEAN]
    /\ todo \in [Workers -> SUBSET Deliveries]
    /\ \A d \in Deliveries : taskLive[d] => taskOwner[d] # NoOne

LEMMA WebhookTyped == ASSUME IInv, NEW e \in Events, Webhook(e) PROVE RowsTyped'
<1>0. RowsTyped /\ says[e].of \in Deliveries
  BY DEF IInv, SaysOK, TypeOK, RowsTyped
<1>1. UNCHANGED <<known, taskOwner, taskLive, todo>>
  BY DEF Webhook, Duplicate, Unmatched, Stale, Sent, Conflict, ConflictRaises, Delivered, Failed, Unconfirmed,
      Finalized, vars, delivery, tasks
<1>2. state' \in [Deliveries -> States]
  BY <1>0 DEF Webhook, Duplicate, Unmatched, Stale, Sent, Conflict, ConflictRaises, Delivered, Failed, Unconfirmed,
      Settles, vars, delivery, RowsTyped
<1>3. task' \in [Deliveries -> TaskStates]
  <2>1. UNCHANGED task \/ Asks(says[e].of) \/ task' = [task EXCEPT ![says[e].of] = "PENDING"]
    BY DEF Webhook, Duplicate, Unmatched, Stale, Sent, Conflict, ConflictRaises, Delivered, Failed, Unconfirmed,
      Settles, vars, tasks
  <2> QED
    BY <1>0, <2>1 DEF Asks, RowsTyped
<1> QED
  BY <1>0, <1>1, <1>2, <1>3 DEF RowsTyped

LEMMA SendTyped ==
    ASSUME IInv, NEW d \in Deliveries,
           Accepted(d) \/ Doubtful(d) \/ GivenUp(d) \/ LeaseExpires(d) \/ \E s \in {"RESOLVED", "CANCELLED"} : Resolve(d, s)
    PROVE  RowsTyped'
<1>0. RowsTyped
  BY DEF IInv, TypeOK, RowsTyped
<1>1. CASE Accepted(d) \/ GivenUp(d)
  BY <1>0, <1>1 DEF Accepted, GivenUp, RowsTyped, tasks
<1>2. CASE Doubtful(d)
  BY <1>0, <1>2 DEF Doubtful, Asks, RowsTyped
<1>3. CASE LeaseExpires(d)
  BY <1>0, <1>3 DEF LeaseExpires, RowsTyped, delivery
<1>4. CASE \E s \in {"RESOLVED", "CANCELLED"} : Resolve(d, s)
  BY <1>0, <1>4 DEF Resolve, RowsTyped, delivery
<1> QED
  BY <1>1, <1>2, <1>3, <1>4

LEMMA WorkTyped == ASSUME IInv, NEW w \in Workers, Work(w) \/ Crash(w) PROVE RowsTyped'
<1>0. RowsTyped
  BY DEF IInv, TypeOK, RowsTyped
<1>1. CASE ClaimTasks(w)
  <2>1. PICK picked \in (SUBSET Ready) \ {{}} :
         /\ task' = [d \in Deliveries |-> IF d \in picked THEN "CLAIMED"
                                          ELSE IF d \in Lapsed THEN "PENDING" ELSE task[d]]
         /\ taskOwner' = [d \in Deliveries |-> IF d \in picked THEN w
                                          ELSE IF d \in Lapsed THEN NoOne ELSE taskOwner[d]]
         /\ taskLive' = [d \in Deliveries |-> d \in picked \/ taskLive[d]]
         /\ todo' = [todo EXCEPT ![w] = picked]
    BY <1>1 DEF ClaimTasks
  <2>2. picked \in SUBSET Deliveries
    BY DEF Ready, Lapsed
  <2>3. /\ task' \in [Deliveries -> TaskStates]
        /\ taskOwner' \in [Deliveries -> Workers \cup {NoOne}]
        /\ taskLive' \in [Deliveries -> BOOLEAN]
        /\ todo' \in [Workers -> SUBSET Deliveries]
    BY <1>0, <2>1, <2>2 DEF RowsTyped
  <2>4. ASSUME NEW d \in Deliveries, taskLive'[d] PROVE taskOwner'[d] # NoOne
    BY <1>0, <2>1, <2>4, EvidenceAssumption DEF RowsTyped, Lapsed
  <2> QED
    BY <1>0, <1>1, <2>3, <2>4 DEF ClaimTasks, RowsTyped, delivery
<1>2. ASSUME NEW d \in Deliveries, Surface(w, d) PROVE RowsTyped'
  BY <1>0, <1>2 DEF Surface, RowsTyped, delivery
<1>3. CASE (\E d \in Deliveries : SurfaceRaises(w, d)) \/ Crash(w)
  BY <1>0, <1>3 DEF SurfaceRaises, Crash, RowsTyped, delivery, tasks
<1> QED
  BY <1>1, <1>2, <1>3 DEF Work

LEMMA NextTyped == ASSUME IInv, [Next]_vars PROVE TypeOK' /\ SaysOK'
<1>1. ASSUME UNCHANGED vars PROVE RowsTyped'
  BY <1>1 DEF vars, IInv, TypeOK, RowsTyped
<1>2. RowsTyped'
  BY <1>1, WebhookTyped, SendTyped, WorkTyped DEF Next
<1> QED
  BY <1>2, ReceiptsTyped DEF TypeOK, RowsTyped

-----------------------------------------------------------------------------
(* Evidence.                                                               *)

\* A task is never deleted, and what is settled stays settled.
LEMMA OutcomesStay ==
    ASSUME IInv, [Next]_vars, NEW d \in Deliveries
    PROVE  /\ task[d] # "NONE" => task'[d] # "NONE"
           /\ state[d] \in {"DELIVERED", "DEAD_LETTERED"} => state'[d] = state[d]
<1>0. state \in [Deliveries -> States] /\ task \in [Deliveries -> TaskStates]
  BY DEF IInv, TypeOK
<1>1. ASSUME NEW e \in Events, Webhook(e)
      PROVE  /\ task[d] # "NONE" => task'[d] # "NONE"
             /\ state[d] \in {"DELIVERED", "DEAD_LETTERED"} => state'[d] = state[d]
  <2>1. \/ UNCHANGED task \/ Asks(says[e].of) \/ task' = [task EXCEPT ![says[e].of] = "PENDING"]
    BY <1>1 DEF Webhook, Duplicate, Unmatched, Stale, Sent, Conflict, ConflictRaises, Delivered, Failed, Unconfirmed,
      Settles, vars, tasks
  <2>2. UNCHANGED state \/ \E s \in States : Settles(says[e].of, s)
    BY <1>1 DEF Webhook, Duplicate, Unmatched, Stale, Sent, Conflict, ConflictRaises, Delivered, Failed, Unconfirmed,
      vars, delivery
  <2>3. task[d] # "NONE" => task'[d] # "NONE"
    BY <1>0, <2>1 DEF Asks
  <2>4. state[d] \in {"DELIVERED", "DEAD_LETTERED"} => state'[d] = state[d]
    BY <1>0, <2>2 DEF Settles
  <2> QED
    BY <2>3, <2>4
<1>2. ASSUME NEW c \in Deliveries,
             Accepted(c) \/ Doubtful(c) \/ GivenUp(c) \/ LeaseExpires(c) \/ \E s \in {"RESOLVED", "CANCELLED"} : Resolve(c, s)
      PROVE  /\ task[d] # "NONE" => task'[d] # "NONE"
             /\ state[d] \in {"DELIVERED", "DEAD_LETTERED"} => state'[d] = state[d]
  BY <1>0, <1>2 DEF Accepted, Doubtful, GivenUp, LeaseExpires, Resolve, Asks, delivery, tasks
<1>3. ASSUME NEW w \in Workers, Work(w) \/ Crash(w)
      PROVE  /\ task[d] # "NONE" => task'[d] # "NONE"
             /\ UNCHANGED state
  BY <1>0, <1>3 DEF Work, ClaimTasks, Surface, SurfaceRaises, Crash, delivery, tasks
<1>4. CASE UNCHANGED vars
  BY <1>4 DEF vars
<1> QED
  BY <1>1, <1>2, <1>3, <1>4 DEF Next

Shows(e) ==
    LET d == says[e].of
    IN  \/ task[d] # "NONE"
        \/ says[e].status = "delivered" /\ state[d] = "DELIVERED"
        \/ says[e].status \in Failures /\ state[d] = "DEAD_LETTERED"

\* An event that is filed as final shows at once.
LEMMA FiledShows ==
    ASSUME IInv, NEW e \in Events, Webhook(e), kind[e] = "NONE", kind'[e] = "TELNYX_FINALIZED"
    PROVE  Shows(e)' /\ says[e].of \in known /\ ~IsStale(e)
<1>0. TypeOK /\ says[e].of \in Deliveries /\ state \in [Deliveries -> States] /\ task \in [Deliveries -> TaskStates]
  BY DEF IInv, SaysOK, TypeOK
<1>1. UNCHANGED says /\ e \notin OnFile
  BY DEF Webhook, Duplicate, Unmatched, Stale, Sent, Conflict, ConflictRaises, Delivered, Failed, Unconfirmed,
      Finalized, vars, delivery, OnFile
<1>2. Conflict(e) \/ Delivered(e) \/ Failed(e) \/ Unconfirmed(e)
  BY <1>0 DEF Webhook, Duplicate, Unmatched, Stale, Sent, ConflictRaises, Files, OnFile, TypeOK, vars
<1>3. Applies(e)
  BY <1>2 DEF Conflict, Delivered, Failed, Unconfirmed, Finalized
<1>4. ASSUME Conflict(e) PROVE Shows(e)'
  BY <1>0, <1>1, <1>4 DEF Conflict, Shows
<1>5. ASSUME Delivered(e) PROVE Shows(e)'
  BY <1>0, <1>1, <1>5 DEF Delivered, Finalized, Settles, Asks, Shows
<1>6. ASSUME Failed(e) PROVE Shows(e)'
  BY <1>0, <1>1, <1>6 DEF Failed, Finalized, Settles, Asks, Shows
<1>7. ASSUME Unconfirmed(e) PROVE Shows(e)'
  BY <1>0, <1>1, <1>7 DEF Unconfirmed, Finalized, Asks, Shows
<1> QED
  BY <1>2, <1>3, <1>4, <1>5, <1>6, <1>7 DEF Applies

LEMMA StillShows == ASSUME IInv, [Next]_vars PROVE EvidenceShows'
<1>0. TypeOK /\ SaysOK
  BY DEF IInv
<1>1. SUFFICES ASSUME NEW e \in Events, kind'[e] = "TELNYX_FINALIZED" PROVE Shows(e)'
  BY DEF EvidenceShows, Shows
<1>2. says' = says
  BY ReceiptsMove DEF SameReceipts, Filing
<1>3. CASE kind[e] # "NONE"
  <2>1. kind[e] = "TELNYX_FINALIZED"
    <3>1. CASE SameReceipts
      BY <1>1, <3>1 DEF SameReceipts
    <3>2. ASSUME NEW f \in Events, NEW k \in Kinds, Filing(f, k) PROVE kind[e] = "TELNYX_FINALIZED"
      BY <1>0, <1>1, <1>3, <3>2, FilingFacts DEF OnFile
    <3> QED
      BY <3>1, <3>2, ReceiptsMove
  <2>2. Shows(e)
    BY <2>1 DEF IInv, EvidenceShows, Shows
  <2>3. says[e].of \in Deliveries
    BY <1>0 DEF SaysOK
  <2> QED
    BY <1>2, <2>2, <2>3, OutcomesStay DEF Shows
<1>4. CASE kind[e] = "NONE"
  <2>1. PICK f \in Events : Webhook(f)
    BY <1>1, <1>4 DEF Next, Accepted, Doubtful, GivenUp, LeaseExpires, Resolve, Work, ClaimTasks, Surface,
        SurfaceRaises, Crash, vars, receipts
  <2>2. f = e
    <3> SUFFICES ASSUME f # e PROVE kind'[e] = kind[e]
      BY <1>1, <1>4
    <3> QED
      BY <1>0, <2>1 DEF Webhook, Duplicate, Unmatched, Stale, Sent, Conflict, ConflictRaises, Delivered, Failed,
          Unconfirmed, Finalized, Files, vars, TypeOK
  <2> QED
    BY <1>1, <1>4, <2>1, <2>2, FiledShows
<1> QED
  BY <1>3, <1>4

-----------------------------------------------------------------------------
(* The theorems.                                                           *)

LEMMA InitHolds == Init => IInv
<1> SUFFICES ASSUME Init PROVE IInv
  OBVIOUS
<1>1. OnFile = {}
  BY DEF Init, OnFile
<1>2. Numbered /\ \A d \in Deliveries : HasNewest(d)
  BY <1>1 DEF Numbered, HasNewest, Filed
<1>3. TypeOK /\ SaysOK
  BY Counted DEF Init, TypeOK, SaysOK
<1>4. EvidenceShows
  BY DEF Init, EvidenceShows
<1> QED
  BY <1>2, <1>3, <1>4 DEF IInv

\* Every reachable state has the invariant: in particular no order of webhooks leaves a
\* delivery with receipts and no newest one.
THEOREM Inductive == Spec => []IInv
<1>1. IInv /\ [Next]_vars => IInv'
  BY NextTyped, StillShows, StaysNumbered, NewestStays DEF IInv
<1> QED
  BY <1>1, InitHolds, PTL DEF Spec

\* Deliveries, receipts and reconciliation tasks keep the values of their columns,
\* and a lease on a task has an owner.
THEOREM TypeCorrect == Spec => []TypeOK
<1>1. IInv => TypeOK
  BY DEF IInv
<1> QED
  BY <1>1, Inductive, PTL

\* In whatever order webhooks come, evidence that was applied shows in the state
\* of the delivery or in a reconciliation task.
THEOREM EvidenceIsShown == Spec => []EvidenceShows
<1>1. IInv => EvidenceShows
  BY DEF IInv
<1> QED
  BY <1>1, Inductive, PTL

\* Only a delivery that the provider accepted is settled, by an event filed in the
\* same step that no receipt of the delivery is newer than; what is settled stays.
THEOREM AcceptedSettles == Spec => OnlyAcceptedSettles
<1>1. ASSUME IInv, [Next]_vars, NEW d \in Deliveries, state[d] \notin {"SENDING", state'[d]}
      PROVE  /\ state[d] = "ACCEPTED_BY_PROVIDER"
             /\ \E e \in Events : /\ kind[e] = "NONE" /\ kind'[e] = "TELNYX_FINALIZED"
                                   /\ says[e].of = d
                                   /\ \A f \in Filed(d) : says[f].at <= says[e].at
  <2>0. TypeOK /\ SaysOK
    BY <1>1 DEF IInv
  <2>1. ASSUME NEW c \in Deliveries,
               Accepted(c) \/ Doubtful(c) \/ GivenUp(c) \/ LeaseExpires(c) \/ \E s \in {"RESOLVED", "CANCELLED"} : Resolve(c, s)
        PROVE  FALSE
    BY <1>1, <2>0, <2>1 DEF Accepted, Doubtful, GivenUp, LeaseExpires, Resolve, delivery, TypeOK
  <2>2. ASSUME NEW w \in Workers, Work(w) \/ Crash(w) PROVE FALSE
    BY <1>1, <2>2 DEF Work, ClaimTasks, Surface, SurfaceRaises, Crash, delivery
  <2>3. PICK e \in Events : Webhook(e)
    BY <1>1, <2>1, <2>2 DEF Next, vars
  <2>4. /\ Delivered(e) \/ Failed(e)
        /\ \E s \in States : Settles(says[e].of, s)
    BY <1>1, <2>3 DEF Webhook, Duplicate, Unmatched, Stale, Sent, Conflict, ConflictRaises, Delivered, Failed,
        Unconfirmed, vars, delivery
  <2>5. says[e].of = d /\ state[d] = "ACCEPTED_BY_PROVIDER"
    BY <1>1, <2>0, <2>4 DEF Settles, SaysOK, TypeOK
  <2>6. Applies(e) /\ Files(e, "TELNYX_FINALIZED")
    BY <2>4 DEF Delivered, Failed, Finalized
  <2>7. kind[e] = "NONE" /\ kind'[e] = "TELNYX_FINALIZED"
    BY <2>0, <2>6 DEF Applies, Files, OnFile, TypeOK
  <2>8. \A f \in Filed(d) : says[f].at <= says[e].at
    BY <1>1, <2>5, <2>6, NotStaleIsNewest DEF Applies
  <2> QED
    BY <2>5, <2>7, <2>8
<1>2. IInv /\ [Next]_vars =>
        [\A d \in Deliveries :
          state[d] \notin {"SENDING", state'[d]} =>
          /\ state[d] = "ACCEPTED_BY_PROVIDER"
          /\ \E e \in Events : /\ kind[e] = "NONE" /\ kind'[e] = "TELNYX_FINALIZED"
                                /\ says[e].of = d
                                /\ \A f \in Filed(d) : says[f].at <= says[e].at]_vars
  BY <1>1
<1> QED
  BY <1>2, Inductive, PTL DEF Spec, OnlyAcceptedSettles

=============================================================================
