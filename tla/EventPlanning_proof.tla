------------------------- MODULE EventPlanning_proof -------------------------
(***************************************************************************)
(* Proofs about EventPlanning for any finite set of events, any planners,  *)
(* rules, window and number of attempts.                                   *)
(*                                                                         *)
(* Why a late planner does no harm: the row has an owner only while it is  *)
(* in planning, so that whoever still owns it finds it undecided, and a    *)
(* planner that has to find its rules' causes again does, because a        *)
(* decision and the rules it passed stay what they are.                    *)
(***************************************************************************)
EXTENDS EventPlanning, FiniteSetTheorems, TLAPS

\* What a row of event_processing shows of the event.
RowsAgree ==
    \A e \in Events :
        /\ owner[e] # NoOne => state[e] = "PLANNING"
        /\ basis[e] = 0 <=> state[e] = "none"
        /\ decision[e] = "none" => passed[e] = {}

\* The rules that a planner evaluated and its event did not pass have their cause.
CausesFound(w) == \A r \in Rules \ (plan[w].unread \cup plan[w].passes) : Recent(r, job[w])

PlannerKnows(w) ==
    /\ todo[w] \subseteq Received
    /\ at[w] # "idle" => job[w] \in Received
    /\ at[w] \in {"read", "commit"} => CausesFound(w)
    /\ at[w] = "commit" =>
        /\ plan[w].outcome \in Outcomes
        /\ plan[w].outcome = "SUPPRESSED" => plan[w].unread = {} /\ Suppressed(w)

IInv ==
    /\ TypeOK /\ RowsAgree /\ DecidedIsPlanned /\ SuppressionHasCause
    /\ \A w \in Workers : PlannerKnows(w)

-----------------------------------------------------------------------------
(* Type correctness.                                                       *)

USE DEF Outcomes, Waiting

LEMMA InitTyped == Init => TypeOK
<1>1. Cardinality(Events) \in Nat
  BY PlanningAssumption, FS_CardinalityType
<1>2. NoPlan \in Plans
  BY DEF NoPlan, Plans
<1> QED
  BY <1>1, <1>2, PlanningAssumption DEF Init, TypeOK

\* An event that is received leaves a place in the order for it.
LEMMA PlaceLeft ==
    ASSUME NEW e \in Events \ Received
    PROVE  Cardinality(Received) + 1 \in 1 .. Cardinality(Events)
<1>1. IsFiniteSet(Received) /\ IsFiniteSet(Received \cup {e})
  BY PlanningAssumption, FS_Subset, FS_AddElement DEF Received
<1>2. Cardinality(Received \cup {e}) = Cardinality(Received) + 1
  BY <1>1, FS_AddElement
<1>3. Cardinality(Received \cup {e}) <= Cardinality(Events)
  BY PlanningAssumption, FS_Subset DEF Received
<1>4. Cardinality(Received) \in Nat /\ Cardinality(Events) \in Nat
  BY <1>1, PlanningAssumption, FS_CardinalityType
<1> QED
  BY <1>2, <1>3, <1>4

LEMMA GoesTyped ==
    ASSUME TypeOK, NEW w \in Workers, NEW place \in {"idle", "read", "commit", "fail"},
           NEW e \in Events \cup {NoOne}, NEW n \in 0 .. MaxAttempts, NEW p \in Plans,
           Goes(w, place, e, n, p)
    PROVE  /\ at' \in [Workers -> {"idle", "read", "commit", "fail"}]
           /\ job' \in [Workers -> Events \cup {NoOne}]
           /\ number' \in [Workers -> 0 .. MaxAttempts] /\ plan' \in [Workers -> Plans]
BY DEF Goes, TypeOK

LEMMA EventTyped ==
    ASSUME TypeOK, NEW e \in Events, IngestOperationalEvent(e) \/ BecomesDue(e) \/ LeaseLapses(e)
    PROVE  TypeOK'
<1>1. CASE IngestOperationalEvent(e)
  <2>1. Cardinality(Received) + 1 \in 0 .. Cardinality(Events)
    BY <1>1, PlaceLeft DEF IngestOperationalEvent
  <2> QED
    BY <1>1, <2>1 DEF IngestOperationalEvent, TypeOK, queue, evidence, planner
<1>2. CASE BecomesDue(e) \/ LeaseLapses(e)
  BY <1>2 DEF BecomesDue, LeaseLapses, TypeOK, processing, queue, evidence, planner
<1> QED
  BY <1>1, <1>2

LEMMA PlansTyped ==
    ASSUME TypeOK, NEW w \in Workers
    PROVE  /\ NoPlan \in Plans /\ plan[w] \in Plans
           /\ plan[w].unread \subseteq Rules /\ plan[w].passes \subseteq Rules
           /\ \A o \in Outcomes : [plan[w] EXCEPT !.outcome = o] \in Plans
           /\ \A again \in BOOLEAN : [NoPlan EXCEPT !.retryable = again] \in Plans
           /\ \A U, P \in SUBSET Rules : [plan[w] EXCEPT !.unread = U, !.passes = P] \in Plans
           /\ number[w] \in 0 .. MaxAttempts /\ job[w] \in Events \cup {NoOne}
           /\ 0 \in 0 .. MaxAttempts /\ todo[w] \subseteq Events
<1>1. plan[w] \in Plans
  BY DEF TypeOK
<1>2. plan[w].unread \subseteq Rules /\ plan[w].passes \subseteq Rules
  BY <1>1 DEF Plans
<1>3. NoPlan \in Plans
  BY DEF NoPlan, Plans
<1>4. \A o \in Outcomes : [plan[w] EXCEPT !.outcome = o] \in Plans
  BY <1>1 DEF Plans
<1>5. \A again \in BOOLEAN : [NoPlan EXCEPT !.retryable = again] \in Plans
  BY <1>3 DEF Plans
<1>6. \A U, P \in SUBSET Rules : [plan[w] EXCEPT !.unread = U, !.passes = P] \in Plans
  BY <1>1 DEF Plans
<1>7. number[w] \in 0 .. MaxAttempts /\ job[w] \in Events \cup {NoOne} /\ todo[w] \subseteq Events
  BY DEF TypeOK
<1>8. 0 \in 0 .. MaxAttempts
  BY PlanningAssumption
<1> QED
  BY <1>1, <1>2, <1>3, <1>4, <1>5, <1>6, <1>7, <1>8

\* A planner that is past its attempt's start has an event, which is received.
LEMMA Busy ==
    ASSUME NEW w \in Workers, PlannerKnows(w), at[w] # "idle"
    PROVE  job[w] \in Events /\ basis[job[w]] > 0
BY DEF PlannerKnows, Received

LEMMA ReadTyped ==
    ASSUME TypeOK, NEW w \in Workers, PlannerKnows(w),
           Decide(w) \/ (\E r \in Rules : EvaluateRule(w, r)) \/ CommitRolledBack(w) \/ PlannerDies(w)
    PROVE  TypeOK'
<1> USE PlansTyped
<1>1. CASE Decide(w)
  <2>1. \E place \in {"commit", "fail"}, p \in Plans : Goes(w, place, job[w], number[w], p)
    BY <1>1 DEF Decide
  <2>2. UNCHANGED <<basis, processing, queue, evidence, dropped, todo>>
    BY <1>1 DEF Decide
  <2>3. PICK place \in {"commit", "fail"}, p \in Plans : Goes(w, place, job[w], number[w], p)
    BY <2>1
  <2>4. /\ at' \in [Workers -> {"idle", "read", "commit", "fail"}]
        /\ job' \in [Workers -> Events \cup {NoOne}]
        /\ number' \in [Workers -> 0 .. MaxAttempts] /\ plan' \in [Workers -> Plans]
    <3>1. place \in {"idle", "read", "commit", "fail"}
      OBVIOUS
    <3> QED
      BY <2>3, <3>1, GoesTyped
  <2> QED
    BY <2>2, <2>4 DEF TypeOK, processing, queue, evidence
<1>2. ASSUME NEW r \in Rules, EvaluateRule(w, r) PROVE TypeOK'
  <2>1. \E p \in Plans : Goes(w, "read", job[w], number[w], p)
    <3>1. (plan[w].unread \ {r}) \in SUBSET Rules
          /\ (IF Recent(r, job[w]) THEN plan[w].passes ELSE plan[w].passes \cup {r}) \in SUBSET Rules
      OBVIOUS
    <3> QED
      BY <1>2, <3>1 DEF EvaluateRule
  <2>2. /\ at' \in [Workers -> {"idle", "read", "commit", "fail"}]
        /\ job' \in [Workers -> Events \cup {NoOne}]
        /\ number' \in [Workers -> 0 .. MaxAttempts] /\ plan' \in [Workers -> Plans]
    BY <2>1, GoesTyped
  <2> QED
    BY <1>2, <2>2 DEF EvaluateRule, TypeOK, processing, queue, evidence
<1>3. CASE CommitRolledBack(w)
  <2>1. /\ at' \in [Workers -> {"idle", "read", "commit", "fail"}]
        /\ job' \in [Workers -> Events \cup {NoOne}]
        /\ number' \in [Workers -> 0 .. MaxAttempts] /\ plan' \in [Workers -> Plans]
    BY <1>3, GoesTyped DEF CommitRolledBack
  <2> QED
    BY <1>3, <2>1 DEF CommitRolledBack, TypeOK, processing, queue, evidence
<1>4. CASE PlannerDies(w)
  <2>1. /\ at' \in [Workers -> {"idle", "read", "commit", "fail"}]
        /\ job' \in [Workers -> Events \cup {NoOne}]
        /\ number' \in [Workers -> 0 .. MaxAttempts] /\ plan' \in [Workers -> Plans]
    BY <1>4, GoesTyped DEF PlannerDies
  <2> QED
    BY <1>4, <2>1 DEF PlannerDies, TypeOK, processing, queue, evidence
<1> QED
  BY <1>1, <1>2, <1>3, <1>4

LEMMA CountUpTyped == \A n \in 0 .. MaxAttempts : CountUp(n) \in 0 .. MaxAttempts
BY PlanningAssumption DEF CountUp

LEMMA AttemptTyped ==
    ASSUME TypeOK, NEW w \in Workers, ClaimPlanningItems(w) \/ BeginPlanningAttempt(w)
    PROVE  TypeOK'
<1>1. CASE ClaimPlanningItems(w)
  BY <1>1 DEF ClaimPlanningItems, Claimable, TypeOK, queue, evidence
<1>2. CASE BeginPlanningAttempt(w)
  <2>1. PICK e \in todo[w] :
          /\ todo' = [todo EXCEPT ![w] = @ \ {e}]
          /\ \/ /\ attempts' = [attempts EXCEPT ![e] = CountUp(@)]
                /\ Goes(w, "read", e, CountUp(attempts[e]), NoPlan)
             \/ UNCHANGED <<attempts, at, job, number, plan>>
    BY <1>2 DEF BeginPlanningAttempt
  <2>2. e \in Events /\ NoPlan \in Plans
    BY PlansTyped
  <2>3. CountUp(attempts[e]) \in 0 .. MaxAttempts
    BY <2>2, CountUpTyped DEF TypeOK
  <2>4. attempts' \in [Events -> 0 .. MaxAttempts] /\ todo' \in [Workers -> SUBSET Events]
    BY <2>1, <2>2, <2>3 DEF TypeOK
  <2>5. /\ at' \in [Workers -> {"idle", "read", "commit", "fail"}]
        /\ job' \in [Workers -> Events \cup {NoOne}]
        /\ number' \in [Workers -> 0 .. MaxAttempts] /\ plan' \in [Workers -> Plans]
    BY <2>1, <2>2, <2>3, GoesTyped DEF TypeOK
  <2> QED
    BY <1>2, <2>4, <2>5 DEF BeginPlanningAttempt, TypeOK, queue, evidence
<1> QED
  BY <1>1, <1>2

LEMMA SettledTyped ==
    ASSUME TypeOK, NEW w \in Workers, PlannerKnows(w), CommitDecision(w) \/ FailEventPlanning(w)
    PROVE  TypeOK'
<1>0. job[w] \in Events
  BY Busy DEF CommitDecision, FailEventPlanning
<1>1. Idle(w)
  BY DEF CommitDecision, FailEventPlanning
<1>2. /\ at' \in [Workers -> {"idle", "read", "commit", "fail"}]
      /\ job' \in [Workers -> Events \cup {NoOne}]
      /\ number' \in [Workers -> 0 .. MaxAttempts] /\ plan' \in [Workers -> Plans]
  BY <1>1, GoesTyped, PlansTyped DEF Idle
<1>3. CASE CommitDecision(w)
  <2>1. plan[w].outcome \in Outcomes \cup {"none"} /\ Logged(w) \subseteq Rules
    BY DEF Logged, TypeOK, Plans
  <2> QED
    BY <1>0, <1>1, <1>2, <1>3, <2>1 DEF CommitDecision, Idle, TypeOK
<1>4. CASE FailEventPlanning(w)
  <2>1. Retries(w) \in BOOLEAN
    BY DEF Retries, TypeOK, Plans
  <2> QED
    BY <1>0, <1>1, <1>2, <1>4, <2>1, ZenonT(40) DEF FailEventPlanning, Idle, TypeOK, evidence
<1> QED
  BY <1>3, <1>4

LEMMA NextTyped ==
    ASSUME TypeOK, \A w \in Workers : PlannerKnows(w), [Next]_vars
    PROVE  TypeOK'
<1>1. CASE \E e \in Events : IngestOperationalEvent(e) \/ BecomesDue(e) \/ LeaseLapses(e)
  BY <1>1, EventTyped
<1>2. ASSUME NEW w \in Workers, Plan(w) \/ PlannerDies(w) PROVE TypeOK'
  BY <1>2, ReadTyped, AttemptTyped, SettledTyped DEF Plan
<1>3. CASE UNCHANGED vars
  BY <1>3 DEF vars, processing, queue, evidence, planner, TypeOK
<1> QED
  BY <1>1, <1>2, <1>3 DEF Next

-----------------------------------------------------------------------------
(* What happened stays: the place of an event, and the rules it passed.    *)

\* What the row of one event shows, with what was decided of it.
Row(e) ==
    /\ owner[e] # NoOne => state[e] = "PLANNING"
    /\ basis[e] = 0 <=> state[e] = "none"
    /\ decision[e] = "none" => passed[e] = {}
    /\ decision[e] # "none" <=> state[e] \in {"PLANNED", "SUPPRESSED"}
    /\ decision[e] = "SUPPRESSED" <=> state[e] = "SUPPRESSED"

LEMMA RowsAre == (RowsAgree /\ DecidedIsPlanned) <=> \A e \in Events : Row(e)
BY DEF RowsAgree, DecidedIsPlanned, Row

LEMMA RowIsPlain == ASSUME NEW e \in Events, IInv PROVE Row(e)
BY RowsAre DEF IInv

\* A decision and the rules that were passed are written once.
LEMMA DecisionSealed ==
    ASSUME IInv, [Next]_vars, NEW e \in Events
    PROVE  /\ decision[e] # "none" => decision'[e] = decision[e] /\ passed'[e] = passed[e]
           /\ decision[e] = "none" => passed[e] = {}
<1>0. TypeOK /\ (decision[e] = "none" => passed[e] = {})
  BY RowIsPlain DEF Row, IInv
<1>1. ASSUME NEW w \in Workers, CommitDecision(w), decision[e] # "none"
      PROVE  decision'[e] = decision[e] /\ passed'[e] = passed[e]
  BY <1>0, <1>1 DEF CommitDecision, CommitAllowed, TypeOK
<1>2. UNCHANGED evidence \/ \E w \in Workers : CommitDecision(w)
  BY DEF Next, Plan, IngestOperationalEvent, BecomesDue, LeaseLapses, ClaimPlanningItems,
         BeginPlanningAttempt, EvaluateRule, Decide, CommitRolledBack, FailEventPlanning, PlannerDies,
         vars, evidence
<1> QED
  BY <1>0, <1>1, <1>2 DEF evidence

LEMMA PlaceKept ==
    ASSUME TypeOK, [Next]_vars, NEW e \in Received
    PROVE  basis'[e] = basis[e] /\ e \in Received'
<1>1. ASSUME NEW f \in Events, IngestOperationalEvent(f) PROVE basis'[e] = basis[e]
  BY <1>1 DEF IngestOperationalEvent, TypeOK, Received
<1>2. UNCHANGED basis \/ \E f \in Events : IngestOperationalEvent(f)
  BY DEF Next, Plan, BecomesDue, LeaseLapses, ClaimPlanningItems, CommitDecision,
         BeginPlanningAttempt, EvaluateRule, Decide, CommitRolledBack, FailEventPlanning, PlannerDies, vars
<1>3. basis'[e] = basis[e]
  BY <1>1, <1>2
<1> QED
  BY <1>3 DEF Received

\* Only a decided event, which was received, passed anything.
LEMMA PassedIsReceived ==
    ASSUME IInv, NEW f \in Events, passed[f] # {}
    PROVE  f \in Received /\ decision[f] # "none"
<1>1. decision[f] # "none" /\ basis[f] # 0
  BY RowIsPlain DEF Row
<1>2. basis[f] \in Nat
  BY PlanningAssumption, FS_CardinalityType DEF IInv, TypeOK
<1> QED
  BY <1>1, <1>2 DEF Received

LEMMA RecentKept ==
    ASSUME IInv, [Next]_vars, NEW r \in Rules, NEW e \in Received, Recent(r, e)
    PROVE  Recent(r, e)'
<1>1. PICK f \in Events : r \in passed[f] /\ basis[f] < basis[e] /\ basis[f] + Window >= basis[e]
  BY DEF Recent
<1>2. f \in Received /\ decision[f] # "none"
  BY <1>1, PassedIsReceived
<1>3. passed'[f] = passed[f]
  BY <1>2, DecisionSealed
<1>4. basis'[f] = basis[f] /\ basis'[e] = basis[e]
  BY <1>2, PlaceKept DEF IInv
<1> QED
  BY <1>1, <1>3, <1>4 DEF Recent

-----------------------------------------------------------------------------
(* The rows.                                                               *)

LEMMA EventKeepsRows ==
    ASSUME IInv, NEW e \in Events, IngestOperationalEvent(e) \/ BecomesDue(e) \/ LeaseLapses(e),
           NEW k \in Events
    PROVE  Row(k)'
<1> USE RowIsPlain
<1>1. CASE IngestOperationalEvent(e)
  <2>1. Cardinality(Received) + 1 \in 1 .. Cardinality(Events)
    BY <1>1, PlaceLeft DEF IngestOperationalEvent
  <2>2. Cardinality(Received) + 1 # 0
    BY <2>1, PlanningAssumption, FS_CardinalityType
  <2>3. basis[e] = 0
    BY <1>1, PlanningAssumption, FS_CardinalityType DEF IngestOperationalEvent, Received, IInv, TypeOK
  <2>4. CASE k = e
    BY <1>1, <2>2, <2>3, <2>4 DEF IngestOperationalEvent, Row, IInv, TypeOK, evidence
  <2>5. CASE k # e
    BY <1>1, <2>5 DEF IngestOperationalEvent, Row, IInv, TypeOK, evidence
  <2> QED
    BY <2>4, <2>5
<1>2. CASE BecomesDue(e) \/ LeaseLapses(e)
  BY <1>2 DEF BecomesDue, LeaseLapses, Row, processing, evidence
<1> QED
  BY <1>1, <1>2

LEMMA PlannerKeepsRows ==
    ASSUME IInv, NEW w \in Workers, Plan(w) \/ PlannerDies(w), NEW k \in Events
    PROVE  Row(k)'
<1>0. Row(k) /\ TypeOK /\ PlannerKnows(w)
  BY RowIsPlain DEF IInv
<1>1. CASE ClaimPlanningItems(w)
  BY <1>0, <1>1 DEF ClaimPlanningItems, Claimable, Swept, Row, evidence
<1>2. CASE BeginPlanningAttempt(w)
  BY <1>0, <1>2 DEF BeginPlanningAttempt, Row, evidence
<1>3. CASE Decide(w) \/ (\E r \in Rules : EvaluateRule(w, r)) \/ CommitRolledBack(w) \/ PlannerDies(w)
  BY <1>0, <1>3 DEF Decide, EvaluateRule, CommitRolledBack, PlannerDies, Row, processing, evidence
<1>4. CASE CommitDecision(w)
  <2>1. job[w] \in Events /\ basis[job[w]] > 0 /\ plan[w].outcome \in Outcomes
    BY <1>0, <1>4, Busy DEF CommitDecision, PlannerKnows
  <2>2. CASE k = job[w]
    <3>1. /\ owner'[k] = NoOne /\ basis'[k] = basis[k] /\ basis[k] # 0
          /\ decision'[k] = plan[w].outcome
          /\ state'[k] = IF plan[w].outcome = "SUPPRESSED" THEN "SUPPRESSED" ELSE "PLANNED"
      <4>1. basis[k] # 0
        BY <1>0, <1>4, <2>2 DEF CommitDecision, CommitAllowed, Owns, Row
      <4> QED
        BY <1>0, <1>4, <2>1, <2>2, <4>1 DEF CommitDecision, TypeOK
    <3> QED
      BY <2>1, <3>1 DEF Row
  <2>3. CASE k # job[w]
    BY <1>0, <1>4, <2>3 DEF CommitDecision, Row, TypeOK
  <2> QED
    BY <2>2, <2>3
<1>5. CASE FailEventPlanning(w)
  <2>1. CASE k = job[w] /\ OwnRow(w)
    <3>1. owner[k] = w /\ w # NoOne
      BY <2>1, PlanningAssumption DEF OwnRow
    <3>2. state[k] = "PLANNING"
      BY <1>0, <3>1 DEF Row
    <3>3. owner'[k] = NoOne /\ state'[k] = "FAILED" /\ UNCHANGED <<basis, evidence>>
      BY <1>0, <1>5, <2>1 DEF FailEventPlanning, TypeOK
    <3> QED
      BY <1>0, <3>2, <3>3 DEF Row, evidence
  <2>2. CASE ~(k = job[w] /\ OwnRow(w))
    BY <1>0, <1>5, <2>2 DEF FailEventPlanning, Row, TypeOK, evidence
  <2> QED
    BY <2>1, <2>2
<1> QED
  BY <1>1, <1>2, <1>3, <1>4, <1>5 DEF Plan

LEMMA RowsKept == ASSUME IInv, [Next]_vars PROVE RowsAgree' /\ DecidedIsPlanned'
<1>1. CASE \E e \in Events : IngestOperationalEvent(e) \/ BecomesDue(e) \/ LeaseLapses(e)
  <2>1. \A k \in Events : Row(k)'
    BY <1>1, EventKeepsRows
  <2> QED
    BY <2>1 DEF Row, RowsAgree, DecidedIsPlanned
<1>2. CASE \E w \in Workers : Plan(w) \/ PlannerDies(w)
  <2>1. \A k \in Events : Row(k)'
    BY <1>2, PlannerKeepsRows
  <2> QED
    BY <2>1 DEF Row, RowsAgree, DecidedIsPlanned
<1>3. CASE UNCHANGED vars
  BY <1>3 DEF IInv, RowsAgree, DecidedIsPlanned, vars, processing, evidence
<1> QED
  BY <1>1, <1>2, <1>3 DEF Next

-----------------------------------------------------------------------------
(* What a planner knows.                                                   *)

\* A planner that an action leaves alone knows what it knew.
LEMMA PlannerKept ==
    ASSUME IInv, [Next]_vars, NEW v \in Workers, todo'[v] \subseteq Received \/ todo'[v] \subseteq todo[v],
           at'[v] = at[v], job'[v] = job[v], plan'[v] = plan[v]
    PROVE  PlannerKnows(v)'
<1>0. PlannerKnows(v)
  BY DEF IInv
<1>1. todo'[v] \subseteq Received'
  BY <1>0, PlaceKept DEF PlannerKnows, IInv
<1>2. at[v] # "idle" => job[v] \in Received'
  BY <1>0, PlaceKept DEF PlannerKnows, IInv
<1>3. ASSUME at[v] \in {"read", "commit"}, NEW r \in Rules \ (plan[v].unread \cup plan[v].passes)
      PROVE  Recent(r, job[v])'
  <2>1. Recent(r, job[v]) /\ job[v] \in Received
    BY <1>0, <1>3 DEF PlannerKnows, CausesFound
  <2>2. PICK e \in Received : e = job[v]
    BY <2>1
  <2>3. Recent(r, e)'
    BY <2>1, <2>2, RecentKept
  <2> QED
    BY <2>2, <2>3 DEF Recent
<1>4. at'[v] \in {"read", "commit"} => CausesFound(v)'
  BY <1>3 DEF CausesFound, Recent
<1>5. at'[v] = "commit" =>
        /\ plan'[v].outcome \in Outcomes
        /\ plan'[v].outcome = "SUPPRESSED" => plan'[v].unread = {} /\ Suppressed(v)'
  BY <1>0 DEF PlannerKnows, Suppressed, Failing
<1> QED
  BY <1>1, <1>2, <1>4, <1>5 DEF PlannerKnows

\* A planner without an event has nothing to know but what it claimed.
LEMMA IdlePlannerKnows ==
    ASSUME IInv, [Next]_vars, NEW w \in Workers, at'[w] \in {"idle", "fail"},
           todo'[w] \subseteq todo[w], at'[w] = "fail" => at[w] # "idle" /\ job'[w] = job[w]
    PROVE  PlannerKnows(w)'
<1>0. PlannerKnows(w)
  BY DEF IInv
<1>1. todo'[w] \subseteq Received'
  BY <1>0, PlaceKept DEF PlannerKnows, IInv
<1>2. at'[w] # "idle" => job'[w] \in Received'
  BY <1>0, PlaceKept DEF PlannerKnows, IInv
<1> QED
  BY <1>1, <1>2 DEF PlannerKnows

LEMMA ClaimedAreReceived == ASSUME IInv, NEW e \in Claimable PROVE e \in Received
<1>1. state[e] # "none" /\ e \in Events
  BY DEF Claimable, Swept
<1>2. basis[e] # 0
  BY <1>1, RowIsPlain DEF Row
<1> QED
  BY <1>1, <1>2, PlanningAssumption, FS_CardinalityType DEF Received, IInv, TypeOK

\* Evaluating a rule leaves it with a cause, or passed.
LEMMA EvaluationKnows ==
    ASSUME IInv, [Next]_vars, NEW w \in Workers, NEW r \in Rules, EvaluateRule(w, r)
    PROVE  PlannerKnows(w)'
<1>0. TypeOK /\ PlannerKnows(w) /\ plan[w] \in Plans
  BY PlansTyped DEF IInv
<1>1. /\ at[w] = "read" /\ at'[w] = "read" /\ job'[w] = job[w] /\ todo'[w] = todo[w]
      /\ plan'[w] = [plan[w] EXCEPT !.unread = @ \ {r},
                        !.passes = IF Recent(r, job[w]) THEN @ ELSE @ \cup {r}]
  BY <1>0 DEF EvaluateRule, Goes, TypeOK
<1>2. /\ plan'[w].unread = plan[w].unread \ {r}
      /\ plan'[w].passes = IF Recent(r, job[w]) THEN plan[w].passes ELSE plan[w].passes \cup {r}
  BY <1>0, <1>1 DEF Plans
<1>3. job[w] \in Received /\ CausesFound(w)
  BY <1>0, <1>1 DEF PlannerKnows
<1>4. ASSUME NEW q \in Rules \ (plan'[w].unread \cup plan'[w].passes) PROVE Recent(q, job[w])'
  <2>1. Recent(q, job[w])
    BY <1>2, <1>3 DEF CausesFound
  <2>2. PICK e \in Received : e = job[w]
    BY <1>3
  <2>3. Recent(q, e)'
    BY <2>1, <2>2, RecentKept
  <2> QED
    BY <1>1, <2>2, <2>3 DEF Recent
<1>5. CausesFound(w)'
  BY <1>1, <1>4 DEF CausesFound, Recent
<1>6. todo'[w] \subseteq Received' /\ job'[w] \in Received'
  BY <1>0, <1>1, <1>3, PlaceKept DEF PlannerKnows
<1> QED
  BY <1>1, <1>5, <1>6 DEF PlannerKnows

LEMMA DecisionKnows ==
    ASSUME IInv, [Next]_vars, NEW w \in Workers, Decide(w)
    PROVE  PlannerKnows(w)'
<1>0. TypeOK /\ PlannerKnows(w) /\ plan[w] \in Plans
  BY PlansTyped DEF IInv
<1>1. todo'[w] = todo[w] /\ at[w] = "read"
  BY <1>0 DEF Decide, TypeOK
<1>2. CASE \E again \in BOOLEAN : Goes(w, "fail", job[w], number[w], [NoPlan EXCEPT !.retryable = again])
  <2>1. at'[w] = "fail" /\ job'[w] = job[w]
    BY <1>0, <1>2 DEF Goes, TypeOK
  <2> QED
    BY <1>1, <2>1, IdlePlannerKnows
<1>3. ASSUME NEW o \in Outcomes, o = "SUPPRESSED" => plan[w].unread = {} /\ Suppressed(w),
             Goes(w, "commit", job[w], number[w], [plan[w] EXCEPT !.outcome = o])
      PROVE  PlannerKnows(w)'
  <2>1. /\ at'[w] = "commit" /\ job'[w] = job[w]
        /\ plan'[w] = [plan[w] EXCEPT !.outcome = o]
    BY <1>0, <1>3 DEF Goes, TypeOK
  <2>2. plan'[w].unread = plan[w].unread /\ plan'[w].passes = plan[w].passes /\ plan'[w].outcome = o
    BY <1>0, <2>1 DEF Plans
  <2>3. job[w] \in Received /\ CausesFound(w)
    BY <1>0, <1>1 DEF PlannerKnows
  <2>4. ASSUME NEW q \in Rules \ (plan[w].unread \cup plan[w].passes) PROVE Recent(q, job[w])'
    <3>1. PICK e \in Received : e = job[w] /\ Recent(q, e)
      BY <2>3 DEF CausesFound
    <3>2. Recent(q, e)'
      BY <3>1, RecentKept
    <3> QED
      BY <2>1, <3>1, <3>2 DEF Recent
  <2>5. CausesFound(w)'
    BY <2>1, <2>2, <2>4 DEF CausesFound, Recent
  <2>6. Suppressed(w)' <=> Suppressed(w)
    BY <2>2 DEF Suppressed, Failing
  <2>7. todo'[w] \subseteq Received' /\ job'[w] \in Received'
    BY <1>0, <1>1, <2>1, <2>3, PlaceKept DEF PlannerKnows
  <2> QED
    BY <1>3, <2>1, <2>2, <2>5, <2>6, <2>7 DEF PlannerKnows
<1>4. \/ \E again \in BOOLEAN : Goes(w, "fail", job[w], number[w], [NoPlan EXCEPT !.retryable = again])
      \/ \E o \in Outcomes :
            /\ o = "SUPPRESSED" => plan[w].unread = {} /\ Suppressed(w)
            /\ Goes(w, "commit", job[w], number[w], [plan[w] EXCEPT !.outcome = o])
  BY DEF Decide
<1> QED
  BY <1>2, <1>3, <1>4

LEMMA OwnPlanKnows ==
    ASSUME IInv, [Next]_vars, NEW w \in Workers, Plan(w) \/ PlannerDies(w)
    PROVE  PlannerKnows(w)'
<1>0. TypeOK
  BY DEF IInv
<1>1. CASE ClaimPlanningItems(w)
  <2>1. todo'[w] \subseteq Claimable
    BY <1>0, <1>1 DEF ClaimPlanningItems, TypeOK
  <2>2. todo'[w] \subseteq Received
    BY <2>1, ClaimedAreReceived
  <2> QED
    BY <1>1, <2>2, PlannerKept DEF ClaimPlanningItems
<1>2. CASE BeginPlanningAttempt(w)
  <2>1. PICK e \in todo[w] :
          /\ todo' = [todo EXCEPT ![w] = @ \ {e}]
          /\ \/ Goes(w, "read", e, CountUp(attempts[e]), NoPlan)
             \/ UNCHANGED <<attempts, at, job, number, plan>>
    BY <1>2 DEF BeginPlanningAttempt
  <2>2. e \in Received /\ todo'[w] \subseteq todo[w] /\ todo[w] \subseteq Received
    BY <1>0, <2>1 DEF IInv, PlannerKnows, TypeOK
  <2>3. CASE Goes(w, "read", e, CountUp(attempts[e]), NoPlan)
    <3>1. at'[w] = "read" /\ job'[w] = e /\ plan'[w] = NoPlan
      BY <1>0, <2>3 DEF Goes, TypeOK
    <3>2. plan'[w].unread = Rules
      BY <3>1 DEF NoPlan
    <3>3. CausesFound(w)'
      BY <3>2 DEF CausesFound
    <3>4. todo'[w] \subseteq Received' /\ e \in Received'
      BY <1>0, <2>2, PlaceKept
    <3> QED
      BY <3>1, <3>3, <3>4 DEF PlannerKnows
  <2>4. CASE UNCHANGED <<attempts, at, job, number, plan>>
    BY <2>2, <2>4, PlannerKept
  <2> QED
    BY <2>1, <2>3, <2>4
<1>3. CASE Decide(w) \/ \E r \in Rules : EvaluateRule(w, r)
  BY <1>3, DecisionKnows, EvaluationKnows
<1>4. CASE CommitDecision(w) \/ FailEventPlanning(w)
  <2>1. at'[w] = "idle" /\ todo'[w] = todo[w]
    BY <1>0, <1>4 DEF CommitDecision, FailEventPlanning, Idle, Goes, TypeOK
  <2> QED
    BY <2>1, IdlePlannerKnows
<1>5. CASE CommitRolledBack(w)
  <2>1. at'[w] = "fail" /\ job'[w] = job[w] /\ todo'[w] = todo[w] /\ at[w] = "commit"
    BY <1>0, <1>5 DEF CommitRolledBack, Goes, TypeOK
  <2> QED
    BY <2>1, IdlePlannerKnows
<1>6. CASE PlannerDies(w)
  <2>1. at'[w] = "idle" /\ todo'[w] = {}
    BY <1>0, <1>6 DEF PlannerDies, Goes, TypeOK
  <2> QED
    BY <2>1, IdlePlannerKnows
<1> QED
  BY <1>1, <1>2, <1>3, <1>4, <1>5, <1>6 DEF Plan

LEMMA PlannersKnow == ASSUME IInv, [Next]_vars, NEW v \in Workers PROVE PlannerKnows(v)'
<1>0. TypeOK
  BY DEF IInv
<1>1. CASE UNCHANGED planner
  BY <1>1, PlannerKept DEF planner
<1>2. ASSUME NEW w \in Workers, Plan(w) \/ PlannerDies(w), v # w PROVE PlannerKnows(v)'
  <2>1. todo'[v] = todo[v] /\ at'[v] = at[v] /\ job'[v] = job[v] /\ plan'[v] = plan[v]
    BY <1>0, <1>2, ZenonT(40) DEF Plan, ClaimPlanningItems, BeginPlanningAttempt, EvaluateRule, Decide, CommitDecision,
        CommitRolledBack, FailEventPlanning, PlannerDies, Idle, Goes, TypeOK
  <2> QED
    BY <2>1, PlannerKept
<1>3. UNCHANGED planner \/ \E w \in Workers : Plan(w) \/ PlannerDies(w)
  BY DEF Next, vars, IngestOperationalEvent, BecomesDue, LeaseLapses
<1> QED
  BY <1>1, <1>2, <1>3, OwnPlanKnows

-----------------------------------------------------------------------------
(* Suppression.                                                            *)

\* An event that the step suppresses was committed with a cause for it.
LEMMA CauseCommitted ==
    ASSUME IInv, [Next]_vars, NEW w \in Workers, CommitDecision(w), plan[w].outcome = "SUPPRESSED",
           NEW e \in Events, e = job[w]
    PROVE  \E r \in Rules \ passed'[e] : Scope[r] = Everything /\ Recent(r, e)'
<1>0. TypeOK /\ PlannerKnows(w) /\ at[w] = "commit"
  BY DEF IInv, CommitDecision
<1>1. job[w] \in Received /\ plan[w].unread = {} /\ CausesFound(w) /\ Suppressed(w)
  BY <1>0 DEF PlannerKnows
<1>2. passed'[job[w]] = plan[w].passes
  BY <1>0, <1>1 DEF CommitDecision, Logged, Received, TypeOK
<1>3. PICK r \in Rules \ plan[w].passes : Scope[r] = Everything
  BY <1>1 DEF Suppressed, Failing
<1>4. e \in Received /\ Recent(r, e)
  BY <1>1, <1>3 DEF CausesFound
<1>5. Recent(r, e)'
  BY <1>3, <1>4, RecentKept
<1> QED
  BY <1>2, <1>3, <1>5

LEMMA CausesStay == ASSUME IInv, [Next]_vars PROVE SuppressionHasCause'
<1>0. TypeOK
  BY DEF IInv
<1>1. SUFFICES ASSUME NEW e \in Events, decision'[e] = "SUPPRESSED"
               PROVE  \E r \in Rules \ passed'[e] : Scope[r] = Everything /\ Recent(r, e)'
  <2>1. \A e \in Events : decision'[e] = "SUPPRESSED" =>
            \E r \in Rules \ passed'[e] : Scope[r] = Everything /\ Recent(r, e)'
    BY <1>1
  <2>2. RowsAgree' /\ TypeOK' /\ DecidedIsPlanned'
    BY RowsKept, NextTyped DEF IInv
  <2>3. \A f \in Events : passed'[f] # {} => f \in Received'
    <3> SUFFICES ASSUME NEW f \in Events, passed'[f] # {} PROVE f \in Received'
      OBVIOUS
    <3>1. basis'[f] # 0
      BY <2>2 DEF RowsAgree, DecidedIsPlanned
    <3>2. basis'[f] \in Nat
      BY <2>2, PlanningAssumption, FS_CardinalityType DEF TypeOK
    <3> QED
      BY <3>1, <3>2 DEF Received
  <2> QED
    BY <2>1, <2>3 DEF SuppressionHasCause, Recent
<1>2. CASE decision[e] # "none"
  <2>1. decision[e] = "SUPPRESSED" /\ passed'[e] = passed[e]
    BY <1>1, <1>2, DecisionSealed
  <2>2. PICK r \in Rules \ passed[e] : Scope[r] = Everything /\ Recent(r, e)
    BY <2>1 DEF IInv, SuppressionHasCause, Recent, Received
  <2>3. e \in Received
    <3>1. basis[e] # 0
      BY <2>1, RowIsPlain DEF Row
    <3> QED
      BY <1>0, <3>1, PlanningAssumption, FS_CardinalityType DEF Received, TypeOK
  <2>4. Recent(r, e)'
    BY <2>2, <2>3, RecentKept
  <2> QED
    BY <2>1, <2>2, <2>4
<1>3. CASE decision[e] = "none"
  <2>1. PICK w \in Workers : CommitDecision(w)
    BY <1>1, <1>3 DEF Next, Plan, IngestOperationalEvent, BecomesDue, LeaseLapses, ClaimPlanningItems,
         BeginPlanningAttempt, EvaluateRule, Decide, CommitRolledBack, FailEventPlanning, PlannerDies,
         vars, evidence
  <2>2. e = job[w] /\ plan[w].outcome = "SUPPRESSED"
    BY <1>0, <1>1, <1>3, <2>1 DEF CommitDecision, TypeOK
  <2> QED
    BY <2>1, <2>2, CauseCommitted
<1> QED
  BY <1>2, <1>3

-----------------------------------------------------------------------------
(* The theorems.                                                           *)

LEMMA InitKnows == Init => IInv
<1> SUFFICES ASSUME Init PROVE IInv
  OBVIOUS
<1>1. TypeOK
  BY InitTyped
<1>2. RowsAgree /\ DecidedIsPlanned /\ SuppressionHasCause /\ \A w \in Workers : PlannerKnows(w)
  BY DEF Init, RowsAgree, DecidedIsPlanned, SuppressionHasCause, PlannerKnows
<1> QED
  BY <1>1, <1>2 DEF IInv

\* Every reachable state has the invariant, however leases lapse under busy planners.
THEOREM Inductive == Spec => []IInv
<1>1. IInv /\ [Next]_vars => IInv'
  BY NextTyped, RowsKept, PlannersKnow, CausesStay DEF IInv
<1> QED
  BY <1>1, InitKnows, PTL DEF Spec

\* The rows of the event queue and the planners keep the values of their columns.
THEOREM TypeCorrect == Spec => []TypeOK
<1>1. IInv => TypeOK
  BY DEF IInv
<1> QED
  BY <1>1, Inductive, PTL

\* An event has a decision exactly when it left planning, however late a planner
\* whose lease went to another commits or fails it.
THEOREM DecidedOnlyOnce == Spec => []DecidedIsPlanned
<1>1. IInv => DecidedIsPlanned
  BY DEF IInv
<1> QED
  BY <1>1, Inductive, PTL

\* A suppressed event has an earlier one in its window that the suppressing rule
\* let through, although the rules were read before the decision was committed.
THEOREM SuppressedForACause == Spec => []SuppressionHasCause
<1>1. IInv => SuppressionHasCause
  BY DEF IInv
<1> QED
  BY <1>1, Inductive, PTL

\* What was decided of an event, and the rules it passed, are never written again:
\* nothing that a later suppression rests on is taken back.
THEOREM DecisionIsFinal ==
    Spec => [][\A e \in Events : decision[e] # "none" => decision'[e] = decision[e] /\ passed'[e] = passed[e]]_vars
<1>1. IInv /\ [Next]_vars =>
        [\A e \in Events : decision[e] # "none" => decision'[e] = decision[e] /\ passed'[e] = passed[e]]_vars
  BY DecisionSealed
<1> QED
  BY <1>1, Inductive, PTL DEF Spec

=============================================================================
