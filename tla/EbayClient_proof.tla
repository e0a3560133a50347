-------------------------- MODULE EbayClient_proof --------------------------
(***************************************************************************)
(* Proofs about EbayClient and the limiter under it, for any number of     *)
(* requests, slots, places in the queue and retries.                       *)
(*                                                                         *)
(* A slot that leaks, a task that is started twice and a request that      *)
(* waits for a refresh nobody runs have one cause each, but they are       *)
(* excluded together: the pump may start what it finds in the queue only   *)
(* because nothing in the queue runs already, and that rests on where the  *)
(* requests and the refresh are.                                           *)
(***************************************************************************)
EXTENDS EbayClient, FiniteSetTheorems, SequenceTheorems, TLAPS

Distinct(q) == \A i, j \in 1 .. Len(q) : q[i] = q[j] => i = j

\* What waits in a queue, and the first k of it.
Members(q) == {q[i] : i \in 1 .. Len(q)}
First(q, k) == {q[i] : i \in 1 .. k}

\* The limiter by itself.
LimiterOK ==
    /\ queue \in Seq(Tasks) /\ Len(queue) <= MaxQueue /\ Distinct(queue)
    /\ running \subseteq Tasks /\ IsFiniteSet(running) /\ Members(queue) \cap running = {}
    /\ active \in 0 .. MaxConcurrent /\ active = Cardinality(running)
    /\ since \in 0 .. MinTime /\ pump \in 0 .. MinTime \cup {NoPump}
    /\ NoLostWakeup

\* What is in the limiter, waiting or running.
Inside == Members(queue) \cup running

\* The requests, and what each of them and the refresh has in the limiter.
ClientOK ==
    /\ stored \in Nat /\ aged \in 0 .. (stored + 1) /\ cached \in Nat \cup {NoToken} /\ inFlight \in BOOLEAN
    /\ place \in [Callers -> {"new", "load", "loaded", "await", "ready", "call", "done", "failed"}]
    /\ token \in [Callers -> Nat \cup {NoToken}] /\ attempt \in [Callers -> 0 .. MaxRetries]
    /\ \A c \in Callers : c \in Inside <=> place[c] = "call"
    /\ inFlight <=> Refresh \in Inside
    /\ \A c \in Callers : place[c] = "await" => inFlight

IInv == LimiterOK /\ ClientOK

-----------------------------------------------------------------------------
(* Queues.                                                                 *)

LEMMA AppendMembers ==
    ASSUME NEW S, NEW q \in Seq(S), NEW t \in S, Distinct(q), t \notin Members(q)
    PROVE  /\ Append(q, t) \in Seq(S) /\ Len(Append(q, t)) = Len(q) + 1
           /\ Members(Append(q, t)) = Members(q) \cup {t}
           /\ Distinct(Append(q, t))
<1> DEFINE p == Append(q, t)
<1>1. /\ p \in Seq(S) /\ Len(q) \in Nat /\ Len(p) = Len(q) + 1
      /\ \A i \in 1 .. Len(q) : p[i] = q[i]
      /\ p[Len(q) + 1] = t
  BY AppendProperties, LenProperties
<1> HIDE DEF p
<1>2. Members(p) = Members(q) \cup {t}
  BY <1>1 DEF Members
<1>3. Distinct(p)
  BY <1>1 DEF Distinct, Members
<1> QED
  BY <1>1, <1>2, <1>3 DEF p

LEMMA DropFirst ==
    ASSUME NEW S, NEW q \in Seq(S), NEW k \in 0 .. Len(q), Distinct(q)
    PROVE  LET p == SubSeq(q, k + 1, Len(q)) IN
           /\ p \in Seq(S) /\ Len(p) = Len(q) - k
           /\ Members(q) = First(q, k) \cup Members(p)
           /\ First(q, k) \cap Members(p) = {}
           /\ Distinct(p)
<1> DEFINE p == SubSeq(q, k + 1, Len(q))
<1>1. /\ Len(q) \in Nat /\ \A i \in 1 .. Len(q) : q[i] \in S
  BY LenProperties, ElementOfSeq
<1>2. /\ p \in Seq(S) /\ Len(p) = Len(q) - k
      /\ \A i \in 1 .. Len(p) : p[i] = q[k + i]
  <2>1. \A i \in k + 1 .. Len(q) : q[i] \in S
    BY <1>1
  <2>2. /\ p \in Seq(S) /\ Len(p) = IF k + 1 <= Len(q) THEN Len(q) - (k + 1) + 1 ELSE 0
        /\ \A i \in 1 .. Len(q) - (k + 1) + 1 : p[i] = q[k + 1 + i - 1]
    BY <1>1, <2>1, SubSeqProperties
  <2> HIDE DEF p
  <2>3. Len(p) = Len(q) - k
    BY <1>1, <2>2
  <2> QED
    BY <1>1, <2>2, <2>3
<1> HIDE DEF p
<1>3. Distinct(p)
  BY <1>1, <1>2 DEF Distinct
<1>4. First(q, k) \cap Members(p) = {}
  <2> SUFFICES ASSUME NEW i \in 1 .. k, NEW j \in 1 .. Len(p), q[i] = p[j] PROVE FALSE
    BY DEF First, Members
  <2>1. i \in 1 .. Len(q) /\ k + j \in 1 .. Len(q) /\ i # k + j /\ q[i] = q[k + j]
    BY <1>1, <1>2
  <2> QED
    BY <2>1 DEF Distinct
<1>5. Members(q) = First(q, k) \cup Members(p)
  <2>1. ASSUME NEW i \in 1 .. Len(q) PROVE q[i] \in First(q, k) \cup Members(p)
    <3>1. CASE i <= k
      BY <1>1, <3>1 DEF First
    <3>2. CASE i > k
      <4>1. i - k \in 1 .. Len(p) /\ p[i - k] = q[i]
        BY <1>1, <1>2, <3>2
      <4> QED
        BY <4>1 DEF Members
    <3> QED
      BY <1>1, <3>1, <3>2
  <2>2. First(q, k) \subseteq Members(q)
    BY <1>1 DEF First, Members
  <2>3. Members(p) \subseteq Members(q)
    BY <1>1, <1>2 DEF Members
  <2> QED
    BY <2>1, <2>2, <2>3 DEF Members
<1> QED
  BY <1>2, <1>3, <1>4, <1>5 DEF p

\* The first k of a queue without repetition are k.
LEMMA FirstCounts ==
    ASSUME NEW S, NEW q \in Seq(S), NEW k \in 0 .. Len(q), Distinct(q)
    PROVE  IsFiniteSet(First(q, k)) /\ Cardinality(First(q, k)) = k
<1>0. k \in Nat /\ Len(q) \in Nat
  BY LenProperties
<1> DEFINE f == [i \in 1 .. k |-> q[i]]
<1>1. f \in Bijection(1 .. k, First(q, k))
  BY <1>0 DEF Bijection, Injection, IsInjective, Surjection, First, Distinct
<1>2. ExistsBijection(1 .. k, First(q, k))
  BY <1>1 DEF ExistsBijection
<1> QED
  BY <1>0, <1>2, FS_NatBijection, FS_CountingElements

-----------------------------------------------------------------------------
(* The limiter.                                                            *)

LEMMA ScheduleKeepsLimiter ==
    ASSUME LimiterOK, NEW t \in Tasks \ Inside, Schedule(t)
    PROVE  LimiterOK' /\ Inside' = Inside \cup {t}
<1>1. /\ queue' = Append(queue, t) /\ queue' \in Seq(Tasks) /\ Len(queue') = Len(queue) + 1
      /\ Members(queue)' = Members(queue) \cup {t} /\ Distinct(queue')
  BY AppendMembers DEF Schedule, LimiterOK, Inside, Members
<1>2. Len(queue) \in Nat /\ Len(queue) < MaxQueue
  BY LenProperties, LimiterAssumption DEF Schedule, Full, LimiterOK
<1>3. pump' \in 0 .. MinTime /\ pump' # NoPump /\ UNCHANGED <<running, active, since>>
  BY LimiterAssumption DEF Schedule, SchedulePump, LimiterOK
<1>4. Len(queue') <= MaxQueue
  BY <1>1, <1>2, LimiterAssumption
<1>5. NoLostWakeup'
  BY <1>3 DEF NoLostWakeup
<1> QED
  BY <1>1, <1>3, <1>4, <1>5 DEF LimiterOK, Inside

\* The pump moves tasks from the queue to the slots, never more than fit.
LEMMA PumpKeepsLimiter ==
    ASSUME LimiterOK, Pump
    PROVE  LimiterOK' /\ Inside' = Inside
<1> DEFINE k == Startable
<1>1. /\ Len(queue) \in Nat /\ active \in 0 .. MaxConcurrent /\ since \in 0 .. MinTime
      /\ MaxConcurrent \in Nat \ {0} /\ MinTime \in Nat /\ NoPump \notin Nat /\ MaxQueue \in Nat
  BY LenProperties, LimiterAssumption DEF LimiterOK
<1>2. k \in 0 .. Len(queue) /\ active + k <= MaxConcurrent
  BY <1>1 DEF Startable, Least
<1> HIDE DEF k
<1>3. /\ queue' = SubSeq(queue, k + 1, Len(queue))
      /\ running' = running \cup First(queue, k)
      /\ active' = active + k
      /\ since' = IF k > 0 THEN 0 ELSE since
      /\ pump' = Rearm(queue', active', since')
  BY DEF Pump, First, k
<1>4. /\ queue' \in Seq(Tasks) /\ Len(queue') = Len(queue) - k
      /\ Members(queue) = First(queue, k) \cup Members(queue')
      /\ First(queue, k) \cap Members(queue') = {}
      /\ Distinct(queue')
  BY <1>2, <1>3, DropFirst DEF LimiterOK
<1>5. IsFiniteSet(First(queue, k)) /\ Cardinality(First(queue, k)) = k
  BY <1>2, FirstCounts DEF LimiterOK
<1>6. running \cap First(queue, k) = {}
  BY <1>4 DEF LimiterOK
<1>7. IsFiniteSet(running') /\ Cardinality(running') = active'
  <2>1. /\ IsFiniteSet(running \cup First(queue, k))
        /\ Cardinality(running \cup First(queue, k)) =
             Cardinality(running) + Cardinality(First(queue, k)) - Cardinality(running \cap First(queue, k))
    BY <1>5, FS_Union DEF LimiterOK
  <2>2. Cardinality(running \cap First(queue, k)) = 0
    BY <1>6, FS_EmptySet
  <2>3. Cardinality(running) = active
    BY DEF LimiterOK
  <2> QED
    BY <1>1, <1>2, <1>3, <1>5, <2>1, <2>2, <2>3
<1>8. /\ Members(queue') \cap running' = {} /\ running' \subseteq Tasks
      /\ Members(queue') \cup running' = Members(queue) \cup running
  <2>1. Members(queue) \subseteq Tasks
    BY ElementOfSeq DEF Members, LimiterOK
  <2> QED
    BY <1>3, <1>4, <2>1 DEF LimiterOK
<1>9. active' \in 0 .. MaxConcurrent /\ since' \in 0 .. MinTime /\ Len(queue') <= MaxQueue
  BY <1>1, <1>2, <1>3, <1>4 DEF LimiterOK
<1>10. pump' \in 0 .. MinTime \cup {NoPump} /\ NoLostWakeup'
  BY <1>1, <1>3, <1>9 DEF Rearm, NoLostWakeup
<1> QED
  BY <1>4, <1>7, <1>8, <1>9, <1>10 DEF LimiterOK, Inside, Members

LEMMA ReleaseKeepsLimiter ==
    ASSUME LimiterOK, NEW t \in running, Release(t)
    PROVE  LimiterOK' /\ Inside' = Inside \ {t}
<1>1. /\ running' = running \ {t} /\ active' = active - 1 /\ UNCHANGED <<queue, since>>
      /\ pump' \in 0 .. MinTime /\ pump' # NoPump
  BY LimiterAssumption DEF Release, SchedulePump, LimiterOK
<1>2. IsFiniteSet(running') /\ Cardinality(running') = Cardinality(running) - 1 /\ Cardinality(running') \in Nat
  BY <1>1, FS_RemoveElement, FS_CardinalityType DEF LimiterOK
<1>3. active' \in 0 .. MaxConcurrent /\ active' = Cardinality(running')
  BY <1>1, <1>2, LimiterAssumption DEF LimiterOK
<1>4. NoLostWakeup'
  BY <1>1 DEF NoLostWakeup
<1>5. t \notin Members(queue)
  BY DEF LimiterOK
<1> QED
  BY <1>1, <1>2, <1>3, <1>4, <1>5 DEF LimiterOK, Inside

LEMMA TickKeepsLimiter ==
    ASSUME LimiterOK, Tick
    PROVE  LimiterOK' /\ Inside' = Inside
<1>1. /\ UNCHANGED <<queue, running, active>>
      /\ since' \in 0 .. MinTime /\ pump' \in 0 .. MinTime \cup {NoPump}
      /\ pump' = NoPump => pump = NoPump
  BY LimiterAssumption DEF Tick, LimiterOK
<1>2. NoLostWakeup'
  BY <1>1 DEF LimiterOK, NoLostWakeup
<1> QED
  BY <1>1, <1>2 DEF LimiterOK, Inside

LEMMA StillLimiter ==
    ASSUME LimiterOK, UNCHANGED limiter
    PROVE  LimiterOK' /\ Inside' = Inside
BY DEF LimiterOK, NoLostWakeup, Inside, limiter

-----------------------------------------------------------------------------
(* The requests.                                                           *)

LEMMA TokenKeeps ==
    ASSUME IInv, NEW c \in Callers, FromCache(c) \/ FromStore(c)
    PROVE  IInv'
<1>1. LimiterOK' /\ Inside' = Inside
  BY StillLimiter DEF FromCache, FromStore, IInv
<1>2. /\ UNCHANGED <<stored, aged, cached, inFlight, attempt>>
      /\ place[c] \in {"new", "load"}
      /\ \E p \in {"ready", "load", "loaded", "failed"}, t \in Nat \cup {NoToken} : Goes(c, p, t)
  BY DEF FromCache, FromStore, tokens, IInv, ClientOK
<1>3. ClientOK'
  BY <1>1, <1>2 DEF Goes, IInv, ClientOK
<1> QED
  BY <1>1, <1>3 DEF IInv

LEMMA UseTokenKeeps ==
    ASSUME IInv, NEW c \in Callers, UseToken(c)
    PROVE  IInv'
<1>0. Refresh \in Tasks /\ Refresh \notin Callers /\ Callers \subseteq Tasks
  BY ClientAssumption
<1>1. CASE Goes(c, "ready", token[c]) /\ cached' = token[c] /\ UNCHANGED <<limiter, inFlight>>
  <2>1. LimiterOK' /\ Inside' = Inside
    BY <1>1, StillLimiter DEF IInv
  <2> QED
    BY <1>1, <2>1 DEF UseToken, Goes, IInv, ClientOK
<1>2. CASE Joins /\ Goes(c, "await", NoToken) /\ UNCHANGED <<limiter, cached, inFlight>>
  <2>1. LimiterOK' /\ Inside' = Inside
    BY <1>2, StillLimiter DEF IInv
  <2> QED
    BY <1>2, <2>1 DEF UseToken, Joins, Goes, IInv, ClientOK
<1>3. CASE ~Joins /\ Schedule(Refresh) /\ inFlight' = TRUE /\ Goes(c, "await", NoToken) /\ UNCHANGED cached
  <2>1. Refresh \notin Inside
    BY <1>3 DEF Joins, IInv, ClientOK
  <2>2. LimiterOK' /\ Inside' = Inside \cup {Refresh}
    BY <1>0, <1>3, <2>1, ScheduleKeepsLimiter DEF IInv
  <2> QED
    BY <1>0, <1>3, <2>2 DEF UseToken, Goes, IInv, ClientOK
<1>4. CASE Goes(c, "failed", NoToken) /\ UNCHANGED <<limiter, inFlight, cached>>
  <2>1. LimiterOK' /\ Inside' = Inside
    BY <1>4, StillLimiter DEF IInv
  <2> QED
    BY <1>4, <2>1 DEF UseToken, Goes, IInv, ClientOK
<1> QED
  BY <1>1, <1>2, <1>3, <1>4 DEF UseToken

\* Everybody who waited goes on when the refresh ends, so nobody waits for one that
\* is not in the map any more.
LEMMA RefreshKeeps ==
    ASSUME IInv, RefreshEnds
    PROVE  IInv'
<1>0. Refresh \notin Callers
  BY ClientAssumption
<1>1. PICK ok \in BOOLEAN :
        /\ Release(Refresh)
        /\ stored' = IF ok THEN stored + 1 ELSE stored
        /\ cached' = IF ok THEN stored + 1 ELSE cached
        /\ inFlight' = FALSE
        /\ place' = [c \in Callers |-> IF place[c] = "await" THEN AfterRefresh(ok) ELSE place[c]]
        /\ token' = [c \in Callers |-> IF place[c] = "await" /\ ok THEN stored + 1 ELSE token[c]]
  BY DEF RefreshEnds, Remembered
<1>2. LimiterOK' /\ Inside' = Inside \ {Refresh}
  BY <1>1, ReleaseKeepsLimiter DEF RefreshEnds, IInv
<1>3. AfterRefresh(ok) \in {"ready", "failed"}
  BY DEF AfterRefresh
<1>4. ClientOK'
  <2>1. stored' \in Nat /\ cached' \in Nat \cup {NoToken} /\ attempt' = attempt
    BY <1>1 DEF RefreshEnds, IInv, ClientOK
  <2>2. aged' \in 0 .. (stored' + 1)
    <3>1. stored \in Nat /\ aged \in 0 .. (stored + 1) /\ aged' = aged
      BY DEF RefreshEnds, IInv, ClientOK
    <3>2. stored' = stored \/ stored' = stored + 1
      BY <1>1
    <3> QED
      BY <3>1, <3>2
  <2>3. /\ place' \in [Callers -> {"new", "load", "loaded", "await", "ready", "call", "done", "failed"}]
        /\ \A c \in Callers : place'[c] # "await" /\ (place'[c] = "call" <=> place[c] = "call")
    BY <1>1, <1>3 DEF IInv, ClientOK
  <2>4. token' \in [Callers -> Nat \cup {NoToken}]
    BY <1>1 DEF IInv, ClientOK
  <2> QED
    BY <1>0, <1>1, <1>2, <2>1, <2>2, <2>3, <2>4 DEF IInv, ClientOK
<1> QED
  BY <1>2, <1>4 DEF IInv

LEMMA AttemptKeeps ==
    ASSUME IInv, NEW c \in Callers, Attempt(c)
    PROVE  IInv'
<1>0. c \in Tasks /\ Refresh \notin Callers
  BY ClientAssumption
<1>1. CASE Schedule(c) /\ Goes(c, "call", token[c])
  <2>1. LimiterOK' /\ Inside' = Inside \cup {c}
    BY <1>0, <1>1, ScheduleKeepsLimiter DEF Attempt, IInv, ClientOK
  <2> QED
    BY <1>0, <1>1, <2>1 DEF Attempt, Goes, tokens, IInv, ClientOK
<1>2. CASE Goes(c, "failed", token[c]) /\ UNCHANGED limiter
  <2>1. LimiterOK' /\ Inside' = Inside
    BY <1>2, StillLimiter DEF IInv
  <2> QED
    BY <1>2, <2>1 DEF Attempt, Goes, tokens, IInv, ClientOK
<1> QED
  BY <1>1, <1>2 DEF Attempt

LEMMA CallEndsKeeps ==
    ASSUME IInv, NEW c \in Callers, CallEnds(c)
    PROVE  IInv'
<1>0. Refresh \notin Callers /\ MaxRetries \in Nat
  BY ClientAssumption
<1>1. LimiterOK' /\ Inside' = Inside \ {c}
  BY ReleaseKeepsLimiter DEF CallEnds, IInv
<1>2. /\ UNCHANGED <<stored, aged, cached, inFlight>>
      /\ \E p \in {"done", "failed", "ready"} : Goes(c, p, token[c])
      /\ attempt' \in [Callers -> 0 .. MaxRetries]
  <2>1. attempt[c] < MaxRetries => attempt[c] + 1 \in 0 .. MaxRetries
    BY <1>0 DEF IInv, ClientOK
  <2> QED
    BY <1>0, <2>1 DEF CallEnds, RetriesLeft, tokens, IInv, ClientOK
<1>3. ClientOK'
  BY <1>0, <1>1, <1>2 DEF Goes, IInv, ClientOK
<1> QED
  BY <1>1, <1>3 DEF IInv

-----------------------------------------------------------------------------
(* The invariant and the theorems.                                         *)

LEMMA InitHolds == Init => IInv
<1> SUFFICES ASSUME Init PROVE IInv
  OBVIOUS
<1>1. Members(queue) = {} /\ running = {} /\ queue = <<>>
  BY DEF Init, LimiterInit, Members
<1>2. LimiterOK
  BY <1>1, LimiterAssumption, FS_EmptySet, EmptySeq DEF Init, LimiterInit, LimiterOK, Distinct, NoLostWakeup
<1>3. ClientOK
  <2>1. Inside = {}
    BY <1>1 DEF Inside
  <2>2. 0 \in 0 .. (0 + 1) /\ 0 \in 0 .. MaxRetries
    BY ClientAssumption
  <2> QED
    BY <2>1, <2>2 DEF Init, ClientOK
<1> QED
  BY <1>2, <1>3 DEF IInv

LEMMA NextHolds == IInv /\ [Next]_vars => IInv'
<1> SUFFICES ASSUME IInv, [Next]_vars PROVE IInv'
  OBVIOUS
<1>1. ASSUME NEW c \in Callers, Request(c) PROVE IInv'
  BY <1>1, TokenKeeps, UseTokenKeeps, AttemptKeeps, CallEndsKeeps DEF Request
<1>2. CASE PumpFires
  <2>1. LimiterOK' /\ Inside' = Inside
    BY <1>2, PumpKeepsLimiter DEF PumpFires, IInv
  <2> QED
    BY <1>2, <2>1 DEF PumpFires, tokens, requests, IInv, ClientOK
<1>3. CASE Clock
  <2>1. LimiterOK' /\ Inside' = Inside
    BY <1>3, TickKeepsLimiter DEF Clock, IInv
  <2> QED
    BY <1>3, <2>1 DEF Clock, tokens, requests, IInv, ClientOK
<1>4. CASE TokenAges \/ RefreshWorker
  <2>1. LimiterOK' /\ Inside' = Inside
    BY <1>4, StillLimiter DEF TokenAges, RefreshWorker, IInv
  <2> QED
    BY <1>4, <2>1 DEF TokenAges, RefreshWorker, tokens, requests, IInv, ClientOK
<1>5. CASE UNCHANGED vars
  <2>1. LimiterOK' /\ Inside' = Inside
    BY <1>5, StillLimiter DEF vars, IInv
  <2> QED
    BY <1>5, <2>1 DEF vars, tokens, requests, IInv, ClientOK
<1> QED
  BY <1>1, <1>2, <1>3, <1>4, <1>5, RefreshKeeps DEF Next

\* Every reachable state has the invariant: limiter and requests agree on who waits, who
\* is in a call and who runs the refresh.
THEOREM Inductive == Spec => []IInv
BY InitHolds, NextHolds, PTL DEF Spec

\* The limiter and the requests hold values of their types, within their limits: the
\* queue never exceeds maxQueueSize nor the running calls maxConcurrent.
THEOREM TypeCorrect == Spec => []TypeOK
<1>1. IInv => TypeOK
  BY DEF IInv, LimiterOK, ClientOK, TypeOK
<1> QED
  BY <1>1, Inductive, PTL

\* Whatever a task does, while another waits the pump timer is set or every slot is
\* taken by a task whose end sets it.
THEOREM WakeupsAreKept == Spec => []NoLostWakeup
<1>1. IInv => NoLostWakeup
  BY DEF IInv, LimiterOK
<1> QED
  BY <1>1, Inductive, PTL

\* No slot leaks and no task is in the limiter twice: the slots in use are the tasks
\* that run, and the requests in the limiter are those that are in a call.
THEOREM SlotsAreAccounted == Spec => []SlotsAccounted
<1>1. IInv => SlotsAccounted
  BY DEF IInv, LimiterOK, ClientOK, SlotsAccounted, Inside, Members, Waiting, Distinct
<1> QED
  BY <1>1, Inductive, PTL

\* Requests share one refresh, and wait only while it is in the limiter.
THEOREM RefreshIsShared == Spec => []OneRefresh
<1>1. IInv => OneRefresh
  BY DEF IInv, ClientOK, OneRefresh, Inside, Members, Waiting
<1> QED
  BY <1>1, Inductive, PTL

=============================================================================
