---------------------------- MODULE RateLimiter ----------------------------
(***************************************************************************)
(* The limiter that every eBay call of a process goes through: a queue,    *)
(* a number of slots, a time between two starts, and one pump timer.       *)
(*                                                                         *)
(* JavaScript runs one callback at a time, so a callback is one step.      *)
(* Its options signal, timeoutMs and jitterMs and its method coolDown have *)
(* no user in the repository and are left out.                             *)
(***************************************************************************)
EXTENDS Naturals, Sequences, FiniteSets

CONSTANTS
    Tasks,          \* what can be scheduled
    MaxConcurrent,  \* maxConcurrent
    MaxQueue,       \* maxQueueSize
    MinTime,        \* minTimeMs, in ticks
    NoPump          \* pumpScheduled = false

ASSUME LimiterAssumption ==
    /\ MaxConcurrent \in Nat \ {0} /\ MaxQueue \in Nat \ {0} /\ MinTime \in Nat
    /\ NoPump \notin Nat

VARIABLES
    queue,    \* tasks that wait, in order of arrival
    running,  \* tasks that were started and have not ended
    active,   \* activeCount
    since,    \* time since lastRunAt, up to MinTime
    pump      \* time to the pump timer, or NoPump

limiter == <<queue, running, active, since, pump>>

LimiterInit ==
    /\ queue = <<>> /\ running = {} /\ active = 0
    /\ since = MinTime /\ pump = NoPump

\* schedulePump(0): a timer that is set already stays.
SchedulePump == pump' = IF pump = NoPump THEN 0 ELSE pump

Full == Len(queue) >= MaxQueue

\* schedule, unless it throws RateLimiterOverflowError.
Schedule(t) ==
    /\ ~Full
    /\ queue' = Append(queue, t)
    /\ SchedulePump
    /\ UNCHANGED <<running, active, since>>

\* Mutant: the timer is set again only while nothing runs.
RearmUnlessBusy(q, n, s) == IF q # <<>> /\ n = 0 THEN MinTime - s ELSE NoPump

\* The timer the pump leaves behind: none when nothing waits or every slot is
\* taken, otherwise the rest of the spacing.
Rearm(q, n, s) == IF q # <<>> /\ n < MaxConcurrent THEN MinTime - s ELSE NoPump

Least(a, b) == IF a <= b THEN a ELSE b

\* How many tasks one pump starts: a start resets the spacing.
Startable ==
    LET fit == Least(Len(queue), MaxConcurrent - active)
    IN  IF since < MinTime THEN 0 ELSE IF MinTime = 0 THEN fit ELSE Least(1, fit)

Pump ==
    /\ pump = 0
    /\ LET k == Startable IN
        /\ queue' = SubSeq(queue, k + 1, Len(queue))
        /\ running' = running \cup {queue[i] : i \in 1..k}
        /\ active' = active + k
        /\ since' = IF k > 0 THEN 0 ELSE since
    /\ pump' = Rearm(queue', active', since')

\* The finally block of startQueuedTask.
Release(t) ==
    /\ running' = running \ {t} /\ active' = active - 1
    /\ SchedulePump
    /\ UNCHANGED <<queue, since>>

\* The clock; a timer may fire late.
Tick ==
    /\ since < MinTime \/ pump \in 1..MinTime
    /\ since' = IF since < MinTime THEN since + 1 ELSE since
    /\ pump' = IF pump \in 1..MinTime THEN pump - 1 ELSE pump
    /\ UNCHANGED <<queue, running, active>>

=============================================================================
