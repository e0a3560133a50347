--------------------------- MODULE MCDeliveryFair ---------------------------
(***************************************************************************)
(* The specification under which deliveries settle.  A fault is a crash, a *)
(* broken connection, or a lease that runs out under the process working   *)
(* on the row; there are finitely many.  The outbox lock may run out at    *)
(* any time.  The process manager and the timers of the bootstrap restart  *)
(* the loops for ever, and clocks do not stop.                             *)
(***************************************************************************)
EXTENDS MCDeliveryExecution

UnderWork(d) == \E l \in Loops : /\ owner[d] = l[1] /\ ChannelOf[d] = l[2]
                                 /\ d = cur[l] \/ d \in batch[l]

OrphanExpires(d) == ~UnderWork(d) /\ (LockExpires(d) \/ LeaseExpires(d))

\* The steps that are no faults.
Ordinary ==
    \/ Outside
    \/ \E d \in Deliveries : BecomesDue(d) \/ LockExpires(d) \/ OrphanExpires(d)
    \/ \E c \in Channels : MinuteRolls(c)
    \/ \E l \in Loops : Execute(l)

FairSpec ==
    /\ Spec
    /\ <>[][Ordinary]_vars
    /\ \A l \in Loops : WF_vars(Execute(l))
    /\ \A d \in Deliveries : WF_vars(OrphanExpires(d)) /\ WF_vars(BecomesDue(d))
    /\ \A c \in Channels : WF_vars(MinuteRolls(c))

\* Once a channel stays switched on, every delivery of it is settled: taken by
\* the provider, suppressed, dead-lettered or quarantined.  Crashes, lost
\* connections and expired leases delay it but never strand it.
EveryDeliverySettles ==
    \A d \in Deliveries :
        <>[]control[ChannelOf[d]] => <>[](state[d] \in Settled)

=============================================================================
