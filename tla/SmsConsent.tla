----------------------------- MODULE SmsConsent -----------------------------
(***************************************************************************)
(* SMS consent as 10A keeps it: an append-only ledger of the keyword       *)
(* messages Telnyx reports (START, STOP, HELP, anything else) and one      *)
(* subscription row per mobile number, updated by the stored function      *)
(* record_sms_consent_event as the reports arrive.  Telnyx reports at      *)
(* least once and in any order; the time a message carries is the          *)
(* provider's.                                                             *)
(*                                                                         *)
(* Both statements of the function run in one transaction and the upsert   *)
(* locks the row of the number, so a report is one action.                 *)
(***************************************************************************)
EXTENDS Naturals, FiniteSets

CONSTANTS
    Messages,        \* provider_event_id of the keyword messages
    Mobiles,         \* mobile_e164
    MaxTime          \* occurred_at is in 1 .. MaxTime

ASSUME TimeAssumption == MaxTime \in Nat \ {0}

Actions == {"OPT_IN", "OPT_OUT", "HELP", "INBOUND_OTHER"}
Statuses == {"NEVER_SUBSCRIBED", "SUBSCRIBED", "UNSUBSCRIBED"}
Times == 1 .. MaxTime

VARIABLES
    texts,           \* what each message says: mobile, action, occurred_at
    ledger,          \* sms_consent_events
    status,          \* sms_subscriptions.status
    lastEventAt,     \* sms_subscriptions.last_event_at, 0 while there is no row
    outdated         \* history: messages reported after a newer HELP or other text of the number

vars == <<texts, ledger, status, lastEventAt, outdated>>

Init ==
    /\ texts \in [Messages -> [mobile : Mobiles, action : Actions, at : Times]]
    /\ ledger = {}
    /\ status = [m \in Mobiles |-> "NEVER_SUBSCRIBED"]
    /\ lastEventAt = [m \in Mobiles |-> 0]
    /\ outdated = {}

-----------------------------------------------------------------------------

\* The status an action asks for; HELP and other texts ask for none.
Asked(a) == IF a = "OPT_IN" THEN {"SUBSCRIBED"}
            ELSE IF a = "OPT_OUT" THEN {"UNSUBSCRIBED"} ELSE {}

Later(t, u) == IF t > u THEN t ELSE u

\* Mutant: START also wins a tie, as it did before 511.
UpsertTieToLast(t) ==
    LET m == t.mobile
    IN  /\ status' = [status EXCEPT ![m] =
             IF Asked(t.action) # {} /\ t.at >= lastEventAt[m]
             THEN CHOOSE s \in Asked(t.action) : TRUE ELSE @]
        /\ lastEventAt' = [lastEventAt EXCEPT ![m] = Later(t.at, @)]

\* Mutant: a first report that is neither START nor STOP leaves status NULL.
UpsertNoCoalesce(t) ==
    LET m == t.mobile
        wins == \/ t.at > lastEventAt[m]
                \/ t.at = lastEventAt[m] /\ t.action = "OPT_OUT"
    IN  /\ status' = [status EXCEPT ![m] =
             IF wins /\ Asked(t.action) # {}
             THEN CHOOSE s \in Asked(t.action) : TRUE
             ELSE IF lastEventAt[m] = 0 THEN "NULL" ELSE @]
        /\ lastEventAt' = [lastEventAt EXCEPT ![m] = Later(t.at, @)]

\* Mutant: the time of a report is not compared with last_event_at.
UpsertIgnoresTime(t) ==
    LET m == t.mobile
    IN  /\ status' = [status EXCEPT ![m] =
             IF Asked(t.action) # {} THEN CHOOSE s \in Asked(t.action) : TRUE ELSE @]
        /\ lastEventAt' = [lastEventAt EXCEPT ![m] = Later(t.at, @)]

\* The upsert of sms_subscriptions.  A first report inserts the row, which
\* 0 < occurred_at makes the first branch of the update.
Upsert(t) ==
    LET m == t.mobile
        wins == \/ t.at > lastEventAt[m]
                \/ t.at = lastEventAt[m] /\ t.action = "OPT_OUT"
    IN  /\ status' = [status EXCEPT ![m] =
             IF wins /\ Asked(t.action) # {}
             THEN CHOOSE s \in Asked(t.action) : TRUE ELSE @]
        /\ lastEventAt' = [lastEventAt EXCEPT ![m] = Later(t.at, @)]

\* The messages received of a number, and those that say START or STOP.
Of(m) == {e \in ledger : texts[e].mobile = m}

Decides(m, e) == e \in Of(m) /\ Asked(texts[e].action) # {}

\* A text that asks for no status was sent after e and is here before it.
Overtaken(e) ==
    LET m == texts[e].mobile
    IN  \E f \in Of(m) : ~Decides(m, f) /\ texts[f].at > texts[e].at

\* record_sms_consent_event: the ledger takes a message once.
RecordConsentEvent(e) ==
    /\ IF e \in ledger
       THEN UNCHANGED <<ledger, status, lastEventAt, outdated>>
       ELSE /\ ledger' = ledger \cup {e}
            /\ Upsert(texts[e])
            /\ outdated' = IF Overtaken(e) THEN outdated \cup {e} ELSE outdated
    /\ UNCHANGED texts

Next == \E e \in Messages : RecordConsentEvent(e)

Spec == Init /\ [][Next]_vars

-----------------------------------------------------------------------------
(* Properties.                                                             *)

TypeOK ==
    /\ texts \in [Messages -> [mobile : Mobiles, action : Actions, at : Times]]
    /\ ledger \subseteq Messages
    /\ status \in [Mobiles -> Statuses]
    /\ lastEventAt \in [Mobiles -> 0 .. MaxTime]
    /\ outdated \subseteq ledger

\* What the subscription should say: the newest START or STOP received,
\* whatever the order of arrival, and STOP when they are equally new.
Expected(m) ==
    IF \E e \in Of(m) : /\ texts[e].action = "OPT_OUT"
                        /\ \A f \in Of(m) : Decides(m, f) => texts[f].at <= texts[e].at
    THEN "UNSUBSCRIBED"
    ELSE IF \E e \in Of(m) : texts[e].action = "OPT_IN"
    THEN "SUBSCRIBED" ELSE "NEVER_SUBSCRIBED"

Chatted(m) == \E e \in Of(m) : ~Decides(m, e)

\* A number that sends only START and STOP has the status its newest keyword
\* asks for, in whatever order and however often the reports arrive.
ConsentIsNewest == \A m \in Mobiles : ~Chatted(m) => status[m] = Expected(m)

\* Whatever else a number sends, before or after, and in whatever order it is
\* reported: a STOP holds until a START that is newer than it.  Left out is a STOP
\* that is reported after a newer HELP or other text, which 511 drops.
StopStands ==
    \A m \in Mobiles : \A e \in Of(m) \ outdated :
        texts[e].action = "OPT_OUT" =>
            \/ status[m] = "UNSUBSCRIBED"
            \/ \E f \in Of(m) : texts[f].action = "OPT_IN" /\ texts[f].at > texts[e].at

=============================================================================
