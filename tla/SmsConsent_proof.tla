-------------------------- MODULE SmsConsent_proof --------------------------
(***************************************************************************)
(* Proofs about SmsConsent for any messages, numbers and times.            *)
(*                                                                         *)
(* What the subscription says depends on the messages received only        *)
(* through last_event_at, so the invariant adds that this column is the    *)
(* time of the newest of them, chat included, and 0 before the first.      *)
(***************************************************************************)
EXTENDS SmsConsent, TLAPS

LastIsNewest ==
    \A m \in Mobiles :
        /\ \A e \in Of(m) : texts[e].at <= lastEventAt[m]
        /\ Of(m) # {} => \E e \in Of(m) : texts[e].at = lastEventAt[m]
        /\ Of(m) = {} => lastEventAt[m] = 0 /\ status[m] = "NEVER_SUBSCRIBED"

\* A STOP at least as new as all other messages received, chat included, is in force.
NewestStopHolds ==
    \A m \in Mobiles : \A e \in Of(m) :
        texts[e].action = "OPT_OUT" /\ (\A f \in Of(m) : texts[f].at <= texts[e].at)
            => status[m] = "UNSUBSCRIBED"

IInv == TypeOK /\ LastIsNewest /\ ConsentIsNewest /\ NewestStopHolds /\ StopStands

-----------------------------------------------------------------------------
(* The upsert.                                                             *)

Wins(t) ==
    \/ t.at > lastEventAt[t.mobile]
    \/ t.at = lastEventAt[t.mobile] /\ t.action = "OPT_OUT"

\* What a keyword asks for.
LEMMA AskedFor ==
    /\ Asked("OPT_IN") = {"SUBSCRIBED"} /\ Asked("OPT_OUT") = {"UNSUBSCRIBED"}
    /\ \A a \in Actions : Asked(a) # {} <=> a \in {"OPT_IN", "OPT_OUT"}
    /\ (CHOOSE s \in Asked("OPT_IN") : TRUE) = "SUBSCRIBED"
    /\ (CHOOSE s \in Asked("OPT_OUT") : TRUE) = "UNSUBSCRIBED"
<1>1. /\ Asked("OPT_IN") = {"SUBSCRIBED"} /\ Asked("OPT_OUT") = {"UNSUBSCRIBED"}
      /\ \A a \in Actions : Asked(a) # {} <=> a \in {"OPT_IN", "OPT_OUT"}
  BY DEF Asked, Actions
<1>2. \A v : (CHOOSE s \in {v} : TRUE) = v
  OBVIOUS
<1> QED
  BY <1>1, <1>2

\* A keyword that wins decides the status, any other report leaves it alone; the
\* rows of other numbers are not touched.
LEMMA Upserted ==
    ASSUME TypeOK, NEW t \in [mobile : Mobiles, action : Actions, at : Times], Upsert(t)
    PROVE  /\ \A m \in Mobiles \ {t.mobile} :
                 status'[m] = status[m] /\ lastEventAt'[m] = lastEventAt[m]
           /\ lastEventAt'[t.mobile] = Later(t.at, lastEventAt[t.mobile])
           /\ Wins(t) /\ t.action = "OPT_IN" => status'[t.mobile] = "SUBSCRIBED"
           /\ Wins(t) /\ t.action = "OPT_OUT" => status'[t.mobile] = "UNSUBSCRIBED"
           /\ ~Wins(t) \/ t.action \notin {"OPT_IN", "OPT_OUT"} =>
                 status'[t.mobile] = status[t.mobile]
           /\ status' \in [Mobiles -> Statuses] /\ lastEventAt' \in [Mobiles -> 0 .. MaxTime]
<1> DEFINE m == t.mobile
           new == IF Wins(t) /\ Asked(t.action) # {}
                  THEN CHOOSE s \in Asked(t.action) : TRUE ELSE status[m]
<1>1. m \in Mobiles /\ t.action \in Actions /\ t.at \in 1 .. MaxTime
  BY DEF Times
<1>2. /\ status' = [status EXCEPT ![m] = new]
      /\ lastEventAt' = [lastEventAt EXCEPT ![m] = Later(t.at, lastEventAt[m])]
  BY DEF Upsert, Wins
<1>3. /\ Wins(t) /\ t.action = "OPT_IN" => new = "SUBSCRIBED"
      /\ Wins(t) /\ t.action = "OPT_OUT" => new = "UNSUBSCRIBED"
      /\ ~Wins(t) \/ t.action \notin {"OPT_IN", "OPT_OUT"} => new = status[m]
  BY <1>1, AskedFor
<1>4. new \in Statuses
  BY <1>1, <1>3 DEF TypeOK, Statuses
<1>5. Later(t.at, lastEventAt[m]) \in 0 .. MaxTime
  BY <1>1, TimeAssumption DEF Later, TypeOK
<1> HIDE DEF new
<1> QED
  BY <1>1, <1>2, <1>3, <1>4, <1>5 DEF TypeOK

-----------------------------------------------------------------------------
(* A message that is recorded for the first time.                          *)

\* The messages of a number after the record: one more for its own number.
LEMMA RecordedOf ==
    ASSUME IInv, NEW e \in Messages, e \notin ledger, RecordConsentEvent(e)
    PROVE  /\ texts' = texts /\ texts[e] \in [mobile : Mobiles, action : Actions, at : Times]
           /\ Upsert(texts[e])
           /\ Of(texts[e].mobile)' = Of(texts[e].mobile) \cup {e}
           /\ e \notin Of(texts[e].mobile)
           /\ \A m \in Mobiles \ {texts[e].mobile} : Of(m)' = Of(m)
BY DEF RecordConsentEvent, IInv, TypeOK, Of

LEMMA RecordKeepsLast ==
    ASSUME IInv, NEW e \in Messages, e \notin ledger, RecordConsentEvent(e)
    PROVE  LastIsNewest'
<1> DEFINE t == texts[e]
<1>1. /\ lastEventAt'[t.mobile] = Later(t.at, lastEventAt[t.mobile])
      /\ \A m \in Mobiles \ {t.mobile} :
           status'[m] = status[m] /\ lastEventAt'[m] = lastEventAt[m]
  BY RecordedOf, Upserted DEF IInv
<1>2. SUFFICES ASSUME NEW m \in Mobiles
               PROVE  /\ \A f \in Of(m)' : texts[f].at <= lastEventAt'[m]
                      /\ Of(m)' # {} => \E f \in Of(m)' : texts[f].at = lastEventAt'[m]
                      /\ Of(m)' = {} => lastEventAt'[m] = 0 /\ status'[m] = "NEVER_SUBSCRIBED"
  BY RecordedOf DEF LastIsNewest
<1>3. CASE m # t.mobile
  BY <1>1, <1>3, RecordedOf DEF IInv, LastIsNewest
<1>4. CASE m = t.mobile
  <2>1. /\ Of(m)' = Of(m) \cup {e} /\ lastEventAt'[m] = Later(t.at, lastEventAt[m])
        /\ lastEventAt[m] \in Nat /\ t.at \in Nat /\ t.at > 0
        /\ \A f \in Of(m) : texts[f].at \in Nat
    BY <1>1, <1>4, RecordedOf, TimeAssumption DEF IInv, TypeOK, Times, Of
  <2>2. /\ \A f \in Of(m) : texts[f].at <= lastEventAt[m]
        /\ Of(m) # {} => \E f \in Of(m) : texts[f].at = lastEventAt[m]
        /\ Of(m) = {} => lastEventAt[m] = 0
    BY DEF IInv, LastIsNewest
  <2>3. CASE t.at > lastEventAt[m]
    BY <2>1, <2>2, <2>3 DEF Later
  <2>4. CASE t.at <= lastEventAt[m]
    BY <2>1, <2>2, <2>4 DEF Later
  <2> QED
    BY <2>1, <2>3, <2>4
<1> QED
  BY <1>3, <1>4

\* The new message is as new as all of its number exactly when it is not older than
\* last_event_at, and then it wins if it is a STOP.
LEMMA NewestByTime ==
    ASSUME IInv, NEW m \in Mobiles, NEW at \in Nat
    PROVE  /\ lastEventAt[m] \in Nat
           /\ at >= lastEventAt[m] <=> \A f \in Of(m) : texts[f].at <= at
           /\ \A f \in Of(m) : texts[f].at \in Nat \ {0} /\ texts[f].at <= lastEventAt[m]
<1>1. /\ lastEventAt[m] \in Nat
      /\ \A f \in Of(m) : texts[f].at \in Nat \ {0} /\ texts[f].at <= lastEventAt[m]
  BY TimeAssumption DEF IInv, TypeOK, LastIsNewest, Of, Times
<1>2. \/ Of(m) = {} /\ lastEventAt[m] = 0
      \/ \E f \in Of(m) : texts[f].at = lastEventAt[m]
  BY DEF IInv, LastIsNewest
<1> QED
  BY <1>1, <1>2

LEMMA RecordKeepsStop ==
    ASSUME IInv, NEW e \in Messages, e \notin ledger, RecordConsentEvent(e)
    PROVE  NewestStopHolds'
<1> DEFINE t == texts[e]
           n == t.mobile
<1>1. SUFFICES ASSUME NEW m \in Mobiles, NEW g \in Of(m)',
                      texts[g].action = "OPT_OUT",
                      \A f \in Of(m)' : texts[f].at <= texts[g].at
               PROVE  status'[m] = "UNSUBSCRIBED"
  BY RecordedOf DEF NewestStopHolds
<1>2. CASE m # n
  BY <1>1, <1>2, RecordedOf, Upserted DEF IInv, NewestStopHolds
<1>3. CASE m = n
  <2>1. /\ Of(m)' = Of(m) \cup {e} /\ t.at \in Nat /\ n = m /\ n \in Mobiles
        /\ t \in [mobile : Mobiles, action : Actions, at : Times]
    BY <1>3, RecordedOf, TimeAssumption DEF Times
  <2>2. CASE g = e
    <3>1. t.at >= lastEventAt[n]
      BY <1>1, <1>3, <2>1, <2>2, NewestByTime
    <3>2. Wins(t)
      BY <1>1, <2>1, <2>2, <3>1, NewestByTime DEF Wins
    <3> QED
      BY <1>1, <1>3, <2>1, <2>2, <3>2, RecordedOf, Upserted DEF IInv
  <2>3. CASE g # e
    <3>1. g \in Of(m) /\ \A f \in Of(m) : texts[f].at <= texts[g].at
      BY <1>1, <2>1, <2>3
    <3>2. status[m] = "UNSUBSCRIBED" /\ texts[g].at \in Nat /\ texts[g].at >= lastEventAt[m]
      BY <1>1, <3>1, NewestByTime DEF IInv, NewestStopHolds
    <3>3. t.at <= lastEventAt[n]
      BY <1>1, <1>3, <2>1, <3>1, <3>2, NewestByTime
    <3>4. Wins(t) => t.action = "OPT_OUT"
      BY <2>1, <3>3, NewestByTime DEF Wins
    <3> QED
      BY <1>3, <2>1, <3>2, <3>4, RecordedOf, Upserted DEF IInv
  <2> QED
    BY <2>2, <2>3
<1> QED
  BY <1>2, <1>3

\* A STOP that wins is in force; one that does not win is older than a STOP in force
\* or than a START, or was overtaken.
LEMMA RecordKeepsStands ==
    ASSUME IInv, NEW e \in Messages, e \notin ledger, RecordConsentEvent(e)
    PROVE  StopStands'
<1> DEFINE t == texts[e]
           n == t.mobile
<1>1. SUFFICES ASSUME NEW m \in Mobiles, NEW g \in Of(m)', g \notin outdated',
                      texts[g].action = "OPT_OUT"
               PROVE  \/ status'[m] = "UNSUBSCRIBED"
                      \/ \E f \in Of(m)' : texts[f].action = "OPT_IN" /\ texts[f].at > texts[g].at
  BY RecordedOf DEF StopStands
<1>2. outdated' = IF Overtaken(e) THEN outdated \cup {e} ELSE outdated
  BY DEF RecordConsentEvent
<1>3. CASE m # n
  <2>1. Of(m)' = Of(m) /\ status'[m] = status[m] /\ g \notin outdated
    BY <1>1, <1>2, <1>3, RecordedOf, Upserted DEF IInv
  <2> QED
    BY <1>1, <2>1 DEF IInv, StopStands
<1>4. CASE m = n
  <2>1. /\ Of(m)' = Of(m) \cup {e} /\ t.at \in Nat /\ n = m /\ n \in Mobiles
        /\ t \in [mobile : Mobiles, action : Actions, at : Times]
    BY <1>4, RecordedOf, TimeAssumption DEF Times
  <2>2. /\ lastEventAt[m] \in Nat
        /\ \A f \in Of(m) : texts[f].at \in Nat \ {0} /\ texts[f].at <= lastEventAt[m]
        /\ Of(m) = {} => lastEventAt[m] = 0
        /\ Of(m) # {} => \E h \in Of(m) : texts[h].at = lastEventAt[m]
    BY <2>1, NewestByTime DEF IInv, LastIsNewest
  <2>3. /\ Wins(t) /\ t.action = "OPT_OUT" => status'[m] = "UNSUBSCRIBED"
        /\ ~Wins(t) \/ t.action \notin {"OPT_IN", "OPT_OUT"} => status'[m] = status[m]
    BY <2>1, RecordedOf, Upserted DEF IInv
  <2>4. CASE g = e
    <3>1. CASE \E f \in Of(m) : texts[f].action = "OPT_IN" /\ texts[f].at > t.at
      BY <2>1, <2>4, <3>1
    <3>2. CASE ~\E f \in Of(m) : texts[f].action = "OPT_IN" /\ texts[f].at > t.at
      <4>1. CASE Wins(t)
        BY <1>1, <2>3, <2>4, <4>1
      <4>2. CASE ~Wins(t)
        <5>1. lastEventAt[m] > t.at
          BY <1>1, <2>1, <2>2, <2>4, <4>2 DEF Wins
        <5>2. PICK h \in Of(m) : texts[h].at = lastEventAt[m]
          BY <2>1, <2>2, <5>1
        <5>3. ~Overtaken(e)
          BY <1>1, <1>2, <2>4
        <5>4. Decides(m, h) /\ texts[h].action \in Actions
          BY <2>1, <5>1, <5>2, <5>3 DEF Overtaken, IInv, TypeOK, Of
        <5>5. texts[h].action \in {"OPT_IN", "OPT_OUT"}
          BY <5>4, AskedFor DEF Decides
        <5>6. texts[h].action = "OPT_OUT"
          BY <3>2, <5>1, <5>2, <5>5
        <5>7. status[m] = "UNSUBSCRIBED"
          BY <2>2, <5>2, <5>6 DEF IInv, NewestStopHolds
        <5> QED
          BY <2>3, <4>2, <5>7
      <4> QED
        BY <4>1, <4>2
    <3> QED
      BY <3>1, <3>2
  <2>5. CASE g # e
    <3>1. g \in Of(m) \ outdated
      BY <1>1, <1>2, <2>1, <2>5
    <3>2. \/ status[m] = "UNSUBSCRIBED"
          \/ \E f \in Of(m) : texts[f].action = "OPT_IN" /\ texts[f].at > texts[g].at
      BY <1>1, <3>1 DEF IInv, StopStands
    <3>3. CASE Wins(t) /\ t.action = "OPT_IN"
      BY <2>1, <2>2, <3>1, <3>3 DEF Wins
    <3>4. CASE ~(Wins(t) /\ t.action = "OPT_IN")
      <4>1. status[m] = "UNSUBSCRIBED" => status'[m] = "UNSUBSCRIBED"
        BY <2>3, <3>4
      <4> QED
        BY <2>1, <3>2, <4>1
    <3> QED
      BY <3>3, <3>4
  <2> QED
    BY <2>4, <2>5
<1> QED
  BY <1>3, <1>4

\* For a number that only said START and STOP, what Expected asks of its messages,
\* told by last_event_at.
ExpectedByLast ==
    \A m \in Mobiles : ~Chatted(m) =>
        /\ \A f \in Of(m) : texts[f].action \in {"OPT_IN", "OPT_OUT"}
        /\ Expected(m) =
             IF \E g \in Of(m) : texts[g].action = "OPT_OUT" /\ texts[g].at = lastEventAt[m]
             THEN "UNSUBSCRIBED"
             ELSE IF Of(m) # {} THEN "SUBSCRIBED" ELSE "NEVER_SUBSCRIBED"

LEMMA ExpectedTold == TypeOK /\ LastIsNewest => ExpectedByLast
<1>1. SUFFICES ASSUME TypeOK, LastIsNewest, NEW m \in Mobiles, ~Chatted(m)
               PROVE  /\ \A f \in Of(m) : texts[f].action \in {"OPT_IN", "OPT_OUT"}
                      /\ Expected(m) =
                           IF \E g \in Of(m) :
                                texts[g].action = "OPT_OUT" /\ texts[g].at = lastEventAt[m]
                           THEN "UNSUBSCRIBED"
                           ELSE IF Of(m) # {} THEN "SUBSCRIBED" ELSE "NEVER_SUBSCRIBED"
  BY DEF ExpectedByLast
<1>2. \A f \in Of(m) : /\ Decides(m, f) /\ texts[f].action \in Actions
                       /\ texts[f].at \in Nat /\ texts[f].at <= lastEventAt[m]
  BY <1>1, TimeAssumption DEF Chatted, TypeOK, Of, Times, LastIsNewest
<1>3. \A f \in Of(m) : texts[f].action \in {"OPT_IN", "OPT_OUT"}
  BY <1>2, AskedFor DEF Decides
<1>4. /\ lastEventAt[m] \in Nat
      /\ Of(m) # {} => \E f \in Of(m) : texts[f].at = lastEventAt[m]
  BY <1>1, TimeAssumption DEF TypeOK, LastIsNewest
<1>5. ASSUME NEW g \in Of(m)
      PROVE  (\A f \in Of(m) : Decides(m, f) => texts[f].at <= texts[g].at)
               <=> texts[g].at = lastEventAt[m]
  BY <1>2, <1>4, <1>5
<1>6. (\E e \in Of(m) : texts[e].action = "OPT_IN") \/ Of(m) = {}
        \/ \E g \in Of(m) : texts[g].action = "OPT_OUT" /\ texts[g].at = lastEventAt[m]
  BY <1>3, <1>4
<1> QED
  BY <1>3, <1>5, <1>6 DEF Expected

LEMMA RecordKeepsNewest ==
    ASSUME IInv, NEW e \in Messages, e \notin ledger, RecordConsentEvent(e)
    PROVE  ConsentIsNewest'
<1> DEFINE t == texts[e]
           n == t.mobile
<1>1. ExpectedByLast /\ ExpectedByLast'
  <2>1. TypeOK'
    BY RecordedOf, Upserted DEF IInv, TypeOK, RecordConsentEvent
  <2>2. LastIsNewest'
    BY RecordKeepsLast
  <2>3. (TypeOK /\ LastIsNewest => ExpectedByLast)'
    BY ExpectedTold, PTL
  <2> QED
    BY <2>1, <2>2, <2>3, ExpectedTold DEF IInv
<1>2. SUFFICES ASSUME NEW m \in Mobiles, ~Chatted(m)'
               PROVE  status'[m] = Expected(m)'
  BY DEF ConsentIsNewest
<1>3. CASE m # n
  <2>1. Of(m)' = Of(m) /\ texts' = texts /\ status'[m] = status[m] /\ lastEventAt'[m] = lastEventAt[m]
    BY <1>3, RecordedOf, Upserted DEF IInv
  <2>2. ~Chatted(m)
    BY <1>2, <2>1 DEF Chatted, Decides
  <2> QED
    BY <1>1, <1>2, <2>1, <2>2 DEF ExpectedByLast, IInv, ConsentIsNewest
<1>4. CASE m = n
  <2>1. /\ Of(m)' = Of(m) \cup {e} /\ texts' = texts /\ t.at \in Nat \ {0} /\ lastEventAt[m] \in Nat
        /\ t \in [mobile : Mobiles, action : Actions, at : Times]
        /\ lastEventAt'[m] = Later(t.at, lastEventAt[m])
    <3>1. texts' = texts /\ t \in [mobile : Mobiles, action : Actions, at : Times] /\ Upsert(t)
      BY RecordedOf
    <3>2. t.at \in Nat \ {0} /\ lastEventAt[m] \in Nat
      BY <3>1, TimeAssumption DEF Times, IInv, TypeOK
    <3>3. lastEventAt'[n] = Later(t.at, lastEventAt[n])
      BY <3>1, Upserted DEF IInv
    <3> QED
      BY <1>4, <3>1, <3>2, <3>3, RecordedOf
  <2>2. ~Chatted(m)
    BY <1>2, <2>1 DEF Chatted, Decides
  <2>3. t.action \in {"OPT_IN", "OPT_OUT"}
    BY <1>1, <1>2, <2>1 DEF ExpectedByLast
  <2>4. status[m] = IF \E g \in Of(m) : texts[g].action = "OPT_OUT" /\ texts[g].at = lastEventAt[m]
                    THEN "UNSUBSCRIBED"
                    ELSE IF Of(m) # {} THEN "SUBSCRIBED" ELSE "NEVER_SUBSCRIBED"
    BY <1>1, <2>2 DEF ExpectedByLast, IInv, ConsentIsNewest
  <2>5. Expected(m)' = IF \E g \in Of(m) \cup {e} :
                            texts[g].action = "OPT_OUT" /\ texts[g].at = lastEventAt'[m]
                       THEN "UNSUBSCRIBED" ELSE "SUBSCRIBED"
    BY <1>1, <1>2, <2>1 DEF ExpectedByLast
  <2>6. /\ Wins(t) /\ t.action = "OPT_IN" => status'[m] = "SUBSCRIBED"
        /\ Wins(t) /\ t.action = "OPT_OUT" => status'[m] = "UNSUBSCRIBED"
        /\ ~Wins(t) => status'[m] = status[m]
    BY <1>4, RecordedOf, Upserted DEF IInv
  <2>7. /\ \A f \in Of(m) : texts[f].at \in Nat \ {0} /\ texts[f].at <= lastEventAt[m]
        /\ Of(m) = {} => lastEventAt[m] = 0
    BY NewestByTime DEF IInv, LastIsNewest
  <2>8. CASE Wins(t)
    <3>1. lastEventAt'[m] = t.at /\ (t.action = "OPT_IN" => t.at > lastEventAt[m])
      BY <1>4, <2>1, <2>8 DEF Wins, Later
    <3>2. t.action = "OPT_IN" => \A g \in Of(m) : texts[g].at # t.at
      BY <2>1, <2>7, <3>1
    <3> QED
      BY <2>3, <2>5, <2>6, <2>8, <3>1, <3>2
  <2>9. CASE ~Wins(t)
    <3>1. lastEventAt'[m] = lastEventAt[m] /\ Of(m) # {}
      BY <1>4, <2>1, <2>7, <2>9 DEF Wins, Later
    <3>2. t.action = "OPT_OUT" => t.at # lastEventAt[m]
      BY <1>4, <2>9 DEF Wins
    <3> QED
      BY <2>4, <2>5, <2>6, <2>9, <3>1, <3>2
  <2> QED
    BY <2>8, <2>9
<1> QED
  BY <1>3, <1>4

-----------------------------------------------------------------------------
(* The invariant and the theorems.                                         *)

LEMMA InitHolds == Init => IInv
<1>1. SUFFICES ASSUME Init PROVE IInv
  OBVIOUS
<1>2. \A m \in Mobiles : Of(m) = {} /\ status[m] = "NEVER_SUBSCRIBED" /\ lastEventAt[m] = 0
  BY <1>1 DEF Init, Of
<1>3. TypeOK
  BY <1>1, TimeAssumption DEF Init, TypeOK, Statuses
<1>4. LastIsNewest /\ NewestStopHolds /\ StopStands
  BY <1>2 DEF LastIsNewest, NewestStopHolds, StopStands
<1>5. ConsentIsNewest
  BY <1>2 DEF ConsentIsNewest, Expected
<1> QED
  BY <1>3, <1>4, <1>5 DEF IInv

LEMMA StutterHolds == ASSUME IInv, UNCHANGED vars PROVE IInv'
<1>1. /\ texts' = texts /\ ledger' = ledger /\ status' = status /\ lastEventAt' = lastEventAt
      /\ outdated' = outdated
  BY DEF vars
<1>2. \A m : /\ Of(m)' = Of(m) /\ Chatted(m)' = Chatted(m) /\ Expected(m)' = Expected(m)
  BY <1>1 DEF Of, Chatted, Decides, Expected
<1>3. TypeOK' /\ LastIsNewest'
  BY <1>1, <1>2 DEF IInv, TypeOK, LastIsNewest
<1>4. ConsentIsNewest'
  BY <1>1, <1>2 DEF IInv, ConsentIsNewest
<1>5. NewestStopHolds' /\ StopStands'
  BY <1>1, <1>2 DEF IInv, NewestStopHolds, StopStands
<1> QED
  BY <1>3, <1>4, <1>5 DEF IInv

LEMMA NextHolds == IInv /\ [Next]_vars => IInv'
<1>1. SUFFICES ASSUME IInv, [Next]_vars PROVE IInv'
  OBVIOUS
<1>2. CASE UNCHANGED vars
  BY <1>1, <1>2, StutterHolds
<1>3. ASSUME NEW e \in Messages, RecordConsentEvent(e) PROVE IInv'
  <2>1. CASE e \in ledger
    <3>1. UNCHANGED vars
      BY <1>3, <2>1 DEF RecordConsentEvent, vars
    <3> QED
      BY <1>1, <3>1, StutterHolds
  <2>2. CASE e \notin ledger
    <3>1. TypeOK'
      BY <1>1, <1>3, <2>2, RecordedOf, Upserted DEF IInv, TypeOK, RecordConsentEvent
    <3> QED
      BY <1>1, <1>3, <2>2, <3>1, RecordKeepsLast, RecordKeepsNewest, RecordKeepsStop, RecordKeepsStands DEF IInv
  <2> QED
    BY <2>1, <2>2
<1> QED
  BY <1>1, <1>2, <1>3 DEF Next

\* Every reachable state has the invariant, in whatever order messages are reported.
THEOREM Inductive == Spec => []IInv
BY InitHolds, NextHolds, PTL DEF Spec

\* Ledger and subscriptions hold values of their columns.
THEOREM TypeCorrect == Spec => []TypeOK
<1>1. IInv => TypeOK
  BY DEF IInv
<1> QED
  BY <1>1, Inductive, PTL

\* However many reports arrive, in any order and any number of times, a number that
\* only sent START and STOP has the status that its newest keyword asks for.
THEOREM OrderDoesNotMatter == Spec => []ConsentIsNewest
<1>1. IInv => ConsentIsNewest
  BY DEF IInv
<1> QED
  BY <1>1, Inductive, PTL

\* Whatever else a number sends and in whatever order it is reported, a STOP holds
\* until a START newer than it, unless a newer text that is neither came first.
THEOREM StopTakesEffect == Spec => []StopStands
<1>1. IInv => StopStands
  BY DEF IInv
<1> QED
  BY <1>1, Inductive, PTL

=============================================================================
