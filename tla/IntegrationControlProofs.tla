----------------------- MODULE IntegrationControlProofs -----------------------
(***************************************************************************)
(* Theorems about IntegrationControl, for any jobs, commands, receipts,    *)
(* streams and processes.                                                  *)
(***************************************************************************)
EXTENDS IntegrationControl, FiniteSetTheorems, TLAPS

\* A call at a stage carries what belongs to the stage.
LEMMA CallTypes ==
    ASSUME TypeOK, NEW p \in Processes
    PROVE  /\ At(p, "create") => calls[p] \in [stage : {"create"}, offer : Offer, request : Requests]
           /\ At(p, "reoffer") \/ At(p, "reoffering") =>
                calls[p] \in [stage : {"reoffer", "reoffering"}, now : Time, session : Epochs,
                              jobs : SUBSET Jobs]
           /\ At(p, "publish") => calls[p] \in [stage : {"publish"}, now : Time, session : Epochs]
           /\ At(p, "publishing") => calls[p] \in [stage : {"publishing"}, offers : SUBSET Offer]
           /\ At(p, "sent") =>
                calls[p] \in [stage : {"sent"}, offers : SUBSET Offer, offer : Offer]
           /\ At(p, "receipt") =>
                calls[p] \in [stage : {"receipt"}, session : Epochs, message : Messages]
  BY DEF TypeOK, At, Call

LEMMA InitTypeOK == Init => TypeOK
<1> SUFFICES ASSUME Init PROVE TypeOK
  OBVIOUS
<1>1. 0 \in Time /\ 0 \in 0..MaxEpoch /\ 0 \in 0..MaxPosition
  BY ControlAssumption DEF Time
<1> QED
  BY <1>1 DEF Init, TypeOK, active

LEMMA NextTypeOK == TypeOK /\ [Next]_vars => TypeOK'
<1> SUFFICES ASSUME TypeOK, [Next]_vars PROVE TypeOK'
  OBVIOUS
<1> USE DEF TypeOK, active
<1>1. CASE Tick
  BY <1>1, ControlAssumption DEF Tick, Time, offerVars, evidenceVars
<1>2. CASE Reconnect
  BY <1>2, ControlAssumption DEF Reconnect, offerVars, evidenceVars
<1>3. CASE SessionHealth
  BY <1>3 DEF SessionHealth, offerVars, evidenceVars
<1>4. ASSUME NEW p \in Processes, Step(p) PROVE TypeOK'
  <2>1. ASSUME NEW k \in Commands, CreateRead(p, k) PROVE TypeOK'
    <3>1. MakeOffer(k.job, epoch, k.intent, k.expires, now) \in Offer
      BY <2>1, ControlAssumption
      DEF MakeOffer, Offer, CreateRead, Intents, Expiries, Epochs
    <3>2. [stage |-> "create", request |-> k.request,
           offer |-> MakeOffer(k.job, epoch, k.intent, k.expires, now)] \in Call
      BY <3>1 DEF Call, Requests
    <3> QED
      BY <2>1, <3>2 DEF CreateRead, Begin, clockVars, offerVars, evidenceVars
  <2>2. CASE PersistIntentAndOffer(p)
    <3>1. /\ calls[p].offer \in Offer /\ calls[p].request \in Requests
      BY <2>2, CallTypes DEF PersistIntentAndOffer
    <3>2. /\ [intent |-> calls[p].offer.intent, expires |-> calls[p].offer.expires,
              receipt |-> None, revision |-> 1] \in Intent
          /\ [offer |-> calls[p].offer, published |-> FALSE] \in OfferRow
          /\ Key(calls[p].offer) \in Jobs \X Epochs
      BY <3>1 DEF Intent, Offer, OfferRow, Key
    <3> QED
      BY <2>2, <3>1, <3>2 DEF PersistIntentAndOffer, Return, clockVars, evidenceVars
  <2>3. CASE ReofferStart(p)
    <3>1. epoch \in Epochs
      BY <2>3 DEF ReofferStart, Epochs
    <3> DEFINE call == [stage |-> "reoffer", now |-> now, session |-> epoch,
                        jobs |-> {k[1] : k \in {d \in Dispatchable : d[2] = epoch}}]
    <3>2. call.jobs \subseteq Jobs
      BY DEF Dispatchable
    <3>3. call \in Call
      BY <3>1, <3>2 DEF Call
    <3> QED
      BY <2>3, <3>3 DEF ReofferStart, Begin, clockVars, offerVars, evidenceVars
  <2>4. CASE ReofferList(p)
    <3> DEFINE todo == {j \in Jobs : intents[j] # None /\ intents[j].receipt = None
                                     /\ intents[j].expires > calls[p].now} \ calls[p].jobs
    <3>1. Reoffering(calls[p], todo) \in Call
      BY <2>4, CallTypes DEF ReofferList, Reoffering, Call
    <3> QED
      BY <2>4, <3>1 DEF ReofferList, Continue, clockVars, offerVars, evidenceVars
  <2>5. CASE PersistReoffer(p)
    <3>1. calls[p].session \in Epochs /\ calls[p].now \in Time /\ calls[p].jobs \in SUBSET Jobs
      BY <2>5, CallTypes DEF PersistReoffer
    <3>2. ASSUME NEW j \in calls[p].jobs PROVE Reoffering(calls[p], calls[p].jobs \ {j}) \in Call
      BY <3>1 DEF Reoffering, Call
    <3>3. offers' \in [Jobs \X Epochs -> OfferRow \cup {None}]
      <4>1. PICK j \in calls[p].jobs :
              LET offer == MakeOffer(j, calls[p].session, intents[j].intent,
                                     intents[j].expires, calls[p].now)
              IN  UNCHANGED offers \/ (intents[j] # None /\ Stage(offer))
        BY <2>5 DEF PersistReoffer
      <4> DEFINE offer == MakeOffer(j, calls[p].session, intents[j].intent,
                                    intents[j].expires, calls[p].now)
      <4>2. CASE UNCHANGED offers
        BY <4>2
      <4>3. CASE intents[j] # None /\ Stage(offer)
        <5>1. j \in Jobs /\ intents[j] \in Intent
          BY <3>1, <4>3
        <5>2. offer \in Offer
          BY <3>1, <5>1 DEF MakeOffer, Offer, Intent
        <5>3. Key(offer) \in Jobs \X Epochs /\ [offer |-> offer, published |-> FALSE] \in OfferRow
          BY <5>2 DEF Key, Offer, OfferRow
        <5> QED
          BY <4>3, <5>3 DEF Stage
      <4> QED
        BY <4>1, <4>2, <4>3
    <3> QED
      BY <2>5, <3>2, <3>3 DEF PersistReoffer, Continue, clockVars, evidenceVars
  <2>6. CASE PublishStart(p)
    <3>1. [stage |-> "publish", now |-> now, session |-> epoch] \in Call
      BY <2>6 DEF PublishStart, Epochs, Call
    <3> QED
      BY <2>6, <3>1 DEF PublishStart, Begin, clockVars, offerVars, evidenceVars
  <2>7. CASE PublishList(p)
    <3> DEFINE todo == {offers[k].offer : k \in {d \in Dispatchable :
                          d[2] = calls[p].session /\ offers[d].offer.expires > calls[p].now}}
    <3>1. todo \subseteq Offer
      BY DEF Dispatchable, OfferRow
    <3>2. [stage |-> "publishing", offers |-> todo] \in Call
      BY <3>1 DEF Call
    <3> QED
      BY <2>7, <3>2 DEF PublishList, Continue, clockVars, offerVars, evidenceVars
  <2>8. CASE Publish(p)
    <3>1. calls[p].offers \subseteq Offer
      BY <2>8, CallTypes DEF Publish
    <3>2. ASSUME NEW o \in calls[p].offers
          PROVE  [stage |-> "sent", offer |-> o, offers |-> calls[p].offers \ {o}] \in Call
      BY <3>1 DEF Call
    <3> QED
      BY <2>8, <3>1, <3>2 DEF Publish, clockVars, offerVars, evidenceVars
  <2>9. CASE markOfferPublished(p)
    <3>1. calls[p].offers \subseteq Offer /\ calls[p].offer \in Offer
      BY <2>9, CallTypes DEF markOfferPublished
    <3>2. [stage |-> "publishing", offers |-> calls[p].offers] \in Call
      BY <3>1 DEF Call
    <3>3. Key(calls[p].offer) \in Jobs \X Epochs
      BY <3>1 DEF Key, Offer
    <3>4. offers[Key(calls[p].offer)] \in OfferRow
      BY <2>9, <3>3 DEF markOfferPublished
    <3> QED
      BY <2>9, <3>2, <3>3, <3>4 DEF markOfferPublished, Continue, OfferRow, clockVars, evidenceVars
  <2>10. ASSUME NEW m \in Messages, ReceiptCheck(p, m) PROVE TypeOK'
    <3>1. [stage |-> "receipt", session |-> epoch, message |-> m] \in Call
      BY <2>10 DEF ReceiptCheck, Epochs, Call
    <3> QED
      BY <2>10, <3>1 DEF ReceiptCheck, Begin, clockVars, offerVars, evidenceVars
  <2>11. CASE ReceiptReplay(p)
    <3>1. AckOf(calls[p]) \in Ack
      BY <2>11, CallTypes, ControlAssumption DEF ReceiptReplay, AckOf, Ack, IsReceipt, Digests
    <3>2. acks' \subseteq Ack
      BY <2>11, <3>1 DEF ReceiptReplay, insertAck
    <3> QED
      BY <2>11, <3>2 DEF ReceiptReplay, Return, clockVars, offerVars
  <2>12. CASE PersistReceipt(p)
    <3> DEFINE m == calls[p].message
    <3>1. m \in Messages /\ IsReceipt(m) /\ calls[p].session \in Epochs
      BY <2>12, CallTypes, ControlAssumption DEF PersistReceipt
    <3>2. AckOf(calls[p]) \in Ack
      BY <3>1 DEF AckOf, Ack, IsReceipt, Digests
    <3>3. acks' \subseteq Ack
      BY <2>12, <3>2 DEF PersistReceipt, insertAck
    <3>4. /\ m.content \in Receipt /\ m.content.job \in Jobs
          /\ m.stream \in Streams /\ m.position \in 1..MaxPosition
          /\ m.stream[1] \in StreamIds /\ Place(m) \in Places
      BY <3>1 DEF IsReceipt, Receipt, Streams, Places, Place
    <3>5. intents[m.content.job] \in Intent
      BY <2>12, <3>4 DEF PersistReceipt, matchesIntent
    <3>6. Reported(intents[m.content.job], m.content) \in Intent
      BY <3>4, <3>5 DEF Reported, Intent
    <3>7. /\ intents' \in [Jobs -> Intent \cup {None}]
          /\ binding' \in StreamIds \cup {None}
          /\ calls' \in [Processes -> Call \cup {None}]
      BY <2>12, <3>4, <3>6 DEF PersistReceipt, Return
    <3>8. /\ cursor' \in [Streams -> 0..MaxPosition]
          /\ deliveries' \in [Places -> Receipt \cup {None}]
      BY <2>12, <3>4 DEF PersistReceipt
    <3> QED
      BY <2>12, <3>3, <3>7, <3>8 DEF PersistReceipt, clockVars, offerVars
  <2>13. CASE Fail(p)
    BY <2>13 DEF Fail, Return, clockVars, offerVars, evidenceVars
  <2> QED
    BY <1>4, <2>1, <2>2, <2>3, <2>4, <2>5, <2>6, <2>7, <2>8, <2>9, <2>10, <2>11, <2>12, <2>13
    DEF Step
<1>5. CASE UNCHANGED vars
  BY <1>5 DEF vars, clockVars, offerVars, evidenceVars
<1> QED
  BY <1>1, <1>2, <1>3, <1>4, <1>5 DEF Next

\* Every table of the ledger, every command in flight and everything published
\* keeps its type.
THEOREM TypeCorrect == Spec => []TypeOK
  BY InitTypeOK, NextTypeOK, PTL DEF Spec

----------------------------------------------------------------------------
(* Nothing that was recorded changes: rows of the outbox keep their offer, *)
(* rows of the intents keep their intent.                                  *)

OffersKept == \A k \in Jobs \X Epochs : offers[k] # None =>
    offers'[k] # None /\ offers'[k].offer = offers[k].offer
IntentsKept == \A j \in Jobs : intents[j] # None =>
    intents'[j] # None /\ intents'[j].intent = intents[j].intent

LEMMA LedgerKept ==
    ASSUME TypeOK, [Next]_vars
    PROVE  OffersKept /\ IntentsKept
<1> USE DEF TypeOK
<1>1. CASE UNCHANGED <<intents, offers>>
  BY <1>1 DEF OffersKept, IntentsKept
<1>2. ASSUME NEW p \in Processes, PersistIntentAndOffer(p) PROVE OffersKept /\ IntentsKept
  <2>1. calls[p].offer \in Offer
    BY <1>2, CallTypes DEF PersistIntentAndOffer
  <2>2. Key(calls[p].offer) \in Jobs \X Epochs /\ calls[p].offer.job \in Jobs
    BY <2>1 DEF Key, Offer
  <2>3. OffersKept
    BY <1>2, <2>2 DEF PersistIntentAndOffer, OffersKept
  <2>4. IntentsKept
    BY <1>2, <2>2 DEF PersistIntentAndOffer, IntentsKept
  <2> QED
    BY <2>3, <2>4
<1>3. ASSUME NEW p \in Processes, PersistReoffer(p) PROVE OffersKept /\ IntentsKept
  <2>1. calls[p].jobs \subseteq Jobs /\ calls[p].session \in Epochs
    BY <1>3, CallTypes DEF PersistReoffer
  <2>2. PICK j \in calls[p].jobs :
          LET offer == MakeOffer(j, calls[p].session, intents[j].intent,
                                 intents[j].expires, calls[p].now)
          IN  UNCHANGED offers \/ (offers[Key(offer)] = None /\ Stage(offer))
    BY <1>3 DEF PersistReoffer, mayStage
  <2> DEFINE offer == MakeOffer(j, calls[p].session, intents[j].intent,
                                intents[j].expires, calls[p].now)
  <2>3. Key(offer) \in Jobs \X Epochs
    BY <2>1 DEF Key, MakeOffer
  <2>4. OffersKept
    BY <2>2, <2>3 DEF Stage, OffersKept
  <2>5. IntentsKept
    BY <1>3 DEF PersistReoffer, IntentsKept
  <2> QED
    BY <2>4, <2>5
<1>4. ASSUME NEW p \in Processes, markOfferPublished(p) PROVE OffersKept /\ IntentsKept
  <2> DEFINE k == Key(calls[p].offer)
  <2>1. k \in Jobs \X Epochs
    BY <1>4, CallTypes DEF markOfferPublished, Key, Offer
  <2>2. [offer |-> offers[k].offer, published |-> TRUE] \in OfferRow
    BY <1>4, <2>1 DEF markOfferPublished, OfferRow
  <2>3. offers' = [offers EXCEPT ![k] = [offer |-> offers[k].offer, published |-> TRUE]]
    BY <1>4 DEF markOfferPublished
  <2>4. OffersKept
    BY <2>1, <2>2, <2>3, NoneAssumption DEF OffersKept
  <2>5. IntentsKept
    BY <1>4 DEF markOfferPublished, IntentsKept
  <2> QED
    BY <2>4, <2>5
<1>5. ASSUME NEW p \in Processes, PersistReceipt(p) PROVE OffersKept /\ IntentsKept
  <2> DEFINE m == calls[p].message
  <2>1. m.content.job \in Jobs
    BY <1>5, CallTypes, ControlAssumption DEF PersistReceipt, IsReceipt
  <2>2. Reported(intents[m.content.job], m.content).intent = intents[m.content.job].intent
        /\ Reported(intents[m.content.job], m.content) \in Intent
    <3>1. intents[m.content.job] \in Intent
      BY <1>5, <2>1 DEF PersistReceipt, matchesIntent
    <3>2. m.content \in Receipt
      BY <1>5, CallTypes DEF PersistReceipt, Receipt
    <3> QED
      BY <3>1, <3>2 DEF Reported, Intent
  <2>3. IntentsKept
    BY <1>5, <2>1, <2>2, NoneAssumption DEF PersistReceipt, IntentsKept
  <2>4. OffersKept
    BY <1>5 DEF PersistReceipt, OffersKept, offerVars
  <2> QED
    BY <2>3, <2>4
<1> QED
  BY <1>1, <1>2, <1>3, <1>4, <1>5
  DEF Next, Tick, Reconnect, SessionHealth, Step, CreateRead, ReofferStart, ReofferList,
      PublishStart, PublishList, Publish, ReceiptCheck, ReceiptReplay, Fail,
      vars, offerVars

----------------------------------------------------------------------------
(* The offers that are published, or about to be, are rows of the outbox,  *)
(* of which there is one for a job in a session.                           *)

Stored(o) == offers[Key(o)] # None /\ offers[Key(o)].offer = o
RowsAreKeyed == \A k \in Jobs \X Epochs : offers[k] # None => Key(offers[k].offer) = k
PublishedIsStored == \A o \in published : Stored(o)
ListedIsStored ==
    \A p \in Processes :
        /\ At(p, "publishing") \/ At(p, "sent") => \A o \in calls[p].offers : Stored(o)
        /\ At(p, "sent") => Stored(calls[p].offer)

LEMMA StoredStays ==
    ASSUME TypeOK, [Next]_vars, NEW o \in Offer, Stored(o)
    PROVE  Stored(o)'
<1>1. Key(o) \in Jobs \X Epochs
  BY DEF Key, Offer
<1>2. OffersKept
  BY LedgerKept
<1> QED
  BY <1>1, <1>2 DEF Stored, OffersKept, Key

LEMMA KeyedStep ==
    ASSUME TypeOK, [Next]_vars, RowsAreKeyed
    PROVE  RowsAreKeyed'
<1> USE DEF TypeOK
<1>1. CASE UNCHANGED offers
  BY <1>1 DEF RowsAreKeyed, Key
<1>2. ASSUME NEW p \in Processes, PersistIntentAndOffer(p) PROVE RowsAreKeyed'
  <2>1. calls[p].offer \in Offer
    BY <1>2, CallTypes DEF PersistIntentAndOffer
  <2> QED
    BY <1>2, <2>1 DEF PersistIntentAndOffer, RowsAreKeyed, Key
<1>3. ASSUME NEW p \in Processes, PersistReoffer(p) PROVE RowsAreKeyed'
  <2>1. PICK o : UNCHANGED offers \/ Stage(o)
    BY <1>3 DEF PersistReoffer
  <2>2. CASE Stage(o)
    <3>1. ASSUME NEW k \in Jobs \X Epochs
          PROVE  offers'[k] = IF k = Key(o) THEN [offer |-> o, published |-> FALSE] ELSE offers[k]
      BY <2>2 DEF Stage
    <3> QED
      BY <3>1 DEF RowsAreKeyed
  <2> QED
    BY <1>1, <2>1, <2>2
<1>4. ASSUME NEW p \in Processes, markOfferPublished(p) PROVE RowsAreKeyed'
  BY <1>4 DEF markOfferPublished, RowsAreKeyed, Key
<1> QED
  BY <1>1, <1>2, <1>3, <1>4
  DEF Next, Tick, Reconnect, SessionHealth, Step, CreateRead, ReofferStart, ReofferList,
      PublishStart, PublishList, Publish, ReceiptCheck, ReceiptReplay, PersistReceipt, Fail,
      vars, offerVars

\* A process that is not publishing afterwards, and the others as they were.
Elsewhere(p) ==
    /\ ~At(p, "publishing")' /\ ~At(p, "sent")'
    /\ \A q \in Processes \ {p} : UNCHANGED calls[q]

LEMMA ListedStep ==
    ASSUME TypeOK, [Next]_vars, RowsAreKeyed, ListedIsStored
    PROVE  ListedIsStored'
<1> USE DEF TypeOK
<1>1. ASSUME NEW q \in Processes, UNCHANGED calls[q]
      PROVE  /\ At(q, "publishing")' \/ At(q, "sent")' => \A o \in calls'[q].offers : Stored(o)'
             /\ At(q, "sent")' => Stored(calls[q].offer)'
  <2>1. ASSUME At(q, "publishing")' \/ At(q, "sent")', NEW o \in calls'[q].offers
        PROVE  Stored(o)'
    <3>1. (At(q, "publishing") \/ At(q, "sent")) /\ o \in calls[q].offers
      BY <1>1, <2>1 DEF At
    <3>2. o \in Offer
      BY <3>1, CallTypes
    <3> QED
      BY <3>1, <3>2, StoredStays DEF ListedIsStored
  <2>2. ASSUME At(q, "sent")' PROVE Stored(calls[q].offer)'
    <3>1. At(q, "sent")
      BY <1>1, <2>2 DEF At
    <3>2. Stored(calls[q].offer) /\ calls[q].offer \in Offer
      BY <3>1, CallTypes DEF ListedIsStored
    <3>3. offers'[Key(calls[q].offer)] # None /\ offers'[Key(calls[q].offer)].offer = calls[q].offer
      BY <3>2, StoredStays DEF Stored, Key
    <3> QED
      BY <1>1, <3>3 DEF Stored, Key
  <2> QED
    BY <2>1, <2>2
<1>2. ASSUME NEW p \in Processes, Step(p), ~(PublishList(p) \/ Publish(p) \/ markOfferPublished(p))
      PROVE  /\ ~At(p, "publishing")' /\ ~At(p, "sent")'
             /\ \A q \in Processes \ {p} : UNCHANGED calls[q]
  <2>1. ASSUME NEW call, call.stage # "publishing" /\ call.stage # "sent", Begin(p, call)
        PROVE  Elsewhere(p)
    BY <2>1 DEF Begin, At, Elsewhere
  <2>2. ASSUME Return(p) PROVE Elsewhere(p)
    BY <2>2 DEF Return, At, Elsewhere
  <2>3. ASSUME NEW call, call.stage # "publishing" /\ call.stage # "sent", NEW todo,
               Continue(p, call, todo)
        PROVE  Elsewhere(p)
    BY <2>3 DEF Continue, At, Elsewhere
  <2>4. ASSUME \E k \in Commands : CreateRead(p, k) PROVE Elsewhere(p)
    BY <2>1, <2>4 DEF CreateRead
  <2>5. ASSUME PersistIntentAndOffer(p) \/ ReceiptReplay(p) \/ PersistReceipt(p) \/ Fail(p) PROVE Elsewhere(p)
    BY <2>2, <2>5 DEF PersistIntentAndOffer, ReceiptReplay, PersistReceipt, Fail
  <2>6. ASSUME ReofferStart(p) PROVE Elsewhere(p)
    BY <2>1, <2>6 DEF ReofferStart
  <2>7. ASSUME ReofferList(p) PROVE Elsewhere(p)
    BY <2>3, <2>7 DEF ReofferList, Reoffering
  <2>8. ASSUME PersistReoffer(p) PROVE Elsewhere(p)
    BY <2>3, <2>8 DEF PersistReoffer, Reoffering
  <2>9. ASSUME PublishStart(p) PROVE Elsewhere(p)
    BY <2>1, <2>9 DEF PublishStart
  <2>10. ASSUME \E m \in Messages : ReceiptCheck(p, m) PROVE Elsewhere(p)
    BY <2>1, <2>10 DEF ReceiptCheck
  <2>11. Elsewhere(p)
    BY <1>2, <2>4, <2>5, <2>6, <2>7, <2>8, <2>9, <2>10 DEF Step
  <2> QED
    BY <2>11 DEF Elsewhere
<1>3. ASSUME NEW p \in Processes, PublishList(p) PROVE ListedIsStored'
  <2>1. \A q \in Processes \ {p} : UNCHANGED calls[q]
    BY <1>3 DEF PublishList, Continue
  <2>2. ~At(p, "sent")'
    BY <1>3 DEF PublishList, Continue, At
  <2>3. ASSUME At(p, "publishing")', NEW o \in calls'[p].offers PROVE Stored(o)'
    <3>1. calls'[p].offers = {offers[k].offer : k \in {d \in Dispatchable :
            d[2] = calls[p].session /\ offers[d].offer.expires > calls[p].now}}
      BY <1>3, <2>3 DEF PublishList, Continue, At
    <3>2. PICK k \in Jobs \X Epochs : offers[k] # None /\ o = offers[k].offer
      BY <2>3, <3>1 DEF Dispatchable
    <3>3. Key(o) = k /\ UNCHANGED offers
      BY <1>3, <3>2 DEF RowsAreKeyed, PublishList, offerVars
    <3> QED
      BY <3>2, <3>3 DEF Stored, Key
  <2> QED
    BY <1>1, <2>1, <2>2, <2>3 DEF ListedIsStored
<1>4. ASSUME NEW p \in Processes, Publish(p) PROVE ListedIsStored'
  <2>1. \A q \in Processes \ {p} : UNCHANGED calls[q]
    BY <1>4 DEF Publish
  <2>2. ~At(p, "publishing")' /\ calls'[p].offer \in calls[p].offers
        /\ calls'[p].offers \subseteq calls[p].offers
    BY <1>4 DEF Publish, At
  <2>3. ASSUME NEW o \in calls[p].offers PROVE Stored(o)'
    BY <1>4 DEF Publish, ListedIsStored, Stored, Key, offerVars
  <2>4. Stored(calls[p].offer)'
    BY <2>2, <2>3 DEF Stored, Key
  <2> QED
    BY <1>1, <2>1, <2>2, <2>3, <2>4 DEF ListedIsStored
<1>5. ASSUME NEW p \in Processes, markOfferPublished(p) PROVE ListedIsStored'
  <2>1. \A q \in Processes \ {p} : UNCHANGED calls[q]
    BY <1>5 DEF markOfferPublished, Continue
  <2>2. ~At(p, "sent")'
    BY <1>5 DEF markOfferPublished, Continue, At
  <2>3. ASSUME At(p, "publishing")', NEW o \in calls'[p].offers PROVE Stored(o)'
    <3>1. At(p, "sent") /\ calls'[p].offers = calls[p].offers
      BY <1>5, <2>3 DEF markOfferPublished, Continue, At
    <3>2. o \in Offer /\ Stored(o)
      BY <2>3, <3>1, CallTypes DEF ListedIsStored
    <3> QED
      BY <3>2, StoredStays
  <2> QED
    BY <1>1, <2>1, <2>2, <2>3 DEF ListedIsStored
<1>6. ASSUME NEW p \in Processes, Step(p) PROVE ListedIsStored'
  <2>1. CASE PublishList(p) \/ Publish(p) \/ markOfferPublished(p)
    BY <1>3, <1>4, <1>5, <2>1
  <2>2. CASE ~(PublishList(p) \/ Publish(p) \/ markOfferPublished(p))
    <3>1. /\ ~At(p, "publishing")' /\ ~At(p, "sent")'
          /\ \A q \in Processes \ {p} : UNCHANGED calls[q]
      BY <1>2, <1>6, <2>2
    <3> QED
      BY <1>1, <3>1 DEF ListedIsStored
  <2> QED
    BY <2>1, <2>2
<1>7. CASE UNCHANGED calls
  <2>1. \A q \in Processes : UNCHANGED calls[q]
    BY <1>7
  <2> QED
    BY <1>1, <2>1 DEF ListedIsStored
<1> QED
  BY <1>6, <1>7 DEF Next, Tick, Reconnect, SessionHealth, vars

LEMMA PublishedStep ==
    ASSUME TypeOK, [Next]_vars, ListedIsStored, PublishedIsStored
    PROVE  PublishedIsStored'
<1> USE DEF TypeOK
<1>1. ASSUME NEW o \in published' PROVE o \in published \/ \E p \in Processes :
        Publish(p) /\ o \in calls[p].offers
  <2>1. ASSUME NEW p \in Processes, Publish(p) PROVE published' \subseteq published \cup calls[p].offers
    BY <2>1 DEF Publish
  <2>2. CASE \A p \in Processes : ~Publish(p)
    <3>1. UNCHANGED published
      BY <2>2
      DEF Next, Tick, Reconnect, SessionHealth, Step, CreateRead, PersistIntentAndOffer,
          ReofferStart, ReofferList, PersistReoffer, PublishStart, PublishList,
          markOfferPublished, ReceiptCheck, ReceiptReplay, PersistReceipt, Fail, vars
    <3> QED
      BY <1>1, <3>1
  <2> QED
    BY <1>1, <2>1, <2>2
<1>2. ASSUME NEW o \in published' PROVE o \in Offer /\ Stored(o)
  <2>1. CASE o \in published
    BY <2>1 DEF PublishedIsStored
  <2>2. ASSUME NEW p \in Processes, Publish(p), o \in calls[p].offers PROVE o \in Offer /\ Stored(o)
    BY <2>2, CallTypes DEF Publish, ListedIsStored
  <2> QED
    BY <1>1, <2>1, <2>2
<1> QED
  BY <1>2, StoredStays DEF PublishedIsStored

OutboxInv == TypeOK /\ RowsAreKeyed /\ ListedIsStored /\ PublishedIsStored

LEMMA OutboxInvariant == Spec => []OutboxInv
<1>1. Init => OutboxInv
  BY InitTypeOK DEF Init, OutboxInv, RowsAreKeyed, ListedIsStored, PublishedIsStored, At
<1>2. OutboxInv /\ [Next]_vars => OutboxInv'
  BY NextTypeOK, KeyedStep, ListedStep, PublishedStep DEF OutboxInv
<1> QED
  BY <1>1, <1>2, PTL DEF Spec

\* The edge never sees two different offers of a job in one session.
THEOREM OneOffer == Spec => []OneOfferPerSession
<1>1. OutboxInv => OneOfferPerSession
  BY DEF OutboxInv, PublishedIsStored, Stored, OneOfferPerSession
<1> QED
  BY <1>1, OutboxInvariant, PTL

----------------------------------------------------------------------------
(* One intent for a job.                                                   *)

OffersFollowIntent == \A k \in Jobs \X Epochs : offers[k] # None =>
    intents[k[1]] # None /\ intents[k[1]].intent = offers[k].offer.intent
ReceiptsFollowIntent == \A p \in Places : deliveries[p] # None =>
    intents[deliveries[p].job] # None /\ intents[deliveries[p].job].intent = deliveries[p].intent

\* A stored receipt is one that the edge can send.
LEMMA ReceiptFields ==
    ASSUME NEW c \in Receipt
    PROVE  c.job \in Jobs /\ c.intent \in Intents
  BY ControlAssumption DEF Receipt, IsReceipt

LEMMA OffersFollowStep ==
    ASSUME TypeOK, [Next]_vars, OffersFollowIntent
    PROVE  OffersFollowIntent'
<1> USE DEF TypeOK
<1>1. CASE UNCHANGED offers
  <2> SUFFICES ASSUME NEW k \in Jobs \X Epochs, offers[k] # None
               PROVE  intents'[k[1]] # None /\ intents'[k[1]].intent = offers[k].offer.intent
    BY <1>1 DEF OffersFollowIntent
  <2> QED
    BY LedgerKept DEF OffersFollowIntent, IntentsKept
<1>2. ASSUME NEW p \in Processes, PersistIntentAndOffer(p) PROVE OffersFollowIntent'
  <2> DEFINE o == calls[p].offer
  <2>1. o \in Offer /\ o.job \in Jobs /\ o.intent \in Intents /\ o.expires \in Expiries
    BY <1>2, CallTypes DEF PersistIntentAndOffer, Offer
  <2>2. intents'[o.job] # None /\ intents'[o.job].intent = o.intent
    <3>1. CASE intents[o.job] # None
      BY <1>2, <3>1 DEF PersistIntentAndOffer, sameIntent
    <3>2. CASE intents[o.job] = None
      <4>1. [intent |-> o.intent, expires |-> o.expires, receipt |-> None, revision |-> 1] \in Intent
        BY <2>1 DEF Intent
      <4> QED
        BY <1>2, <2>1, <3>2, <4>1, NoneAssumption DEF PersistIntentAndOffer
    <3> QED
      BY <3>1, <3>2
  <2>3. ASSUME NEW k \in Jobs \X Epochs, offers'[k] # None
        PROVE  intents'[k[1]] # None /\ intents'[k[1]].intent = offers'[k].offer.intent
    <3>1. CASE offers[k] # None
      <4>1. offers'[k].offer = offers[k].offer
        BY <3>1, LedgerKept DEF OffersKept
      <4> QED
        BY <3>1, <4>1, LedgerKept DEF IntentsKept, OffersFollowIntent
    <3>2. CASE offers[k] = None
      <4>1. k = Key(o) /\ offers'[k].offer = o
        BY <1>2, <2>3, <3>2 DEF PersistIntentAndOffer
      <4> QED
        BY <2>2, <4>1 DEF Key
    <3> QED
      BY <3>1, <3>2
  <2> QED
    BY <2>3 DEF OffersFollowIntent
<1>3. ASSUME NEW p \in Processes, PersistReoffer(p) PROVE OffersFollowIntent'
  <2>1. PICK j \in calls[p].jobs :
          LET offer == MakeOffer(j, calls[p].session, intents[j].intent,
                                 intents[j].expires, calls[p].now)
          IN  intents[j] # None /\ (UNCHANGED offers \/ Stage(offer))
    BY <1>3 DEF PersistReoffer
  <2> DEFINE o == MakeOffer(j, calls[p].session, intents[j].intent,
                            intents[j].expires, calls[p].now)
  <2>2. o.job = j /\ o.intent = intents[j].intent /\ UNCHANGED intents
    BY <1>3 DEF MakeOffer, PersistReoffer
  <2>3. CASE Stage(o)
    BY <2>1, <2>2, <2>3 DEF Stage, Key, OffersFollowIntent
  <2> QED
    BY <1>1, <2>1, <2>3
<1>4. ASSUME NEW p \in Processes, markOfferPublished(p) PROVE OffersFollowIntent'
  BY <1>4 DEF markOfferPublished, OffersFollowIntent
<1> QED
  BY <1>1, <1>2, <1>3, <1>4
  DEF Next, Tick, Reconnect, SessionHealth, Step, CreateRead, ReofferStart, ReofferList,
      PublishStart, PublishList, Publish, ReceiptCheck, ReceiptReplay, PersistReceipt, Fail,
      vars, offerVars

LEMMA ReceiptsFollowStep ==
    ASSUME TypeOK, [Next]_vars, ReceiptsFollowIntent
    PROVE  ReceiptsFollowIntent'
<1> USE DEF TypeOK
<1>1. CASE UNCHANGED deliveries
  <2>1. ASSUME NEW p \in Places, deliveries'[p] # None
        PROVE  intents'[deliveries'[p].job] # None
               /\ intents'[deliveries'[p].job].intent = deliveries'[p].intent
    <3>1. deliveries'[p] = deliveries[p] /\ deliveries[p] \in Receipt /\ deliveries[p].job \in Jobs
      BY <1>1, <2>1, ReceiptFields
    <3> QED
      BY <2>1, <3>1, LedgerKept DEF IntentsKept, ReceiptsFollowIntent
  <2> QED
    BY <2>1 DEF ReceiptsFollowIntent
<1>2. ASSUME NEW p \in Processes, PersistReceipt(p) PROVE ReceiptsFollowIntent'
  <2> DEFINE m == calls[p].message
  <2>1. m.content \in Receipt /\ m.content.job \in Jobs
    BY <1>2, CallTypes, ReceiptFields DEF PersistReceipt, Receipt
  <2>2. intents'[m.content.job] # None /\ intents'[m.content.job].intent = m.content.intent
    BY <1>2, <2>1, LedgerKept DEF PersistReceipt, matchesIntent, IntentsKept
  <2>3. ASSUME NEW q \in Places, deliveries'[q] # None
        PROVE  intents'[deliveries'[q].job] # None
               /\ intents'[deliveries'[q].job].intent = deliveries'[q].intent
    <3>1. CASE q = Place(m)
      BY <1>2, <2>2, <3>1 DEF PersistReceipt
    <3>2. CASE q # Place(m)
      <4>1. deliveries'[q] = deliveries[q] /\ deliveries[q].job \in Jobs
        BY <1>2, <2>3, <3>2, ReceiptFields DEF PersistReceipt
      <4> QED
        BY <2>3, <4>1, LedgerKept DEF IntentsKept, ReceiptsFollowIntent
    <3> QED
      BY <3>1, <3>2
  <2> QED
    BY <2>3 DEF ReceiptsFollowIntent
<1> QED
  BY <1>1, <1>2
  DEF Next, Tick, Reconnect, SessionHealth, Step, CreateRead, PersistIntentAndOffer, ReofferStart,
      ReofferList, PersistReoffer, PublishStart, PublishList, Publish, markOfferPublished,
      ReceiptCheck, ReceiptReplay, Fail, vars, offerVars, evidenceVars

IntentInv == OutboxInv /\ OffersFollowIntent /\ ReceiptsFollowIntent

LEMMA IntentInvariant == Spec => []IntentInv
<1>1. Init => OffersFollowIntent /\ ReceiptsFollowIntent
  BY DEF Init, OffersFollowIntent, ReceiptsFollowIntent
<1>2. OutboxInv /\ OffersFollowIntent /\ ReceiptsFollowIntent /\ [Next]_vars
        => (OffersFollowIntent /\ ReceiptsFollowIntent)'
  BY OffersFollowStep, ReceiptsFollowStep DEF OutboxInv
<1> QED
  BY <1>1, <1>2, OutboxInvariant, PTL DEF Spec, IntentInv

\* A job means one action, in every offer and in every receipt.
THEOREM OneIntent == Spec => []OneIntentPerJob
<1>1. ASSUME IntentInv, NEW o \in published
      PROVE  intents[o.job] # None /\ intents[o.job].intent = o.intent
  <2>1. Stored(o) /\ o \in Offer
    BY <1>1 DEF IntentInv, OutboxInv, PublishedIsStored, TypeOK
  <2>2. Key(o) \in Jobs \X Epochs /\ Key(o)[1] = o.job
    BY <2>1 DEF Key, Offer
  <2> QED
    BY <1>1, <2>1, <2>2 DEF IntentInv, OffersFollowIntent, Stored
<1>2. IntentInv => OneIntentPerJob
  BY <1>1 DEF IntentInv, OffersFollowIntent, ReceiptsFollowIntent, OneIntentPerJob
<1> QED
  BY <1>2, IntentInvariant, PTL

----------------------------------------------------------------------------
(* The evidence: contiguous, counted once, acknowledged when stored.       *)

LEMMA PlacesFinite == IsFiniteSet(Places)
<1>1. IsFiniteSet(1..MaxStreamEpoch) /\ IsFiniteSet(1..MaxPosition)
  BY ControlAssumption, FS_Interval
<1>2. IsFiniteSet(Streams)
  BY <1>1, ControlAssumption, FS_Product DEF Streams
<1> QED
  BY <1>1, <1>2, FS_Product DEF Places

\* What persisting a receipt does to the evidence.
LEMMA ReceiptIsAppended ==
    ASSUME TypeOK, NEW p \in Processes, PersistReceipt(p)
    PROVE  LET m == calls[p].message IN
           /\ m \in Messages /\ m.content \in Receipt /\ m.content # None
           /\ m.content.job \in Jobs /\ m.stream \in Streams /\ m.position \in 1..MaxPosition
           /\ Place(m) \in Places /\ deliveries[Place(m)] = None
           /\ \A q \in Places : deliveries'[q] = IF q = Place(m) THEN m.content ELSE deliveries[q]
           /\ \A s \in Streams : cursor'[s] = IF s = m.stream THEN cursor[s] + 1 ELSE cursor[s]
           /\ m.position = cursor[m.stream] + 1
           /\ binding' = m.stream[1] /\ binding \in {None, m.stream[1]}
<1> DEFINE m == calls[p].message
<1>1. m \in Messages /\ IsReceipt(m)
  BY CallTypes, ControlAssumption DEF PersistReceipt
<1>2. /\ m.content \in Receipt /\ m.content # None
      /\ m.content.job \in Jobs /\ m.stream \in Streams /\ m.position \in 1..MaxPosition
      /\ Place(m) \in Places
  BY <1>1, NoneAssumption DEF IsReceipt, Receipt, Place, Places
<1> QED
  BY <1>1, <1>2 DEF TypeOK, PersistReceipt, bound, expectedPosition

LEMMA EvidenceStep ==
    ASSUME TypeOK, [Next]_vars, NoGaps, OneStreamId, CountedOnce
    PROVE  NoGaps' /\ OneStreamId' /\ CountedOnce'
<1>1. CASE UNCHANGED <<binding, cursor, deliveries>>
  BY <1>1 DEF NoGaps, OneStreamId, CountedOnce
<1>2. ASSUME NEW p \in Processes, PersistReceipt(p) PROVE NoGaps' /\ OneStreamId' /\ CountedOnce'
  <2> DEFINE m == calls[p].message
  <2>1. /\ m.content # None /\ m.stream \in Streams /\ m.position \in 1..MaxPosition
        /\ Place(m) \in Places /\ deliveries[Place(m)] = None
        /\ \A q \in Places : deliveries'[q] = IF q = Place(m) THEN m.content ELSE deliveries[q]
        /\ \A s \in Streams : cursor'[s] = IF s = m.stream THEN cursor[s] + 1 ELSE cursor[s]
        /\ m.position = cursor[m.stream] + 1
        /\ binding' = m.stream[1] /\ binding \in {None, m.stream[1]}
    BY <1>2, ReceiptIsAppended
  <2>2. \A q \in Places : /\ q[1] \in Streams /\ q[2] \in 1..MaxPosition /\ q = <<q[1], q[2]>>
                          /\ q[1] \in StreamIds \X (1..MaxStreamEpoch)
    BY DEF Places, Streams
  <2>3. NoGaps'
    <3> SUFFICES ASSUME NEW q \in Places PROVE deliveries'[q] # None <=> q[2] <= cursor'[q[1]]
      BY DEF NoGaps
    <3>1. cursor[q[1]] \in Nat /\ q[2] \in Nat
      BY <2>2, ControlAssumption DEF TypeOK
    <3>2. CASE q = Place(m)
      BY <2>1, <3>1, <3>2 DEF Place
    <3>3. CASE q # Place(m) /\ q[1] = m.stream
      <4>1. q[2] # m.position
        BY <2>2, <3>3 DEF Place
      <4> QED
        BY <2>1, <2>2, <3>1, <3>3, <4>1 DEF NoGaps
    <3>4. CASE q[1] # m.stream
      BY <2>1, <2>2, <3>4 DEF NoGaps, Place
    <3> QED
      BY <3>2, <3>3, <3>4
  <2>4. OneStreamId'
    <3>1. ASSUME NEW q \in Places, deliveries'[q] # None PROVE q[1][1] = m.stream[1]
      <4>1. CASE q = Place(m)
        BY <4>1 DEF Place
      <4>2. CASE q # Place(m)
        BY <2>1, <2>2, <3>1, <4>2, ControlAssumption DEF OneStreamId
      <4> QED
        BY <4>1, <4>2
    <3> QED
      BY <2>1, <3>1 DEF OneStreamId
  <2>5. \A q \in Places : deliveries[q] # m.content
    BY <1>2, <2>1 DEF PersistReceipt, receiptKnown
  <2>6. CountedOnce'
    BY <2>1, <2>5 DEF CountedOnce
  <2> QED
    BY <2>3, <2>4, <2>6
<1> QED
  BY <1>1, <1>2
  DEF Next, Tick, Reconnect, SessionHealth, Step, CreateRead, PersistIntentAndOffer, ReofferStart,
      ReofferList, PersistReoffer, PublishStart, PublishList, Publish, markOfferPublished,
      ReceiptCheck, ReceiptReplay, Fail, vars, offerVars, evidenceVars

LEMMA RevisionStep ==
    ASSUME TypeOK, [Next]_vars, ReceiptsFollowIntent, RevisionCounts
    PROVE  RevisionCounts'
<1> USE DEF TypeOK
<1>1. \A j \in Jobs : IsFiniteSet(ReceiptsOf(j))
  BY PlacesFinite, FS_Subset DEF ReceiptsOf
<1>2. CASE UNCHANGED <<intents, deliveries>>
  BY <1>2 DEF RevisionCounts, ReceiptsOf
<1>3. ASSUME NEW p \in Processes, PersistIntentAndOffer(p) PROVE RevisionCounts'
  <2> DEFINE o == calls[p].offer
  <2>1. o \in Offer /\ o.job \in Jobs /\ UNCHANGED deliveries
    BY <1>3, CallTypes DEF PersistIntentAndOffer, Offer, evidenceVars
  <2>2. \A j \in Jobs : ReceiptsOf(j)' = ReceiptsOf(j)
    BY <2>1 DEF ReceiptsOf
  <2>3. CASE intents[o.job] # None
    BY <1>3, <2>2, <2>3 DEF PersistIntentAndOffer, RevisionCounts
  <2>4. CASE intents[o.job] = None
    <3>1. ReceiptsOf(o.job) = {}
      BY <2>4 DEF ReceiptsOf, ReceiptsFollowIntent
    <3>2. Cardinality(ReceiptsOf(o.job)) = 0
      BY <3>1, FS_EmptySet
    <3>3. intents' = [intents EXCEPT ![o.job] = [intent |-> o.intent, expires |-> o.expires,
                                                  receipt |-> None, revision |-> 1]]
      BY <1>3, <2>4 DEF PersistIntentAndOffer
    <3>4. ASSUME NEW j \in Jobs, intents'[j] # None
          PROVE  /\ intents'[j].revision = 1 + Cardinality(ReceiptsOf(j)')
                 /\ (intents'[j].receipt = None) <=> (ReceiptsOf(j)' = {})
      <4>1. CASE j = o.job
        <5>1. intents'[j].revision = 1 /\ intents'[j].receipt = None
          BY <2>1, <3>3, <4>1
        <5>2. ReceiptsOf(j)' = {} /\ Cardinality(ReceiptsOf(j)') = 0
          BY <2>2, <3>1, <3>2, <4>1
        <5> QED
          BY <5>1, <5>2
      <4>2. CASE j # o.job
        <5>1. intents'[j] = intents[j]
          BY <2>1, <3>3, <4>2
        <5> QED
          BY <2>2, <3>4, <5>1 DEF RevisionCounts
      <4> QED
        BY <4>1, <4>2
    <3> QED
      BY <3>4 DEF RevisionCounts
  <2> QED
    BY <2>3, <2>4
<1>4. ASSUME NEW p \in Processes, PersistReceipt(p) PROVE RevisionCounts'
  <2> DEFINE m == calls[p].message
  <2>1. /\ m.content # None /\ m.content \in Receipt /\ m.content.job \in Jobs
        /\ Place(m) \in Places /\ deliveries[Place(m)] = None
        /\ \A q \in Places : deliveries'[q] = IF q = Place(m) THEN m.content ELSE deliveries[q]
    BY <1>4, ReceiptIsAppended
  <2>2. /\ intents' = [intents EXCEPT ![m.content.job] =
                         Reported(intents[m.content.job], m.content)]
        /\ intents[m.content.job] # None
    BY <1>4 DEF PersistReceipt, matchesIntent
  <2>3. PICK j0 \in Jobs, c \in Receipt, q0 \in Places :
          /\ c # None /\ c.job = j0 /\ deliveries[q0] = None
          /\ \A q \in Places : deliveries'[q] = IF q = q0 THEN c ELSE deliveries[q]
          /\ intents' = [intents EXCEPT ![j0] = Reported(intents[j0], c)]
          /\ intents[j0] # None
    BY <2>1, <2>2
  <2>4. ReceiptsOf(j0)' = ReceiptsOf(j0) \cup {q0} /\ q0 \notin ReceiptsOf(j0)
    BY <2>3 DEF ReceiptsOf
  <2>5. \A j \in Jobs \ {j0} : ReceiptsOf(j)' = ReceiptsOf(j)
    BY <2>3 DEF ReceiptsOf
  <2>6. /\ Cardinality(ReceiptsOf(j0)') = Cardinality(ReceiptsOf(j0)) + 1
        /\ Cardinality(ReceiptsOf(j0)) \in Nat
    BY <1>1, <2>3, <2>4, FS_AddElement, FS_CardinalityType
  <2>7. intents'[j0].revision = intents[j0].revision + 1 /\ intents'[j0].receipt = c
    BY <2>3 DEF Reported
  <2>8. /\ intents'[j0].revision = 1 + Cardinality(ReceiptsOf(j0)')
        /\ intents'[j0].receipt # None /\ ReceiptsOf(j0)' # {}
    BY <2>3, <2>4, <2>6, <2>7 DEF RevisionCounts
  <2>9. ASSUME NEW j \in Jobs \ {j0}, intents'[j] # None
        PROVE  /\ intents'[j].revision = 1 + Cardinality(ReceiptsOf(j)')
               /\ (intents'[j].receipt = None) <=> (ReceiptsOf(j)' = {})
    <3>1. intents'[j] = intents[j]
      BY <2>3, <2>9
    <3> QED
      BY <2>5, <2>9, <3>1 DEF RevisionCounts
  <2> QED
    BY <2>8, <2>9 DEF RevisionCounts
<1> QED
  BY <1>2, <1>3, <1>4
  DEF Next, Tick, Reconnect, SessionHealth, Step, CreateRead, ReofferStart,
      ReofferList, PersistReoffer, PublishStart, PublishList, Publish, markOfferPublished,
      ReceiptCheck, ReceiptReplay, Fail, vars, offerVars, evidenceVars

\* Positions without a gap, one stream, every receipt counted once.
THEOREM ContiguousEvidence == Spec => []EvidenceIsContiguous
<1>1. Init => NoGaps /\ OneStreamId /\ CountedOnce /\ RevisionCounts
  <2> SUFFICES ASSUME Init PROVE NoGaps /\ OneStreamId /\ CountedOnce /\ RevisionCounts
    OBVIOUS
  <2>1. NoGaps
    BY ControlAssumption DEF Init, NoGaps, Places
  <2> QED
    BY <2>1 DEF Init, OneStreamId, CountedOnce, RevisionCounts
<1>2. IntentInv /\ NoGaps /\ OneStreamId /\ CountedOnce /\ RevisionCounts /\ [Next]_vars
        => (NoGaps /\ OneStreamId /\ CountedOnce /\ RevisionCounts)'
  BY EvidenceStep, RevisionStep DEF IntentInv, OutboxInv
<1> QED
  BY <1>1, <1>2, IntentInvariant, PTL DEF Spec, EvidenceIsContiguous

\* An acknowledgement is of what is stored, and stays so.
Acknowledgeable(a) ==
    /\ a.position <= cursor[a.stream]
    /\ deliveries[<<a.stream, a.position>>] # None
    /\ deliveries[<<a.stream, a.position>>].digest = a.digest

LEMMA AcknowledgedStep ==
    ASSUME TypeOK, [Next]_vars, NoGaps, AcknowledgedIsStored
    PROVE  AcknowledgedIsStored'
<1> USE DEF TypeOK
<1>1. ASSUME NEW a \in acks
      PROVE  /\ <<a.stream, a.position>> \in Places /\ a.stream \in Streams
             /\ cursor[a.stream] \in Nat /\ a.position \in Nat
             /\ Acknowledgeable(a)
  BY <1>1, ControlAssumption DEF Ack, Places, AcknowledgedIsStored, Acknowledgeable
<1>2. CASE UNCHANGED evidenceVars
  BY <1>2 DEF evidenceVars, AcknowledgedIsStored
<1>3. ASSUME NEW p \in Processes, ReceiptReplay(p) PROVE AcknowledgedIsStored'
  <2> DEFINE m == calls[p].message
  <2>1. m \in Messages /\ IsReceipt(m) /\ m.content # None
    <3>1. m \in Messages
      BY <1>3, CallTypes DEF ReceiptReplay
    <3>2. m.content \in Receipt
      BY <3>1 DEF Receipt
    <3> QED
      BY <3>1, <3>2, ControlAssumption, NoneAssumption
  <2>2. deliveries[<<m.stream, m.position>>] = m.content
    BY <1>3 DEF ReceiptReplay, sameDelivery, Place
  <2>3. <<m.stream, m.position>> \in Places
    BY <2>1 DEF IsReceipt, Places
  <2>4. m.position <= cursor[m.stream]
    BY <2>1, <2>2, <2>3 DEF NoGaps
  <2>5. Acknowledgeable(AckOf(calls[p]))
    BY <2>1, <2>2, <2>4 DEF Acknowledgeable, AckOf
  <2>6. acks' \subseteq acks \cup {AckOf(calls[p])} /\ UNCHANGED <<cursor, deliveries>>
    BY <1>3 DEF ReceiptReplay, insertAck
  <2>7. ASSUME NEW a \in acks' PROVE Acknowledgeable(a)'
    <3>1. Acknowledgeable(a)
      BY <1>1, <2>5, <2>6
    <3> QED
      BY <2>6, <3>1 DEF Acknowledgeable
  <2> QED
    BY <2>7 DEF Acknowledgeable, AcknowledgedIsStored
<1>4. ASSUME NEW p \in Processes, PersistReceipt(p) PROVE AcknowledgedIsStored'
  <2> DEFINE m == calls[p].message
  <2>1. /\ m.content # None /\ m.stream \in Streams /\ m.position \in 1..MaxPosition
        /\ Place(m) \in Places /\ deliveries[Place(m)] = None
        /\ \A q \in Places : deliveries'[q] = IF q = Place(m) THEN m.content ELSE deliveries[q]
        /\ \A s \in Streams : cursor'[s] = IF s = m.stream THEN cursor[s] + 1 ELSE cursor[s]
        /\ m.position = cursor[m.stream] + 1
    BY <1>4, ReceiptIsAppended
  <2>2. PICK new : new = AckOf(calls[p]) /\ acks' \subseteq acks \cup {new}
    BY <1>4 DEF PersistReceipt, insertAck
  <2>3. ASSUME NEW a \in acks PROVE Acknowledgeable(a)'
    <3>1. deliveries[<<a.stream, a.position>>] # None
      BY <1>1 DEF Acknowledgeable
    <3>2. deliveries'[<<a.stream, a.position>>] = deliveries[<<a.stream, a.position>>]
      BY <1>1, <2>1, <3>1
    <3>3. cursor'[a.stream] >= cursor[a.stream] /\ cursor'[a.stream] \in Nat
      <4>1. a.stream \in Streams /\ cursor[a.stream] \in Nat
        BY <1>1
      <4>2. cursor'[a.stream] = cursor[a.stream] + 1 \/ cursor'[a.stream] = cursor[a.stream]
        BY <2>1, <4>1
      <4> QED
        BY <4>1, <4>2
    <3> QED
      BY <1>1, <3>2, <3>3 DEF Acknowledgeable
  <2>4. Acknowledgeable(new)'
    <3>1. m.position <= cursor'[m.stream]
      BY <2>1
    <3>2. deliveries'[<<m.stream, m.position>>] = m.content
      BY <2>1 DEF Place
    <3>3. new.stream = m.stream /\ new.position = m.position /\ new.digest = m.content.digest
      BY <2>2 DEF AckOf
    <3> QED
      BY <2>1, <3>1, <3>2, <3>3 DEF Acknowledgeable
  <2> QED
    BY <2>2, <2>3, <2>4 DEF Acknowledgeable, AcknowledgedIsStored
<1> QED
  BY <1>2, <1>3, <1>4
  DEF Next, Tick, Reconnect, SessionHealth, Step, CreateRead, PersistIntentAndOffer, ReofferStart,
      ReofferList, PersistReoffer, PublishStart, PublishList, Publish, markOfferPublished,
      ReceiptCheck, Fail, vars

\* The edge forgets only receipts that are stored.
THEOREM AcknowledgedStored == Spec => []AcknowledgedIsStored
<1>1. Init => AcknowledgedIsStored
  BY DEF Init, AcknowledgedIsStored
<1>2. TypeOK /\ EvidenceIsContiguous /\ AcknowledgedIsStored /\ [Next]_vars
        => AcknowledgedIsStored'
  BY AcknowledgedStep DEF EvidenceIsContiguous
<1> QED
  BY <1>1, <1>2, TypeCorrect, ContiguousEvidence, PTL DEF Spec
=============================================================================
