-------------------------- MODULE IntegrationControl --------------------------
(***************************************************************************)
(* Power actions of one Gateway: CreateIntegrationPowerControl,            *)
(* ReofferIntegrationPowerControls, PublishIntegrationControlOffers and    *)
(* IngestIntegrationControlReceipt over the PostgreSQL ledger, called by   *)
(* the bridges, pumps and API calls of several processes.  A session is    *)
(* its epoch; an intent or a receipt is what its digest says.              *)
(*                                                                         *)
(* A transaction is one step: creating and reoffering lock the job, a      *)
(* receipt locks the stream and, like a reoffer, the row of the intent.    *)
(* The awaits between the transactions of a command are between its steps. *)
(***************************************************************************)
EXTENDS Integers, FiniteSets

CONSTANTS
    None,
    Processes,      \* each executes one command at a time
    Jobs,
    Commands,       \* what callers ask for: [request, job, intent, expires]
    Messages,       \* receipts of the edge, see IsReceipt
    StreamIds,
    MaxStreamEpoch,
    MaxPosition,
    MaxEpoch,
    MaxTime

Time == 0..MaxTime
Epochs == 1..MaxEpoch
Requests == {k.request : k \in Commands}
Intents == {k.intent : k \in Commands}
Expiries == {k.expires : k \in Commands}
Streams == StreamIds \X (1..MaxStreamEpoch)
Places == Streams \X (1..MaxPosition)

\* A receipt of the edge at its position.  Its content is that of the delivery:
\* job, intent, receipt identity and number, the digest of it all.
Receipt == {m.content : m \in Messages}
Digests == {m.content.digest : m \in Messages}
IsReceipt(m) ==
    /\ m.stream \in Streams /\ m.position \in 1..MaxPosition
    /\ m.content.job \in Jobs /\ m.content.intent \in Intents

ASSUME ControlAssumption ==
    /\ MaxTime \in Nat /\ MaxEpoch \in Nat /\ MaxPosition \in Nat /\ MaxStreamEpoch \in Nat
    /\ \A k \in Commands : k.job \in Jobs /\ k.expires \in Nat
    /\ \A m \in Messages : IsReceipt(m)
    /\ None \notin StreamIds /\ IsFiniteSet(StreamIds)

VARIABLES
    now,
    epoch,          \* of the last session of the Gateway, 0 before the first
    session,        \* its state
    intents,        \* integration_control_intents
    requests,       \* integration_control_requests, of the operation create
    offers,         \* integration_control_offer_outbox, by job and session
    binding,        \* integration_control_receipt_stream_bindings
    cursor,         \* integration_control_receipt_streams, 0 without a row
    deliveries,     \* the rows of deliveries and receipts, one for one
    acks,           \* integration_control_ack_outbox, which the bridges answer with
    calls,          \* what each process carries from step to step
    published       \* the offers that reached the broker

clockVars == <<now, epoch, session>>
offerVars == <<requests, offers>>
evidenceVars == <<binding, cursor, deliveries, acks>>
vars == <<clockVars, intents, offerVars, evidenceVars, calls, published>>

Intent == [intent : Intents, expires : Expiries, receipt : {None} \cup Receipt,
           revision : Nat \ {0}]
Offer == [job : Jobs, session : Epochs, intent : Intents, expires : Expiries, issued : Time]
OfferRow == [offer : Offer, published : BOOLEAN]
Ack == [session : Epochs, stream : Streams, position : 1..MaxPosition, digest : Digests]

ASSUME NoneAssumption == None \notin Intent \cup Receipt \cup Offer \cup OfferRow

\* A command carries its clock reading, the session it read, and what it still
\* has to do: jobs to reoffer, offers to publish.
Call ==
    [stage : {"create"}, offer : Offer, request : Requests]
      \cup [stage : {"reoffer", "reoffering"}, now : Time, session : Epochs, jobs : SUBSET Jobs]
      \cup [stage : {"publish"}, now : Time, session : Epochs]
      \cup [stage : {"publishing"}, offers : SUBSET Offer]
      \cup [stage : {"sent"}, offers : SUBSET Offer, offer : Offer]
      \cup [stage : {"receipt"}, session : Epochs, message : Messages]

active == session = "active"

TypeOK ==
    /\ now \in Time /\ epoch \in 0..MaxEpoch
    /\ session \in {"active", "suspect", "closed"}
    /\ session # "closed" => epoch > 0
    /\ intents \in [Jobs -> Intent \cup {None}]
    /\ requests \subseteq Requests
    /\ offers \in [Jobs \X Epochs -> OfferRow \cup {None}]
    /\ binding \in StreamIds \cup {None}
    /\ cursor \in [Streams -> 0..MaxPosition]
    /\ deliveries \in [Places -> Receipt \cup {None}]
    /\ acks \subseteq Ack
    /\ calls \in [Processes -> Call \cup {None}]
    /\ published \subseteq Offer

Init ==
    /\ now = 0 /\ epoch = 0 /\ session = "closed"
    /\ intents = [j \in Jobs |-> None]
    /\ requests = {}
    /\ offers = [k \in Jobs \X Epochs |-> None]
    /\ binding = None
    /\ cursor = [s \in Streams |-> 0]
    /\ deliveries = [p \in Places |-> None]
    /\ acks = {}
    /\ calls = [p \in Processes |-> None]
    /\ published = {}

Begin(p, call) == calls[p] = None /\ calls' = [calls EXCEPT ![p] = call]
At(p, stage) == calls[p] # None /\ calls[p].stage = stage
Return(p) == calls' = [calls EXCEPT ![p] = None]

\* A command that has done all it had to do returns.
Continue(p, call, todo) == calls' = [calls EXCEPT ![p] = IF todo = {} THEN None ELSE call]

MakeOffer(j, s, intent, expires, issued) ==
    [job |-> j, session |-> s, intent |-> intent, expires |-> expires, issued |-> issued]
Key(offer) == <<offer.job, offer.session>>

----------------------------------------------------------------------------
(* The session of the Gateway and the clock.                               *)

Tick == now < MaxTime /\ now' = now + 1
        /\ UNCHANGED <<epoch, session, intents, offerVars, evidenceVars, calls, published>>

Reconnect ==
    /\ epoch < MaxEpoch
    /\ epoch' = epoch + 1
    /\ session' = "active"
    /\ UNCHANGED <<now, intents, offerVars, evidenceVars, calls, published>>

\* A session falls silent, and recovers or times out.
SessionHealth ==
    /\ \/ session = "active" /\ session' = "suspect"
       \/ session = "suspect" /\ session' \in {"active", "closed"}
    /\ UNCHANGED <<now, epoch, intents, offerVars, evidenceVars, calls, published>>

----------------------------------------------------------------------------
(* CreateIntegrationPowerControl.                                          *)

CreateRead(p, k) ==
    /\ active
    /\ k.expires > now
    /\ Begin(p, [stage |-> "create", request |-> k.request,
                 offer |-> MakeOffer(k.job, epoch, k.intent, k.expires, now)])
    /\ UNCHANGED <<clockVars, intents, offerVars, evidenceVars, published>>

\* A deviation: an intent is told by its job alone.
sameJob(row, offer) == TRUE
sameIntent(row, offer) == row.intent = offer.intent
sameOffer(row, offer) == row.offer = offer

\* persistIntentAndOffer, for a request that is not known.  A known request, or
\* one that differs from what is stored, changes nothing.
PersistIntentAndOffer(p) ==
    LET offer == calls[p].offer
        r == calls[p].request
        j == offer.job
    IN
    /\ At(p, "create")
    /\ r \notin requests
    /\ intents[j] # None => sameIntent(intents[j], offer)
    /\ offers[Key(offer)] # None => sameOffer(offers[Key(offer)], offer)
    /\ intents' = IF intents[j] # None THEN intents
                  ELSE [intents EXCEPT ![j] = [intent |-> offer.intent, expires |-> offer.expires,
                                               receipt |-> None, revision |-> 1]]
    /\ requests' = requests \cup {r}
    /\ offers' = IF offers[Key(offer)] # None THEN offers
                 ELSE [offers EXCEPT ![Key(offer)] = [offer |-> offer, published |-> FALSE]]
    /\ Return(p)
    /\ UNCHANGED <<clockVars, evidenceVars, published>>

----------------------------------------------------------------------------
(* ReofferIntegrationPowerControls, at the opening of a session.           *)

\* listDispatchableOffers: not marked, and no receipt of the job is known.
Dispatchable ==
    {k \in Jobs \X Epochs : offers[k] # None /\ ~offers[k].published
                            /\ intents[k[1]].receipt = None}

\* The jobs with a pending offer of the session need none.
ReofferStart(p) ==
    /\ active
    /\ Begin(p, [stage |-> "reoffer", now |-> now, session |-> epoch,
                 jobs |-> {k[1] : k \in {d \in Dispatchable : d[2] = epoch}}])
    /\ UNCHANGED <<clockVars, intents, offerVars, evidenceVars, published>>

Reoffering(call, todo) ==
    [stage |-> "reoffering", now |-> call.now, session |-> call.session, jobs |-> todo]

\* listUnresolvedIntents, without those that expired before the command began.
ReofferList(p) ==
    LET call == calls[p]
        todo == {j \in Jobs : intents[j] # None /\ intents[j].receipt = None
                              /\ intents[j].expires > call.now} \ call.jobs
    IN
    /\ At(p, "reoffer")
    /\ Continue(p, Reoffering(call, todo), todo)
    /\ UNCHANGED <<clockVars, intents, offerVars, evidenceVars, published>>

\* A deviation: the offer of the session is signed anew.
Stage(offer) == offers' = [offers EXCEPT ![Key(offer)] = [offer |-> offer, published |-> FALSE]]
stageAgain(offer) == TRUE

\* persistReoffer finds no offer of the session, or the same one; a different
\* one ends the command.  The code takes the oldest intent first, here it is any;
\* what the list says of the intent and its expiry cannot have changed.
mayStage(offer) == offers[Key(offer)] # None => sameOffer(offers[Key(offer)], offer)

PersistReoffer(p) ==
    LET call == calls[p] IN
    /\ At(p, "reoffering")
    /\ \E j \in call.jobs :
         LET offer == MakeOffer(j, call.session, intents[j].intent, intents[j].expires, call.now)
         IN
         /\ intents[j] # None
         /\ mayStage(offer)
         /\ IF offers[Key(offer)] # None /\ sameOffer(offers[Key(offer)], offer)
              THEN UNCHANGED offers ELSE Stage(offer)
         /\ Continue(p, Reoffering(call, call.jobs \ {j}), call.jobs \ {j})
    /\ UNCHANGED <<clockVars, intents, requests, evidenceVars, published>>

----------------------------------------------------------------------------
(* PublishIntegrationControlOffers, after a reoffer or from the pump.      *)

PublishStart(p) ==
    /\ active
    /\ Begin(p, [stage |-> "publish", now |-> now, session |-> epoch])
    /\ UNCHANGED <<clockVars, intents, offerVars, evidenceVars, published>>

\* Offers of other sessions and expired ones are deferred.
PublishList(p) ==
    LET call == calls[p]
        todo == {offers[k].offer : k \in {d \in Dispatchable :
                   d[2] = call.session /\ offers[d].offer.expires > call.now}}
    IN
    /\ At(p, "publish")
    /\ Continue(p, [stage |-> "publishing", offers |-> todo], todo)
    /\ UNCHANGED <<clockVars, intents, offerVars, evidenceVars, published>>

\* The code publishes in the order of the outbox; here it is any.
Publish(p) ==
    /\ At(p, "publishing")
    /\ \E offer \in calls[p].offers :
         /\ published' = published \cup {offer}
         /\ calls' = [calls EXCEPT ![p] = [stage |-> "sent", offer |-> offer,
                                          offers |-> calls[p].offers \ {offer}]]
    /\ UNCHANGED <<clockVars, intents, offerVars, evidenceVars>>

markOfferPublished(p) ==
    LET call == calls[p] IN
    /\ At(p, "sent")
    /\ offers[Key(call.offer)] # None
    /\ offers' = [offers EXCEPT ![Key(call.offer)] =
                     [offer |-> offers[Key(call.offer)].offer, published |-> TRUE]]
    /\ Continue(p, [stage |-> "publishing", offers |-> call.offers], call.offers)
    /\ UNCHANGED <<clockVars, intents, requests, evidenceVars, published>>

----------------------------------------------------------------------------
(* IngestIntegrationControlReceipt.                                        *)

\* The edge answers what it was offered, as often as it likes, under the
\* session it is in; findCurrent and findIntent precede the transaction.
Answers(m) == \E offer \in published : offer.job = m.content.job
                                       /\ offer.intent = m.content.intent
matchesIntent(m) == intents[m.content.job] # None
                    /\ intents[m.content.job].intent = m.content.intent

ReceiptCheck(p, m) ==
    /\ active
    /\ Answers(m)
    /\ matchesIntent(m)
    /\ Begin(p, [stage |-> "receipt", session |-> epoch, message |-> m])
    /\ UNCHANGED <<clockVars, intents, offerVars, evidenceVars, published>>

Place(m) == <<m.stream, m.position>>
AckOf(call) == [session |-> call.session, stream |-> call.message.stream,
                position |-> call.message.position, digest |-> call.message.content.digest]

\* ON CONFLICT DO NOTHING: one row for a position in a session.
insertAck(call) ==
    acks' = IF \E a \in acks : a.session = call.session /\ a.stream = call.message.stream
                               /\ a.position = call.message.position
              THEN acks ELSE acks \cup {AckOf(call)}

bound(m) == binding \in {None, m.stream[1]}

\* A deviation: what is known at the position is taken for the same.
sameDeliveryPlace(m) == deliveries[Place(m)] # None
sameDelivery(m) == deliveries[Place(m)] = m.content

\* persistReceipt, for a delivery that is known: acknowledged again.
ReceiptReplay(p) ==
    LET m == calls[p].message IN
    /\ At(p, "receipt")
    /\ matchesIntent(m) /\ bound(m)
    /\ sameDelivery(m)
    /\ insertAck(calls[p])
    /\ Return(p)
    /\ UNCHANGED <<clockVars, intents, offerVars, binding, cursor, deliveries, published>>

\* A receipt of the job with that identity, or that number, is stored.
receiptKnown(c) == \E q \in Places : /\ deliveries[q] # None /\ deliveries[q].job = c.job
                                     /\ \/ deliveries[q].receipt = c.receipt
                                        \/ deliveries[q].sequence = c.sequence

\* A deviation: only what was passed is refused, a gap is not.
expectedOrLater(m) == m.position > cursor[m.stream]
expectedPosition(m) == m.position = cursor[m.stream] + 1

Reported(row, content) == [intent |-> row.intent, expires |-> row.expires,
                           receipt |-> content, revision |-> row.revision + 1]

\* persistReceipt, for a new one: receipt, delivery, intent, cursor and
\* acknowledgement.
PersistReceipt(p) ==
    LET m == calls[p].message
        j == m.content.job
    IN
    /\ At(p, "receipt")
    /\ matchesIntent(m) /\ bound(m)
    /\ deliveries[Place(m)] = None
    /\ ~receiptKnown(m.content)
    /\ expectedPosition(m)
    /\ binding' = m.stream[1]
    /\ deliveries' = [deliveries EXCEPT ![Place(m)] = m.content]
    /\ intents' = [intents EXCEPT ![j] = Reported(intents[j], m.content)]
    /\ cursor' = [cursor EXCEPT ![m.stream] = m.position]
    /\ insertAck(calls[p])
    /\ Return(p)
    /\ UNCHANGED <<clockVars, offerVars, published>>

----------------------------------------------------------------------------
\* A command that is refused, a storage or a publisher that fails, a process
\* that dies: before the commit, or after it with the answer lost.
Fail(p) ==
    /\ calls[p] # None
    /\ Return(p)
    /\ UNCHANGED <<clockVars, intents, offerVars, evidenceVars, published>>

Step(p) ==
    \/ \E k \in Commands : CreateRead(p, k)
    \/ PersistIntentAndOffer(p)
    \/ ReofferStart(p) \/ ReofferList(p) \/ PersistReoffer(p)
    \/ PublishStart(p) \/ PublishList(p) \/ Publish(p) \/ markOfferPublished(p)
    \/ \E m \in Messages : ReceiptCheck(p, m)
    \/ ReceiptReplay(p) \/ PersistReceipt(p)
    \/ Fail(p)

Next == Tick \/ Reconnect \/ SessionHealth \/ \E p \in Processes : Step(p)

Spec == Init /\ [][Next]_vars

----------------------------------------------------------------------------
\* A job is one action for good: whatever is offered, in whichever session, and
\* whatever the edge reports, is about the intent that was recorded for it.
\* docs/concepts/home-assistant-governed-control.md: the same job identity and
\* intent digest survive a reoffer.
OneIntentPerJob ==
    /\ \A k \in Jobs \X Epochs : offers[k] # None =>
         intents[k[1]] # None /\ intents[k[1]].intent = offers[k].offer.intent
    /\ \A offer \in published : intents[offer.job] # None
                                /\ intents[offer.job].intent = offer.intent
    /\ \A p \in Places : deliveries[p] # None =>
         intents[deliveries[p].job] # None
         /\ intents[deliveries[p].job].intent = deliveries[p].intent

\* The edge sees one signed offer of a job in a session, however often and by
\* however many processes it is created, reoffered and published.
OneOfferPerSession ==
    \A o, q \in published : Key(o) = Key(q) => o = q

\* A stream has no gap, its cursor is its end, the Gateway has one stream, and a
\* receipt counts once: the revision of an intent says how many there are, so
\* an intent without one is one that the edge never answered (persistReceipt).
ReceiptsOf(j) == {p \in Places : deliveries[p] # None /\ deliveries[p].job = j}
NoGaps == \A p \in Places : deliveries[p] # None <=> p[2] <= cursor[p[1]]
OneStreamId == \A p \in Places : deliveries[p] # None => p[1][1] = binding
CountedOnce == \A p, q \in Places : deliveries[p] # None /\ deliveries[p] = deliveries[q] => p = q
RevisionCounts ==
    \A j \in Jobs : intents[j] # None =>
        /\ intents[j].revision = 1 + Cardinality(ReceiptsOf(j))
        /\ (intents[j].receipt = None) <=> (ReceiptsOf(j) = {})
EvidenceIsContiguous == NoGaps /\ OneStreamId /\ CountedOnce /\ RevisionCounts

\* The Gateway is told to forget a receipt only if this receipt, and all before
\* it in its stream, are stored.
AcknowledgedIsStored ==
    \A a \in acks :
        /\ a.position <= cursor[a.stream]
        /\ deliveries[<<a.stream, a.position>>] # None
        /\ deliveries[<<a.stream, a.position>>].digest = a.digest

\* docs/concepts/home-assistant-governed-control.md:71: "Once any receipt exists,
\* the cloud does not automatically reoffer the physical effect."
NotOfferedAfterReceipt ==
    [][\A offer \in published' \ published : intents[offer.job].receipt = None]_published
=============================================================================
