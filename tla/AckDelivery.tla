----------------------------- MODULE AckDelivery -----------------------------
(***************************************************************************)
(* The acknowledgement outbox on its own: acknowledgements are asked for,  *)
(* at most MaxRequests times in all, and the workers of DurableAckOutbox   *)
(* publish them.                                                           *)
(***************************************************************************)
EXTENDS DurableAckOutbox

CONSTANT MaxRequests
DeliveryAssumption == MaxRequests \in Nat /\ IsFiniteSet(Acks) /\ None \notin AckRow

VARIABLE requests   \* how often an acknowledgement was asked for

vars == <<outboxVars, requests>>

Init == OutboxInit /\ requests = 0

\* A batch is stored, or replayed (PostgresTelemetryRepository.persist).
Request(a) ==
    /\ requests < MaxRequests
    /\ requests' = requests + 1
    /\ upsert(a)

Next ==
    \/ \E a \in Acks : Request(a)
    \/ OutboxNext /\ UNCHANGED requests

\* Time passes and a worker proceeds, each call of it returning or throwing.
\* Gateways need not replay and failures need not happen.
Fairness ==
    /\ WF_vars(OutboxTick /\ UNCHANGED requests)
    /\ \A w \in Workers : WF_vars(DeliveryStep(w) /\ UNCHANGED requests)

Spec == Init /\ [][Next]_vars /\ Fairness

TypeOK == OutboxTypeOK /\ requests \in 0..MaxRequests

----------------------------------------------------------------------------
\* A row counts as published only if it was published after it was last asked
\* for: a replay between the publication and its mark is answered, too.
PublishedMeansAnswered == \A a \in Acks : Stored(a) /\ outbox[a].published => a \notin owed

\* Every acknowledgement that is asked for is published after that, whatever
\* order rows are claimed in and whichever worker dies with a lease
\* (DeliverCloudLinkDurableAcknowledgements.execute): none is owed for ever once
\* the Gateways stop asking.
OwedIsPublished == <>[](owed = {})

\* Deliveries come to an end: every row is marked in the end, so that the Gateway
\* is not sent the same acknowledgement for ever.
RowsAreMarked == <>[](\A a \in Acks : Stored(a) => outbox[a].published)
=============================================================================
