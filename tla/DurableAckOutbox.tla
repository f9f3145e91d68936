--------------------------- MODULE DurableAckOutbox ---------------------------
(***************************************************************************)
(* The outbox of durable acknowledgements and the workers that publish it. *)
(* A row is written in the transaction that stores a telemetry batch, and  *)
(* asked for again by every replay of the batch.  A worker leases pending  *)
(* rows, publishes them one after the other and marks each, or releases it *)
(* for a retry.  Workers die, storage fails, leases run out in the middle  *)
(* of a batch and replays arrive between a publication and its mark.       *)
(*                                                                         *)
(* Time is relative: a lease has the time left, a released row the time to *)
(* wait.  The sort key (available_at, sequence) is the place in the queue. *)
(***************************************************************************)
EXTENDS Naturals, Sequences, FiniteSets

CONSTANTS
    None,
    Acks,           \* outbox_event_id: a function of session, position, digest
    Workers,
    LeaseTicks,
    RetryTicks,
    BatchLimit,     \* limit of claimPending
    MaxFailures     \* how often publisher or storage fail, a worker dies or a
                    \* delivery outlives its lease

ASSUME OutboxAssumption ==
    /\ {RetryTicks, MaxFailures} \subseteq Nat
    /\ {LeaseTicks, BatchLimit} \subseteq Nat \ {0}
    /\ None \notin Acks \cup Workers

VARIABLES
    outbox,     \* cloudlink_durable_ack_outbox; None where there is no row
    queue,      \* the rows by (available_at, sequence)
    deliveries, \* of each worker: the claimed rows still to publish, the one
                \* that was published or refused, and which of the two
    sent,       \* the acknowledgements a worker handed to the broker
    owed,       \* those asked for since a worker last published them
    failures

outboxVars == <<outbox, queue, deliveries, sent, owed, failures>>

AckRow == [published : BOOLEAN, leasedBy : Workers \cup {None},
           leaseLeft : 0..LeaseTicks, wait : 0..RetryTicks]
Delivery == [rest : SUBSET Acks, current : Acks \cup {None},
             reply : {None, "published", "unavailable"}]

NewRow == [published |-> FALSE, leasedBy |-> None, leaseLeft |-> 0, wait |-> 0]
IdleWorker == [rest |-> {}, current |-> None, reply |-> None]

OutboxTypeOK ==
    /\ outbox \in [Acks -> AckRow \cup {None}]
    /\ \A a \in Acks : outbox[a] # None /\ outbox[a].leasedBy = None => outbox[a].leaseLeft = 0
    /\ \A i \in 1..Len(queue) : queue[i] \in Acks
    /\ deliveries \in [Workers -> Delivery]
    /\ sent \subseteq Acks /\ owed \subseteq Acks
    /\ failures \in 0..MaxFailures

OutboxInit ==
    /\ outbox = [a \in Acks |-> None]
    /\ queue = <<>>
    /\ deliveries = [w \in Workers |-> IdleWorker]
    /\ sent = {} /\ owed = {} /\ failures = 0

----------------------------------------------------------------------------
Stored(a) == outbox[a] # None
Pending(a) == Stored(a) /\ ~outbox[a].published /\ outbox[a].wait = 0
Leased(a) == Stored(a) /\ outbox[a].leaseLeft > 0

\* a is available from now on: after every row that is available already and
\* before those that still wait.
Enqueue(a) ==
    LET ready == SelectSeq(queue, LAMBDA b : b # a /\ outbox[b].wait = 0)
        waiting == SelectSeq(queue, LAMBDA b : b # a /\ outbox[b].wait > 0)
    IN  queue' = ready \o <<a>> \o waiting

\* A replay makes the row pending again, at once, and takes it from a worker
\* that holds it.
Renewed(a) == NewRow

\* upsertDurableAckSql: the first request inserts the row, a replay renews it.
upsert(a) ==
    /\ owed' = owed \cup {a}
    /\ outbox' = [outbox EXCEPT ![a] = IF Stored(a) THEN Renewed(a) ELSE NewRow]
    /\ IF Stored(a) /\ outbox[a].wait = 0 THEN UNCHANGED queue ELSE Enqueue(a)
    /\ UNCHANGED <<deliveries, sent, failures>>

----------------------------------------------------------------------------
(* DeliverCloudLinkDurableAcknowledgements, one execution at a time per    *)
(* worker.                                                                 *)

Idle(w) == deliveries[w] = IdleWorker

\* A deviation: a row that was ever leased is not claimed again.
ClaimableOnce(a) == Pending(a) /\ outbox[a].leasedBy = None
Claimable(a) == Pending(a) /\ ~Leased(a)
Ahead(b, a) == \E i, j \in DOMAIN queue : i < j /\ queue[i] = b /\ queue[j] = a
Claims ==
    {a \in Acks : Claimable(a)
                  /\ Cardinality({b \in Acks : Claimable(b) /\ Ahead(b, a)}) < BatchLimit}

claimPending(w) ==
    /\ Idle(w)
    /\ Claims # {}
    /\ outbox' = [a \in Acks |->
                    IF a \in Claims
                      THEN [outbox[a] EXCEPT !.leasedBy = w, !.leaseLeft = LeaseTicks]
                      ELSE outbox[a]]
    /\ deliveries' = [deliveries EXCEPT ![w].rest = Claims]
    /\ UNCHANGED <<queue, sent, owed, failures>>

\* The rows come in any order: RETURNING does not keep that of the claim.
Publish(w) ==
    /\ deliveries[w].current = None
    /\ \E a \in deliveries[w].rest :
         /\ deliveries' = [deliveries EXCEPT ![w] =
                [rest |-> @.rest \ {a}, current |-> a, reply |-> "published"]]
         /\ sent' = sent \cup {a}
         /\ owed' = owed \ {a}
    /\ UNCHANGED <<outbox, queue, failures>>

\* The publisher is unavailable, or throws.
PublisherUnavailable(w) ==
    /\ deliveries[w].current = None
    /\ failures < MaxFailures
    /\ failures' = failures + 1
    /\ \E a \in deliveries[w].rest :
         deliveries' = [deliveries EXCEPT ![w] =
                [rest |-> @.rest \ {a}, current |-> a, reply |-> "unavailable"]]
    /\ UNCHANGED <<outbox, queue, sent, owed>>

Holds(w, a) == outbox[a].leasedBy = w /\ ~outbox[a].published

\* A deviation: whoever published a row may mark it.
CanMarkAnyway(w, a) == ~outbox[a].published
\* A deviation: the lease must have its whole time left.
CanMarkAtOnce(w, a) == Holds(w, a) /\ outbox[a].leaseLeft = LeaseTicks
\* markPublishedSql compares the lease with the clock of the database, too.
CanMark(w, a) == Holds(w, a) /\ Leased(a)

Settled(w) == deliveries' = [deliveries EXCEPT ![w].current = None, ![w].reply = None]

markPublished(w) ==
    LET a == deliveries[w].current IN
    /\ deliveries[w].reply = "published"
    /\ CanMark(w, a)
    /\ outbox' = [outbox EXCEPT ![a].published = TRUE, ![a].leasedBy = None,
                                ![a].leaseLeft = 0]
    /\ Settled(w)
    /\ UNCHANGED <<queue, sent, owed, failures>>

releaseForRetry(w) ==
    LET a == deliveries[w].current IN
    /\ deliveries[w].reply = "unavailable"
    /\ Holds(w, a)
    /\ outbox' = [outbox EXCEPT ![a].wait = RetryTicks, ![a].leasedBy = None,
                                ![a].leaseLeft = 0]
    /\ queue' = Append(SelectSeq(queue, LAMBDA b : b # a), a)
    /\ Settled(w)
    /\ UNCHANGED <<sent, owed, failures>>

\* A lease conflict ends the execution: the rest of the batch stays leased.
LeaseConflict(w) ==
    LET a == deliveries[w].current IN
    /\ \/ deliveries[w].reply = "published" /\ ~CanMark(w, a)
       \/ deliveries[w].reply = "unavailable" /\ ~Holds(w, a)
    /\ deliveries' = [deliveries EXCEPT ![w] = IdleWorker]
    /\ UNCHANGED <<outbox, queue, sent, owed, failures>>

\* Storage fails, or the worker dies and is started again.
DeliveryFails(w) ==
    /\ ~Idle(w)
    /\ failures < MaxFailures
    /\ failures' = failures + 1
    /\ deliveries' = [deliveries EXCEPT ![w] = IdleWorker]
    /\ UNCHANGED <<outbox, queue, sent, owed>>

\* A delivery that is slower than its lease counts as a failure: a worker that
\* is always that slow publishes the first row of its batch for ever.
Overrun == \E w \in Workers, a \in Acks :
             /\ a \in deliveries[w].rest \cup {deliveries[w].current}
             /\ Stored(a)
             /\ outbox[a].leasedBy = w /\ outbox[a].leaseLeft = 1

OutboxTick ==
    /\ Overrun => failures < MaxFailures
    /\ failures' = IF Overrun THEN failures + 1 ELSE failures
    /\ outbox' = [a \in Acks |->
                    IF Stored(a)
                      THEN [outbox[a] EXCEPT
                              !.leaseLeft = IF @ > 0 THEN @ - 1 ELSE 0,
                              !.wait = IF @ > 0 THEN @ - 1 ELSE 0]
                      ELSE None]
    /\ UNCHANGED <<queue, deliveries, sent, owed>>

----------------------------------------------------------------------------
DeliveryStep(w) ==
    \/ claimPending(w)
    \/ Publish(w)
    \/ markPublished(w)
    \/ releaseForRetry(w)
    \/ LeaseConflict(w)

OutboxNext ==
    \/ OutboxTick
    \/ \E w \in Workers : DeliveryStep(w) \/ PublisherUnavailable(w) \/ DeliveryFails(w)
=============================================================================
