-------------------------- MODULE TelemetryIngestion --------------------------
(***************************************************************************)
(* The acceptance of telemetry: IngestTelemetryBatch over the PostgreSQL   *)
(* repository, called by the MQTT bridges of several processes, for one    *)
(* stream of one Gateway.  The Gateway sends a batch as often as it likes, *)
(* in any order and under any of its sessions, until it is acknowledged.   *)
(*                                                                         *)
(* A transaction is taken apart where others can come in between.  It runs *)
(* at READ COMMITTED: what it reads before it locks the row of the stream  *)
(* may be overtaken, and a stream without a row has nothing to lock.  From *)
(* the reservation of the quota to the commit it holds the Gateway's usage *)
(* row, so the rest is one step.                                           *)
(*                                                                         *)
(* Positions are those of telemetry records, from 0: the wire's start at 1.*)
(***************************************************************************)
EXTENDS Integers, DurableAckOutbox

CONSTANTS
    Persisters,     \* processes that ingest, each one delivery at a time
    Deliveries,     \* what the Gateway may send, see Delivered
    MaxPosition,
    Window,         \* maximumCoalescingPositions
    MaximumRecords, \* the quota of the Gateway
    History         \* the stored prefix at the beginning, -1 for a new stream

Positions == 0..MaxPosition
Requests == {d.request : d \in Deliveries}
Digests == {d.digest : d \in Deliveries}
Generations == {d.generation : d \in Deliveries}

\* A delivery of the bridge has one record, and a session to acknowledge it
\* under; a direct call of the command may have more records and no session.
\* The generation is that of the credential the delivery was verified with.
Delivered(d) ==
    /\ d.first \in Positions /\ d.last \in d.first..MaxPosition
    /\ d.session # None => [session |-> d.session, position |-> d.last] \in Acks

ASSUME IngestionAssumption ==
    /\ MaxPosition \in Nat /\ Window \in Nat /\ MaximumRecords \in Nat
    /\ History \in -1..MaxPosition /\ History + 1 <= MaximumRecords
    /\ \A d \in Deliveries : Delivered(d)
    /\ None \notin Digests /\ None \notin Requests

\* A digest is that of a content, which says where the batch ends.
ASSUME DigestAssumption ==
    \A d, e \in Deliveries : d.first = e.first /\ d.digest = e.digest => d.last = e.last

VARIABLES
    stream,         \* contiguous_position, -1 for NULL; None without a row
    batches,        \* telemetry_batches by first position, with the receipt
    requests,       \* telemetry_ingress_requests
    usage,          \* telemetry_gateway_usage
    calls,          \* what each persister carries from step to step
    acknowledged    \* the acknowledgements the bridges published

telemetryVars == <<stream, batches, requests, usage, calls, acknowledged>>
vars == <<telemetryVars, outboxVars>>

Batch == [last : Positions, digest : Digests \cup {None}, gap : BOOLEAN,
          generation : Generations \cup {None}]
Request == [first : Positions, digest : Digests]

\* gap says whether the receipt speaks of a gap.
Call == [stage : {"checked", "ranged", "measured", "answer"}, delivery : Deliveries,
         prior : {None} \cup (-1..MaxPosition), contiguous : -1..MaxPosition, gap : BOOLEAN]

ASSUME NoneIsNoBatch == None \notin Batch
ASSUME NoneIsNoPosition == None \notin -1..MaxPosition

TelemetryTypeOK ==
    /\ stream \in {None} \cup (-1..MaxPosition)
    /\ batches \in [Positions -> Batch \cup {None}]
    /\ requests \in [Requests -> Request \cup {None}]
    /\ usage \in 0..MaximumRecords
    /\ calls \in [Persisters -> Call \cup {None}]
    /\ acknowledged \subseteq Acks

TypeOK == TelemetryTypeOK /\ OutboxTypeOK

Init ==
    /\ stream = IF History = -1 THEN None ELSE History
    /\ batches = [p \in Positions |->
                    IF p <= History
                      THEN [last |-> p, digest |-> None, gap |-> FALSE, generation |-> None]
                      ELSE None]
    /\ requests = [r \in Requests |-> None]
    /\ usage = History + 1
    /\ calls = [c \in Persisters |-> None]
    /\ acknowledged = {}
    /\ OutboxInit

\* telemetry_records: the positions of the stored batches.
Recorded == {q \in Positions : \E p \in 0..q : batches[p] # None /\ q <= batches[p].last}
RangeOf(d) == d.first..d.last
RecordCount(d) == d.last - d.first + 1

----------------------------------------------------------------------------
(* The acknowledgement that is stored beside the batch.                    *)

\* Its row refers to a batch that begins at acceptedTelemetryPosition, which is
\* the last position of the delivery (telemetry_first_position).
CanAcknowledge(d) == d.session # None => batches'[d.last] # None

upsertAcknowledgement(d) ==
    /\ CanAcknowledge(d)
    /\ IF d.session = None THEN UNCHANGED outboxVars
       ELSE upsert([session |-> d.session, position |-> d.last])

Reply(c, d, gap) ==
    calls' = [calls EXCEPT ![c] = [stage |-> "answer", delivery |-> d, prior |-> None,
                                   contiguous |-> -1, gap |-> gap]]
Return(c) == calls' = [calls EXCEPT ![c] = None]

----------------------------------------------------------------------------
(* persist.                                                                *)

\* A deviation: a batch is a duplicate by its identity alone.
duplicateByIdentity(d) == batches[d.first] # None
duplicateMatches(d) == batches[d.first] # None /\ batches[d.first].digest = d.digest
requestDuplicateMatches(d) ==
    requests[d.request] = [first |-> d.first, digest |-> d.digest] /\ duplicateMatches(d)

\* A request that is known is answered with its receipt.
ReplayRequest(c, d) ==
    /\ calls[c] = None
    /\ requestDuplicateMatches(d)
    /\ UNCHANGED <<stream, batches, requests, usage, acknowledged>>
    /\ upsertAcknowledgement(d)
    /\ Reply(c, d, batches[d.first].gap)

\* A deviation: a replay is charged to the quota like a new batch.
ReplayBatchCharged(c, d) ==
    /\ calls[c] = None
    /\ requests[d.request] = None
    /\ duplicateMatches(d)
    /\ usage + RecordCount(d) <= MaximumRecords
    /\ usage' = usage + RecordCount(d)
    /\ requests' = [requests EXCEPT ![d.request] = [first |-> d.first, digest |-> d.digest]]
    /\ UNCHANGED <<stream, batches, acknowledged>>
    /\ upsertAcknowledgement(d)
    /\ Reply(c, d, batches[d.first].gap)

\* A batch that is known answers for a new request, too, which is recorded.
ReplayBatch(c, d) ==
    /\ calls[c] = None
    /\ requests[d.request] = None
    /\ duplicateMatches(d)
    /\ requests' = [requests EXCEPT ![d.request] = [first |-> d.first, digest |-> d.digest]]
    /\ UNCHANGED <<stream, batches, usage, acknowledged>>
    /\ upsertAcknowledgement(d)
    /\ Reply(c, d, batches[d.first].gap)

\* Neither the request nor a batch or a record in its range is there; anything
\* else ends in conflicting-replay or position-conflict and changes nothing.
Check(c, d) ==
    /\ calls[c] = None
    /\ requests[d.request] = None
    /\ batches[d.first] = None
    /\ RangeOf(d) \cap Recorded = {}
    /\ calls' = [calls EXCEPT ![c] = [stage |-> "checked", delivery |-> d, prior |-> None,
                                      contiguous |-> -1, gap |-> FALSE]]
    /\ UNCHANGED <<stream, batches, requests, usage, acknowledged, outboxVars>>

\* The row of the stream is locked by whoever read it, until the call ends.
StreamLocked ==
    \E c \in Persisters : calls[c] # None /\ calls[c].stage \in {"ranged", "measured"}
                          /\ calls[c].prior # None

\* The position the stream is at, for a call that found no row.
PriorContiguous(call) == IF call.prior = None THEN -1 ELSE call.prior

\* A deviation: the row of the stream is read without a lock.
ReadStreamUnlocked(c) == TRUE
ReadStream(c) == stream # None => ~StreamLocked

\* A batch that begins before the cursor, or too far behind it, is refused.
InWindow(first, prior) == first > prior /\ first - (prior + 1) <= Window

LockStream(c) ==
    LET call == calls[c]
        prior == IF stream = None THEN -1 ELSE stream
    IN
    /\ call # None /\ call.stage = "checked"
    /\ ReadStream(c)
    /\ InWindow(call.delivery.first, prior)
    /\ calls' = [calls EXCEPT ![c].stage = "ranged", ![c].prior = stream,
                              ![c].gap = call.delivery.first > prior + 1]
    /\ UNCHANGED <<stream, batches, requests, usage, acknowledged, outboxVars>>

PositionConflict(c) ==
    LET call == calls[c]
        prior == IF stream = None THEN -1 ELSE stream
    IN
    /\ call # None /\ call.stage = "checked"
    /\ ReadStream(c)
    /\ ~InWindow(call.delivery.first, prior)
    /\ Return(c)
    /\ UNCHANGED <<stream, batches, requests, usage, acknowledged, outboxVars>>

\* m is the last position up to which records follow on n without a gap, as
\* far as selectFollowingPositionsSql returns them.
Coalesces(n, m) ==
    /\ m <= n + Window
    /\ (n + 1)..m \subseteq Recorded
    /\ m < n + Window => m + 1 \notin Recorded

MeasureTo(c, m) ==
    /\ calls' = [calls EXCEPT ![c].stage = "measured", ![c].contiguous = m]
    /\ UNCHANGED <<stream, batches, requests, usage, acknowledged, outboxVars>>

Measure(c) ==
    LET call == calls[c] IN
    /\ call # None /\ call.stage = "ranged"
    /\ \/ call.gap /\ MeasureTo(c, PriorContiguous(call))
       \/ /\ ~call.gap
          /\ \E m \in call.delivery.last..MaxPosition :
               Coalesces(call.delivery.last, m) /\ MeasureTo(c, m)

ReserveQuota(d) ==
    /\ usage + RecordCount(d) <= MaximumRecords
    /\ usage' = usage + RecordCount(d)

\* A primary key that is taken, or a request that was raced, ends the call.
CanInsert(d) ==
    /\ batches[d.first] = None
    /\ RangeOf(d) \cap Recorded = {}
    /\ requests[d.request] = None

\* The stream keeps its position over a gap, and begins at NULL.
CursorAfter(call) ==
    IF ~call.gap THEN call.contiguous ELSE IF stream = None THEN -1 ELSE stream

Commit(c) ==
    LET call == calls[c]
        d == call.delivery
    IN
    /\ call # None /\ call.stage = "measured"
    /\ ReserveQuota(d)
    /\ CanInsert(d)
    /\ batches' = [batches EXCEPT ![d.first] =
                     [last |-> d.last, digest |-> d.digest, gap |-> call.gap,
                      generation |-> d.generation]]
    /\ requests' = [requests EXCEPT ![d.request] = [first |-> d.first, digest |-> d.digest]]
    /\ stream' = CursorAfter(call)
    /\ upsertAcknowledgement(d)
    /\ Reply(c, d, call.gap)
    /\ UNCHANGED acknowledged

\* quota-exceeded or storage-unavailable: a statement fails, or the process
\* dies, before the commit.  After it, the answer is lost.
Fail(c) ==
    /\ calls[c] # None
    /\ Return(c)
    /\ UNCHANGED <<stream, batches, requests, usage, acknowledged, outboxVars>>

----------------------------------------------------------------------------
\* A deviation: a receipt that speaks of a gap is acknowledged like any other.
AcknowledgesAny(call) == call.delivery.session # None
\* The command fails on the receipt of another generation, and the bridge
\* refuses one with a gap: an acknowledgement is cumulative.
Acknowledges(call) ==
    /\ call.delivery.session # None
    /\ ~call.gap
    /\ batches[call.delivery.first].generation = call.delivery.generation

Answer(c) ==
    LET call == calls[c] IN
    /\ call # None /\ call.stage = "answer"
    /\ acknowledged' =
         IF Acknowledges(call)
           THEN acknowledged \cup {[session |-> call.delivery.session,
                                    position |-> call.delivery.last]}
           ELSE acknowledged
    /\ Return(c)
    /\ UNCHANGED <<stream, batches, requests, usage, outboxVars>>

PersistStep(c) ==
    \/ \E d \in Deliveries : ReplayRequest(c, d) \/ ReplayBatch(c, d) \/ Check(c, d)
    \/ LockStream(c) \/ PositionConflict(c)
    \/ Measure(c)
    \/ Commit(c)
    \/ Fail(c)
    \/ Answer(c)

Next ==
    \/ \E c \in Persisters : PersistStep(c)
    \/ OutboxNext /\ UNCHANGED telemetryVars

Spec == Init /\ [][Next]_vars

----------------------------------------------------------------------------
\* Nothing is skipped: the records up to the cursor are all stored, whichever
\* calls overtake each other (persistInTransaction).
CursorWithinHistory == stream # None => 0..stream \subseteq Recorded

\* The cursor does not fall behind either: no stored batch begins right after it, so
\* that single records, as the bridge delivers them, are all passed.  It stops early
\* only inside a longer batch, one that reaches across the end of the window.
\* docs/concepts/iot-telemetry.md: the next contiguous batch advances it.
CursorIsContiguous ==
    stream # None => \A p \in Positions : batches[p] # None => p # stream + 1

\* The bridges acknowledge a position only when every record up to it is
\* stored, for the Gateway forgets them all (ingestTelemetry of the bridge).
AcknowledgedIsStored == \A a \in acknowledged : 0..a.position \subseteq Recorded

\* The same of what the workers publish from the outbox.
SentIsStored == \A a \in sent : 0..a.position \subseteq Recorded

\* A quota counts the records that are stored, those of a replay once.
UsageIsExact == usage = Cardinality(Recorded)

\* What a request answered, it answers again: its receipt is that of a batch
\* with the content it came with, and no two batches share a position.
ReceiptsStand ==
    /\ \A r \in Requests : requests[r] # None =>
         /\ batches[requests[r].first] # None
         /\ batches[requests[r].first].digest = requests[r].digest
    /\ \A p, q \in Positions : p < q /\ batches[p] # None /\ batches[q] # None =>
         batches[p].last < q
=============================================================================
