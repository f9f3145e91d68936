------------------------- MODULE IntegrationProjection -------------------------
(***************************************************************************)
(* The copy of an Integration's topology and of its latest observations:   *)
(* ReportIntegrationTopology and ReportIntegrationObservations over the    *)
(* PostgreSQL repository or the memory one, called by the bridges of one   *)
(* Gateway.                                                                *)
(*                                                                         *)
(* A transaction is one step: every one that changes an Integration holds  *)
(* its advisory lock, one that delivers on a stream also the lock of the   *)
(* stream, and the session row it goes by is locked FOR SHARE.  Reading    *)
(* the current topology, reading an older one and persisting are three     *)
(* transactions, and others come in between.                               *)
(***************************************************************************)
EXTENDS Integers, FiniteSets

CONSTANTS
    None,
    Processes,
    Messages,       \* the reports that are sent, see IsMessage
    Integrations,
    Generations,    \* of topologies, a set of numbers
    Points,
    Streams,        \* a stream identity with its epoch
    MaxPosition,
    MaxTime,        \* of an observation
    Stores,         \* which of "memory" and "postgres" the composition may use
    MaxVersion      \* bounds the changes of the session

Kinds == {"topology", "observations"}
Positions == 1..MaxPosition
Times == 0..MaxTime

\* A report names the content of its payload by digests.  A topology declares
\* points, a batch says when it saw each of its points.
IsTopology(m) == m.kind = "topology" /\ m.points \subseteq Points
IsBatch(m) ==
    /\ m.kind = "observations"
    /\ DOMAIN m.seen \subseteq Points /\ \A t \in DOMAIN m.seen : m.seen[t] \in Times

\* sent is None where a delivery carries no times of its own.
IsDelivery(d) == d.stream \in Streams /\ d.position \in Positions

IsMessage(m) ==
    /\ m.integration \in Integrations /\ m.generation \in Generations
    /\ IsTopology(m) \/ IsBatch(m)
    /\ m.delivery # None => IsDelivery(m.delivery)

TopologyReports == {m \in Messages : m.kind = "topology"}
ObservationReports == {m \in Messages : m.kind = "observations"}
Delivered == {m \in Messages : m.delivery # None}
Contents == {m.content : m \in Messages}

\* The bridge derives the request from the place of a delivery.
RequestOf(m) ==
    IF m.delivery = None THEN <<m.content>> ELSE <<m.delivery.stream, m.delivery.position>>

ASSUME ProjectionAssumption ==
    /\ MaxPosition \in Nat /\ MaxTime \in Nat /\ MaxVersion \in Nat \ {0}
    /\ Generations \subseteq Nat
    /\ \A m \in Messages : IsMessage(m)

\* A digest is that of one payload.
SamePayload(m, n) ==
    /\ m.kind = n.kind /\ m.generation = n.generation
    /\ m.kind = "observations" => m.batch = n.batch /\ m.seen = n.seen
ASSUME DigestAssumption ==
    \A m, n \in Messages :
        m.content = n.content /\ m.integration = n.integration => SamePayload(m, n)

VARIABLES
    store,
    session,        \* the current session of the Gateway: version stands for its
                    \* epoch and revision, credential for its generation
    current,        \* integration_projections, by Integration
    history,        \* integration_projection_topologies
    batches,        \* integration_projection_batches
    inbox,          \* integration_projection_ingress_requests; the audit record and
                    \* the outbox event of a receipt are written beside it
    streams,        \* integration_projection_cloudlink_streams, by stream
    deliveries,     \* integration_projection_cloudlink_deliveries, each with its
                    \* acknowledgement and its attempts beside it
    work,           \* of each process: the report it executes and what it has read
    published       \* the acknowledgements that the bridge sent for them

Observation(points) == [points -> [at : Times, batch : {m.batch : m \in ObservationReports}]]

\* The rows of the tables.
Projection ==
    [generation : Generations, kind : {m.integrationKind : m \in TopologyReports},
     content : Contents, points : SUBSET Points,
     latest : UNION {Observation(points) : points \in SUBSET Points}, revision : Nat \ {0}]
Topology ==
    [integration : Integrations, generation : Generations, content : Contents,
     points : SUBSET Points, revision : Nat \ {0}]
Batch ==
    [integration : Integrations, generation : Generations, content : Contents,
     batch : {m.batch : m \in ObservationReports}]
Receipt ==
    [request : {RequestOf(m) : m \in Messages}, integration : Integrations,
     kind : Kinds, generation : Generations, content : Contents,
     credential : Nat \ {0}, revision : Nat \ {0}]
Stream == [integration : Integrations, kind : Kinds, cursor : Positions]
Delivery ==
    [stream : Streams, position : Positions, content : Contents,
     sent : {m.delivery.sent : m \in Delivered} \cup {None}]

ASSUME NoneIsNoRow == None \notin Projection /\ None \notin Stream

\* Every table holds rows of its kind (migration 0003).
TypeOK ==
    /\ store \in Stores
    /\ session \in [version : 1..MaxVersion, credential : Nat \ {0}]
    /\ current \in [Integrations -> Projection \cup {None}]
    /\ history \subseteq Topology /\ batches \subseteq Batch /\ inbox \subseteq Receipt
    /\ streams \in [Streams -> Stream \cup {None}] /\ deliveries \subseteq Delivery

facts == <<current, history, batches, inbox>>
streamVars == <<streams, deliveries>>
vars == <<store, session, facts, streamVars, work, published>>

Init ==
    /\ store \in Stores
    /\ session = [version |-> 1, credential |-> 1]
    /\ current = [i \in Integrations |-> None]
    /\ history = {} /\ batches = {} /\ inbox = {}
    /\ streams = [s \in Streams |-> None]
    /\ deliveries = {}
    /\ work = [p \in Processes |-> None]
    /\ published = {}

----------------------------------------------------------------------------
(* The session that reports are authenticated against.                     *)

\* A new session fences the old one, the credential perhaps rotated; a heartbeat
\* or a health transition changes the row, too.
SessionChanges ==
    /\ session.version < MaxVersion
    /\ \E c \in {session.credential, session.credential + 1} :
          session' = [version |-> session.version + 1, credential |-> c]
    /\ UNCHANGED <<store, facts, streamVars, work, published>>

----------------------------------------------------------------------------
(* The streams.                                                            *)

Cursor(s) == IF streams[s] = None THEN 0 ELSE streams[s].cursor
IsBoundElsewhere(m) ==
    LET row == streams[m.delivery.stream]
    IN  row # None /\ <<row.integration, row.kind>> # <<m.integration, m.kind>>

StoredAt(m) == {d \in deliveries : d.stream = m.delivery.stream
                                   /\ d.position = m.delivery.position}

\* PostgreSQL keeps no times of a delivery; what it reads back has none.
KeptTime(m) == IF store = "memory" THEN m.delivery.sent ELSE None
SameDelivery(d, m) == d.content = m.content /\ d.sent = m.delivery.sent

\* A deviation: a delivery behind a gap is stored.
PrepareAnyPosition(m) ==
    IF StoredAt(m) = {} THEN "new" ELSE "replay"

PrepareDelivery(m) ==
    CASE IsBoundElsewhere(m) -> "stream-binding-conflict"
      [] StoredAt(m) # {} ->
            IF \A d \in StoredAt(m) : SameDelivery(d, m) THEN "replay" ELSE "delivery-conflict"
      [] OTHER ->
            CASE m.delivery.position > Cursor(m.delivery.stream) + 1 -> "delivery-gap"
              [] m.delivery.position <= Cursor(m.delivery.stream) -> "delivery-conflict"
              [] OTHER -> "new"

\* The acknowledgement is written and compared with the delivery it answers,
\* times included; PostgreSQL throws when they differ.
AckIsDecoded(m) == KeptTime(m) = m.delivery.sent

----------------------------------------------------------------------------
(* The projection.                                                         *)

Prior(m) == {r \in inbox : r.request = RequestOf(m)}

\* A receipt of another Integration is a contradiction that PostgreSQL throws on.
Repeated(m, matches) ==
    CASE store = "postgres" /\ \E r \in Prior(m) : r.integration # m.integration
            -> "storage-unavailable"
      [] matches -> "replayed"
      [] OTHER -> "idempotency-conflict"

ReceiptMatches(r, m, credential) ==
    /\ r.integration = m.integration /\ r.kind = m.kind
    /\ r.generation = m.generation /\ r.content = m.content
    /\ r.credential = credential

TopologyOutcome(m, credential) ==
    LET row == current[m.integration]
    IN  CASE row # None /\ m.generation < row.generation -> "stale-generation"
          [] row # None /\ row.kind # m.integrationKind -> "generation-conflict"
          [] Prior(m) # {} ->
                Repeated(m, /\ row # None /\ row.generation = m.generation
                            /\ row.content = m.content
                            /\ \A r \in Prior(m) : ReceiptMatches(r, m, credential))
          [] row # None /\ row.generation = m.generation -> "generation-conflict"
          [] OTHER -> "persisted"

SameBatch(b, m) == b.integration = m.integration /\ b.generation = m.generation
                   /\ b.batch = m.batch

ObservationsOutcome(m, credential) ==
    LET row == current[m.integration]
    IN  CASE row = None -> "topology-required"
          [] row # None /\ row.generation # m.generation -> "generation-conflict"
          [] row # None /\ row.generation = m.generation /\ Prior(m) # {} ->
                Repeated(m, \A r \in Prior(m) : ReceiptMatches(r, m, credential))
          [] row # None /\ row.generation = m.generation /\ Prior(m) = {}
             /\ \E b \in batches : SameBatch(b, m) -> "batch-conflict"
          [] OTHER -> "persisted"

ProjectionOutcome(m, credential) ==
    IF m.kind = "topology" THEN TopologyOutcome(m, credential)
    ELSE ObservationsOutcome(m, credential)

\* A deviation: an observation is taken however old it is.
MergeInOrderOfArrival(latest, m) ==
    [t \in DOMAIN latest \cup DOMAIN m.seen |->
        IF t \in DOMAIN m.seen THEN [at |-> m.seen[t], batch |-> m.batch] ELSE latest[t]]

\* Of two observations of a point the later one counts, of two at one time the
\* one that was persisted later.
MergeLatest(latest, m) ==
    [t \in DOMAIN latest \cup DOMAIN m.seen |->
        IF t \in DOMAIN m.seen /\ (t \in DOMAIN latest => m.seen[t] >= latest[t].at)
        THEN [at |-> m.seen[t], batch |-> m.batch] ELSE latest[t]]

Revision(i) == IF current[i] = None THEN 0 ELSE current[i].revision

\* A deviation: observations of the previous topology stay.
KeepObservations(m) ==
    IF current[m.integration] = None THEN <<>> ELSE current[m.integration].latest
NoObservations(m) == <<>>

\* The row that a persisted report leaves.
NewRow(m) ==
    IF m.kind = "topology"
    THEN [generation |-> m.generation, kind |-> m.integrationKind, content |-> m.content,
          points |-> m.points, latest |-> NoObservations(m),
          revision |-> Revision(m.integration) + 1]
    ELSE [current[m.integration] EXCEPT !.latest = MergeLatest(@, m), !.revision = @ + 1]

NewReceipt(m, credential) ==
    [request |-> RequestOf(m), integration |-> m.integration, kind |-> m.kind,
     generation |-> m.generation, content |-> m.content, credential |-> credential,
     revision |-> Revision(m.integration) + 1]

WriteProjection(m, credential) ==
    /\ current' = [current EXCEPT ![m.integration] = NewRow(m)]
    /\ inbox' = inbox \cup {NewReceipt(m, credential)}
    /\ IF m.kind = "topology"
       THEN /\ history' = history \cup
                 {[integration |-> m.integration, generation |-> m.generation,
                   content |-> m.content, points |-> m.points,
                   revision |-> Revision(m.integration) + 1]}
            /\ UNCHANGED batches
       ELSE /\ batches' = batches \cup
                 {[integration |-> m.integration, generation |-> m.generation,
                   batch |-> m.batch, content |-> m.content]}
            /\ UNCHANGED history

WriteDelivery(m) ==
    /\ streams' = [streams EXCEPT ![m.delivery.stream] =
                     [integration |-> m.integration, kind |-> m.kind,
                      cursor |-> m.delivery.position]]
    /\ deliveries' = deliveries \cup
         {[stream |-> m.delivery.stream, position |-> m.delivery.position,
           content |-> m.content, sent |-> KeptTime(m)]}

Ack(m) == [stream |-> m.delivery.stream, position |-> m.delivery.position, content |-> m.content]

----------------------------------------------------------------------------
(* A command.                                                              *)

At(p, stage) == work[p] # None /\ work[p].stage = stage
Return(p) == work' = [work EXCEPT ![p] = None]

\* A report is authenticated by the credential, or by a signature (signed) that
\* is checked against the session; the command then carries that fact along.
Receive(p, m, signed) ==
    /\ work[p] = None
    /\ work' = [work EXCEPT ![p] =
                  [stage |-> IF m.kind = "topology" THEN "persist" ELSE "read",
                   message |-> m, credential |-> session.credential,
                   fence |-> IF signed THEN session.version ELSE None, read |-> None]]
    /\ UNCHANGED <<store, session, facts, streamVars, published>>

\* The bridge passes on a delivery; one that is signed carries times.
Deliver(p) ==
    \E m \in Messages, signed \in BOOLEAN :
        /\ m.delivery # None /\ (signed => m.delivery.sent # None)
        /\ Receive(p, m, signed)

\* The command also takes a report that CloudLink did not deliver.
Call(p) == \E m \in Messages : m.delivery = None /\ Receive(p, m, FALSE)

\* The batch is validated against a topology of its generation.
Validated(p, topology, read) ==
    IF DOMAIN work[p].message.seen \subseteq topology.points
    THEN work' = [work EXCEPT ![p].stage = "persist", ![p].read = read]
    ELSE Return(p)

Identity(row) ==
    [content |-> row.content, generation |-> row.generation, revision |-> row.revision]

\* Observations are checked against the current topology; those of another
\* generation are refused, or are looked up when they were delivered.
ReadCurrent(p) ==
    /\ At(p, "read")
    /\ LET m   == work[p].message
           row == current[m.integration]
       IN  CASE row = None -> Return(p)
             [] row # None /\ row.generation = m.generation -> Validated(p, row, Identity(row))
             [] OTHER -> IF m.delivery = None THEN Return(p)
                         ELSE work' = [work EXCEPT ![p].stage = "history",
                                                   ![p].read = Identity(row)]
    /\ UNCHANGED <<store, session, facts, streamVars, published>>

ReadHistory(p) ==
    /\ At(p, "history")
    /\ LET m    == work[p].message
           rows == {t \in history : t.integration = m.integration /\ t.generation = m.generation}
       IN  IF rows = {} THEN Return(p)
           ELSE \E t \in rows : Validated(p, t, work[p].read)
    /\ UNCHANGED <<store, session, facts, streamVars, published>>

\* The memory composition has nothing to check a session fact with.
SessionFenced(w) == w.fence # None /\ (store = "memory" \/ w.fence # session.version)

\* What the transaction finds; "new" work is what the projection says of it.
Outcome(w) ==
    LET m         == w.message
        projected == ProjectionOutcome(m, w.credential)
        prepared  == IF m.delivery = None THEN "new" ELSE PrepareDelivery(m)
        effective == CASE prepared = "new" -> projected
                       [] prepared = "replay" -> "replayed"
                       [] OTHER -> prepared
    IN  CASE SessionFenced(w) -> "session-fenced"
          [] ~SessionFenced(w) /\ effective \in {"persisted", "replayed"} /\ m.delivery # None
             /\ ~AckIsDecoded(m) -> "storage-unavailable"
          [] OTHER -> effective

IsNewDelivery(m) == m.delivery # None /\ PrepareDelivery(m) = "new"

Commit(w, outcome) ==
    LET m == w.message
    IN  /\ IF outcome = "persisted" THEN WriteProjection(m, w.credential)
           ELSE UNCHANGED facts
        /\ IF outcome \in {"persisted", "replayed"} /\ IsNewDelivery(m) THEN WriteDelivery(m)
           ELSE UNCHANGED streamVars

\* The record that comes back belongs to the topology that was read before, and
\* is not older.
RecordIsValid(w, outcome, row) ==
    LET m       == w.message
        replays == outcome = "replayed" /\ m.delivery # None
                   /\ m.generation # w.read.generation
    IN  /\ row.content = w.read.content
        /\ IF replays THEN row.revision = w.read.revision
           ELSE /\ row.generation = m.generation
                /\ IF outcome = "persisted" THEN row.revision > w.read.revision
                   ELSE row.revision >= w.read.revision

\* A receipt may be of an earlier credential, never of a later one.
ReceiptIsValid(w, outcome, receipts) ==
    outcome = "persisted" \/ \A r \in receipts : r.credential <= w.credential

\* The transaction commits and answers; the bridge sends the acknowledgement of
\* an answer that the command accepts.
PersistAndAnswer(p, accepted) ==
    LET w       == work[p]
        outcome == Outcome(w)
    IN  /\ Commit(w, outcome)
        /\ published' = IF /\ outcome \in {"persisted", "replayed"} /\ w.message.delivery # None
                           /\ accepted /\ ReceiptIsValid(w, outcome, Prior(w.message))
                        THEN published \cup {Ack(w.message)} ELSE published
        /\ Return(p)
        /\ UNCHANGED <<store, session>>

PersistTopology(p) ==
    At(p, "persist") /\ work[p].message.kind = "topology" /\ PersistAndAnswer(p, TRUE)

PersistObservations(p) ==
    /\ At(p, "persist") /\ work[p].message.kind = "observations"
    /\ LET w == work[p]
       IN  PersistAndAnswer(p, RecordIsValid(w, Outcome(w), current'[w.message.integration]))

\* The answer of the commit is lost, or the process dies after it.
PersistUnanswered(p) ==
    /\ At(p, "persist")
    /\ store = "postgres"
    /\ Commit(work[p], Outcome(work[p]))
    /\ Return(p)
    /\ UNCHANGED <<store, session, published>>

\* Storage fails, or the process dies, and nothing is written.
Abandon(p) ==
    /\ work[p] # None
    /\ Return(p)
    /\ UNCHANGED <<store, session, facts, streamVars, published>>

Next ==
    \/ SessionChanges
    \/ \E p \in Processes :
          \/ Deliver(p) \/ Call(p) \/ ReadCurrent(p) \/ ReadHistory(p)
          \/ PersistTopology(p) \/ PersistObservations(p)
          \/ PersistUnanswered(p) \/ Abandon(p)

Spec == Init /\ [][Next]_vars

----------------------------------------------------------------------------
DeliveriesOf(s) == {d \in deliveries : d.stream = s}
ReceiptsOf(i) == {r \in inbox : r.integration = i}

\* What the inbox row of a report stands for is recorded.
IsRecorded(r) ==
    IF r.kind = "topology"
    THEN \E t \in history : t.integration = r.integration /\ t.generation = r.generation
                            /\ t.content = r.content /\ t.revision = r.revision
    ELSE \E b \in batches : b.integration = r.integration /\ b.generation = r.generation
                            /\ b.content = r.content

\* The evidence that a delivery is replayed from (replayStoredCloudLinkDelivery
\* throws without it).
HasEvidence(d) ==
    \E r \in inbox : /\ r.request = <<d.stream, d.position>> /\ r.content = d.content
                     /\ r.integration = streams[d.stream].integration
                     /\ r.kind = streams[d.stream].kind
                     /\ IsRecorded(r)

\* A stream has no hole: the positions up to its cursor are stored, each once,
\* as facts of the Integration and the kind that the stream is bound to, and
\* each can be replayed from its evidence.
StreamsAreContiguous ==
    \A s \in Streams :
        /\ {d.position : d \in DeliveriesOf(s)} = 1..Cursor(s)
        /\ \A d, e \in DeliveriesOf(s) : d.position = e.position => d = e
        /\ \A d \in DeliveriesOf(s) : HasEvidence(d)

\* An acknowledgement is cumulative, and the Gateway forgets what it covers: up
\* to the acknowledged position, every report is applied.
AcknowledgedIsApplied ==
    \A a \in published : \A n \in 1..a.position :
        \E d \in DeliveriesOf(a.stream) :
            /\ d.position = n
            /\ n = a.position => d.content = a.content
            /\ HasEvidence(d)

MessageOf(r) == CHOOSE m \in Messages : m.content = r.content /\ m.integration = r.integration

\* The projection is what the receipts add up to, in the order of their
\* revisions: the newest topology, and for each point that was observed since
\* the latest observation, of equally old ones the one that came last.
ProjectionIsSum ==
    \A i \in Integrations :
        /\ {r.revision : r \in ReceiptsOf(i)} = 1..Revision(i)
        /\ \A r, q \in ReceiptsOf(i) : r.revision = q.revision => r = q
        /\ current[i] # None =>
            \E top \in ReceiptsOf(i) :
                LET since == {r \in ReceiptsOf(i) : r.revision > top.revision}
                    of(t) == {r \in since : t \in DOMAIN MessageOf(r).seen}
                    at(r, t) == MessageOf(r).seen[t]
                IN  /\ top.kind = "topology" /\ top.content = current[i].content
                    /\ top.generation = current[i].generation
                    /\ \A r \in since : r.kind = "observations" /\ r.generation = top.generation
                    /\ \A r \in ReceiptsOf(i) \ (since \cup {top}) : r.generation < top.generation
                    /\ DOMAIN current[i].latest = {t \in Points : of(t) # {}}
                    /\ DOMAIN current[i].latest \subseteq current[i].points
                    /\ \A t \in DOMAIN current[i].latest :
                        \E r \in of(t) :
                            /\ current[i].latest[t] = [at |-> at(r, t), batch |-> MessageOf(r).batch]
                            /\ \A q \in of(t) \ {r} :
                                  IF q.revision > r.revision THEN at(q, t) < at(r, t)
                                  ELSE at(q, t) <= at(r, t)

\* No report, late, repeated or validated against a topology that is replaced
\* meanwhile, takes the projection back: not its generation, not an observation
\* of that generation, not the position of a stream.
NeverBackwards ==
    [][ /\ \A i \in Integrations : current[i] # None =>
              /\ current'[i] # None
              /\ current'[i].kind = current[i].kind
              /\ current'[i].revision >= current[i].revision
              /\ \/ current'[i].generation > current[i].generation
                 \/ /\ current'[i].generation = current[i].generation
                    /\ current'[i].content = current[i].content
                    /\ \A t \in DOMAIN current[i].latest :
                          /\ t \in DOMAIN current'[i].latest
                          /\ current'[i].latest[t].at >= current[i].latest[t].at
        /\ \A s \in Streams : streams[s] # None =>
              /\ streams'[s] # None
              /\ streams'[s].integration = streams[s].integration
              /\ streams'[s].kind = streams[s].kind
              /\ streams'[s].cursor >= streams[s].cursor ]_vars

\* A first topology that the bridge delivers at the next position of a stream,
\* under the session it was received in, is persisted (and so acknowledged).
DeliveredTopologyIsStored ==
    \A p \in Processes :
        At(p, "persist") =>
            LET m == work[p].message
            IN  /\ m.kind = "topology" /\ m.delivery # None
                /\ ~SessionFenced(work[p]) /\ PrepareDelivery(m) = "new"
                /\ current[m.integration] = None /\ Prior(m) = {}
                => Outcome(work[p]) = "persisted"
=============================================================================
