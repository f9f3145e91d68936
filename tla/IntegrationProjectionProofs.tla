-------------------- MODULE IntegrationProjectionProofs ---------------------
(***************************************************************************)
(* Theorems about IntegrationProjection, for any reports, streams,         *)
(* processes and bounds: what a bridge acknowledges is applied, the        *)
(* projection is what its receipts add up to, and nothing takes it back.   *)
(*                                                                         *)
(* A batch is validated in one transaction and persisted in another.  What *)
(* it was validated against is kept in the history, whose rows are final,  *)
(* and a generation has one topology: that is why a batch that passes the  *)
(* generation check of its transaction fits the topology it meets there.   *)
(***************************************************************************)
EXTENDS IntegrationProjection, TLAPS

\* What a process has in hand.
Work ==
    [stage : {"read", "history", "persist"}, message : Messages,
     credential : Nat \ {0}, fence : Nat \cup {None},
     read : [content : Contents, generation : Generations, revision : Nat \ {0}] \cup {None}]
WorkTypeOK == work \in [Processes -> Work \cup {None}]

\* What a batch was validated against: a topology of its generation that is,
\* or was, the Integration's.
Fits(m) ==
    \E t \in history : /\ t.integration = m.integration
                       /\ t.generation = m.generation
                       /\ DOMAIN m.seen \subseteq t.points
BatchesFit ==
    \A p \in Processes :
        At(p, "persist") /\ work[p].message.kind = "observations" => Fits(work[p].message)

\* A receipt was sent and what it stands for is recorded.
WasSent(r) ==
    \E m \in Messages : /\ m.content = r.content /\ m.integration = r.integration
                        /\ m.kind = r.kind /\ m.generation = r.generation
InboxIsBacked == \A r \in inbox : WasSent(r) /\ IsRecorded(r)

\* The history holds the current topology, older ones, and one of a generation.
HistoryIsCurrent ==
    /\ \A t \in history :
         /\ current[t.integration] # None
         /\ t.generation <= current[t.integration].generation
    /\ \A t, u \in history :
         t.integration = u.integration /\ t.generation = u.generation => t.points = u.points
    /\ \A i \in Integrations : current[i] # None =>
         \E t \in history : /\ t.integration = i
                            /\ t.generation = current[i].generation
                            /\ t.points = current[i].points

\* What is acknowledged is stored.
AcksAreStored ==
    \A a \in published :
        \E d \in deliveries : /\ d.stream = a.stream /\ d.position = a.position
                              /\ d.content = a.content

IInv ==
    /\ BatchesFit
    /\ InboxIsBacked
    /\ HistoryIsCurrent
    /\ StreamsAreContiguous
    /\ AcksAreStored
    /\ ProjectionIsSum

----------------------------------------------------------------------------
(* Types.                                                                  *)

\* The fields of a report.
LEMMA MessageFields ==
    ASSUME NEW m \in Messages
    PROVE  /\ m.integration \in Integrations
           /\ m.generation \in Generations /\ m.generation \in Nat
           /\ m.content \in Contents
           /\ m.kind \in Kinds
           /\ RequestOf(m) \in {RequestOf(n) : n \in Messages}
           /\ m.kind = "topology" =>
                /\ m.integrationKind \in {n.integrationKind : n \in TopologyReports}
                /\ m.points \subseteq Points
           /\ m.kind = "observations" =>
                /\ m.batch \in {n.batch : n \in ObservationReports}
                /\ DOMAIN m.seen \subseteq Points
                /\ \A t \in DOMAIN m.seen : m.seen[t] \in Times
           /\ m.delivery # None =>
                /\ m.delivery.stream \in Streams
                /\ m.delivery.position \in Positions
                /\ m \in Delivered
<1>1. /\ IsMessage(m) /\ Generations \subseteq Nat
  BY ProjectionAssumption
<1>2. m.kind \in Kinds
  BY <1>1 DEF IsMessage, IsTopology, IsBatch, Kinds
<1>3. m.kind = "topology" => /\ m \in TopologyReports /\ m.points \subseteq Points
  BY <1>1 DEF IsMessage, IsTopology, IsBatch, TopologyReports
<1>4. m.kind = "observations" => /\ m \in ObservationReports
                                 /\ DOMAIN m.seen \subseteq Points
                                 /\ \A t \in DOMAIN m.seen : m.seen[t] \in Times
  BY <1>1 DEF IsMessage, IsTopology, IsBatch, ObservationReports
<1>5. m.delivery # None => /\ m.delivery.stream \in Streams
                           /\ m.delivery.position \in Positions
                           /\ m \in Delivered
  BY <1>1 DEF IsMessage, IsDelivery, Delivered
<1> QED
  BY <1>1, <1>2, <1>3, <1>4, <1>5 DEF IsMessage, Contents

\* The observations of a row.
Latest == UNION {Observation(points) : points \in SUBSET Points}

LEMMA LatestIsObservation ==
    ASSUME NEW latest \in Latest
    PROVE  /\ DOMAIN latest \subseteq Points
           /\ latest \in Observation(DOMAIN latest)
           /\ \A t \in DOMAIN latest : latest[t].at \in Times
<1>1. PICK points \in SUBSET Points : latest \in Observation(points)
  BY DEF Latest
<1>2. DOMAIN latest = points
  BY <1>1 DEF Observation
<1> QED
  BY <1>1, <1>2 DEF Observation

LEMMA TimesAreNat == Times \subseteq Nat
  BY ProjectionAssumption DEF Times

\* Merging the latest observations, point by point.
LEMMA MergePoints ==
    ASSUME NEW latest \in Latest, NEW m \in Messages, m.kind = "observations",
           NEW merged, merged = MergeLatest(latest, m)
    PROVE  /\ DOMAIN merged = DOMAIN latest \cup DOMAIN m.seen
           /\ \A t \in DOMAIN merged :
                merged[t] = IF t \in DOMAIN m.seen /\ (t \in DOMAIN latest => m.seen[t] >= latest[t].at)
                            THEN [at |-> m.seen[t], batch |-> m.batch] ELSE latest[t]
  BY DEF MergeLatest

LEMMA MergeType ==
    ASSUME NEW latest \in Latest, NEW m \in Messages, m.kind = "observations"
    PROVE  MergeLatest(latest, m) \in Latest
<1> DEFINE points == DOMAIN latest \cup DOMAIN m.seen
           B == {n.batch : n \in ObservationReports}
           merged == MergeLatest(latest, m)
<1>1. points \subseteq Points
  BY MessageFields, LatestIsObservation
<1>2. /\ m.batch \in B
      /\ \A t \in DOMAIN m.seen : m.seen[t] \in Times
  BY MessageFields
<1>3. latest \in [DOMAIN latest -> [at : Times, batch : B]]
  BY LatestIsObservation DEF Observation
<1> HIDE DEF B
<1>4. \A t \in points :
        (IF t \in DOMAIN m.seen /\ (t \in DOMAIN latest => m.seen[t] >= latest[t].at)
         THEN [at |-> m.seen[t], batch |-> m.batch] ELSE latest[t]) \in [at : Times, batch : B]
  BY <1>2, <1>3
<1>5. merged \in [points -> [at : Times, batch : B]]
  BY <1>4 DEF MergeLatest
<1>6. merged \in Observation(points)
  BY <1>5 DEF Observation, B
<1> QED
  BY <1>1, <1>6 DEF Latest

LEMMA NoLatest == <<>> \in Latest /\ DOMAIN <<>> = {}
<1>1. DOMAIN <<>> = {}
  OBVIOUS
<1>2. <<>> \in [{} -> [at : Times, batch : {m.batch : m \in ObservationReports}]]
  BY <1>1
<1> QED
  BY <1>1, <1>2 DEF Latest, Observation

\* The row a topology leaves, and the row a batch leaves.
LEMMA TopologyRow ==
    ASSUME TypeOK, NEW m \in Messages, m.kind = "topology", NEW row, row = NewRow(m)
    PROVE  /\ row \in Projection
           /\ row.generation = m.generation
           /\ row.kind = m.integrationKind
           /\ row.content = m.content
           /\ row.points = m.points
           /\ row.latest = <<>>
           /\ row.revision = Revision(m.integration) + 1
<1> DEFINE r == Revision(m.integration) + 1
<1>1. m.integration \in Integrations
  BY MessageFields
<1>2. r \in Nat \ {0}
  <2>1. CASE current[m.integration] = None
    BY <2>1 DEF Revision
  <2>2. CASE current[m.integration] # None
    <3>1. current[m.integration] \in Projection
      BY <1>1, <2>2 DEF TypeOK
    <3> QED
      BY <2>2, <3>1 DEF Revision, Projection
  <2> QED
    BY <2>1, <2>2
<1> HIDE DEF r
<1>3. row = [generation |-> m.generation, kind |-> m.integrationKind, content |-> m.content,
             points |-> m.points, latest |-> <<>>, revision |-> r]
  BY DEF NewRow, NoObservations, r
<1>4. /\ m.generation \in Generations
      /\ m.integrationKind \in {n.integrationKind : n \in TopologyReports}
      /\ m.content \in Contents
      /\ m.points \in SUBSET Points
      /\ <<>> \in Latest
  BY MessageFields, NoLatest
<1>5. row \in [generation : Generations, kind : {n.integrationKind : n \in TopologyReports},
                content : Contents, points : SUBSET Points, latest : Latest,
                revision : Nat \ {0}]
  BY <1>2, <1>3, <1>4
<1> QED
  BY <1>3, <1>5 DEF Projection, Latest, r

LEMMA BatchRow ==
    ASSUME TypeOK, NEW m \in Messages, m.kind = "observations",
           NEW old, old = current[m.integration], old # None, NEW row, row = NewRow(m)
    PROVE  /\ row \in Projection
           /\ row.generation = old.generation
           /\ row.kind = old.kind
           /\ row.content = old.content
           /\ row.points = old.points
           /\ row.latest = MergeLatest(old.latest, m)
           /\ row.revision = old.revision + 1
<1> DEFINE G == Generations
           K == {n.integrationKind : n \in TopologyReports}
           C == Contents
           P == SUBSET Points
           N == Nat \ {0}
           R == [generation : G, kind : K, content : C, points : P, latest : Latest, revision : N]
           latest == MergeLatest(old.latest, m)
           revision == old.revision + 1
<1>1. old \in R
  BY MessageFields DEF TypeOK, Projection, Latest
<1>2. latest \in Latest
  BY <1>1, MergeType
<1>3. revision \in N
  BY <1>1
<1>4. row = [[old EXCEPT !.latest = latest] EXCEPT !.revision = revision]
  BY <1>1 DEF NewRow
<1> HIDE DEF G, K, C, P, N, latest, revision
<1>5. [old EXCEPT !.latest = latest] \in R
  BY <1>1, <1>2
<1>6. row \in R
  BY <1>3, <1>4, <1>5
<1>7. /\ row.generation = old.generation
      /\ row.kind = old.kind
      /\ row.content = old.content
      /\ row.points = old.points
      /\ row.latest = latest
      /\ row.revision = revision
  BY <1>1, <1>2, <1>3, <1>4
<1> QED
  BY <1>6, <1>7 DEF G, K, C, P, N, latest, revision, Projection, Latest

----------------------------------------------------------------------------
(* What a transaction finds.                                               *)

\* The next position of a stream.
LEMMA NextPosition ==
    ASSUME TypeOK, NEW m \in Messages, m.delivery # None, PrepareDelivery(m) = "new"
    PROVE  /\ ~IsBoundElsewhere(m)
           /\ StoredAt(m) = {}
           /\ m.delivery.position = Cursor(m.delivery.stream) + 1
<1>1. m.delivery.stream \in Streams /\ m.delivery.position \in Nat
  BY MessageFields, ProjectionAssumption DEF Positions
<1>2. Cursor(m.delivery.stream) \in Nat
  <2>1. CASE streams[m.delivery.stream] = None
    BY <2>1 DEF Cursor
  <2>2. CASE streams[m.delivery.stream] # None
    BY <1>1, <2>2, ProjectionAssumption DEF Cursor, TypeOK, Stream, Positions
  <2> QED
    BY <2>1, <2>2
<1>3. ~IsBoundElsewhere(m) /\ StoredAt(m) = {}
  BY DEF PrepareDelivery
<1>4. /\ ~(m.delivery.position > Cursor(m.delivery.stream) + 1)
      /\ ~(m.delivery.position <= Cursor(m.delivery.stream))
  BY <1>3 DEF PrepareDelivery
<1> QED
  BY <1>1, <1>2, <1>3, <1>4

\* A delivery that is replayed is stored with the same content.
LEMMA StoredDelivery ==
    ASSUME NEW m \in Messages, m.delivery # None, PrepareDelivery(m) = "replay"
    PROVE  \E d \in deliveries : /\ d.stream = m.delivery.stream
                                 /\ d.position = m.delivery.position
                                 /\ d.content = m.content
<1>1. StoredAt(m) # {} /\ \A d \in StoredAt(m) : SameDelivery(d, m)
  BY DEF PrepareDelivery
<1> QED
  BY <1>1 DEF StoredAt, SameDelivery

\* What the projection says of a report counts where its delivery is new.
LEMMA EffectiveOutcome ==
    ASSUME NEW w, NEW m \in Messages, m = w.message
    PROVE  /\ Outcome(w) = "persisted" =>
                /\ m.delivery # None => PrepareDelivery(m) = "new"
                /\ ProjectionOutcome(m, w.credential) = "persisted"
           /\ Outcome(w) = "replayed" =>
                \/ m.delivery # None /\ PrepareDelivery(m) = "replay"
                \/ /\ m.delivery # None => PrepareDelivery(m) = "new"
                   /\ ProjectionOutcome(m, w.credential) = "replayed"
<1> DEFINE projected == ProjectionOutcome(m, w.credential)
           prepared  == IF m.delivery = None THEN "new" ELSE PrepareDelivery(m)
           effective == CASE prepared = "new" -> projected
                          [] prepared = "replay" -> "replayed"
                          [] OTHER -> prepared
           unwritten == effective \in {"persisted", "replayed"} /\ m.delivery # None
                        /\ ~AckIsDecoded(m)
<1>1. PrepareDelivery(m) \in {"stream-binding-conflict", "replay", "delivery-conflict",
                              "delivery-gap", "new"}
  <2>1. CASE IsBoundElsewhere(m)
    BY <2>1 DEF PrepareDelivery
  <2>2. CASE ~IsBoundElsewhere(m) /\ StoredAt(m) # {}
    BY <2>2 DEF PrepareDelivery
  <2>3. CASE ~IsBoundElsewhere(m) /\ StoredAt(m) = {}
    BY <2>3 DEF PrepareDelivery
  <2> QED
    BY <2>1, <2>2, <2>3
<1>2. prepared \in {"stream-binding-conflict", "replay", "delivery-conflict",
                    "delivery-gap", "new"}
  BY <1>1
<1>3. Outcome(w) = CASE SessionFenced(w) -> "session-fenced"
                     [] ~SessionFenced(w) /\ unwritten -> "storage-unavailable"
                     [] OTHER -> effective
  BY DEF Outcome
<1> HIDE DEF unwritten
<1>4. Outcome(w) \in {"persisted", "replayed"} => effective = Outcome(w)
  <2>1. CASE SessionFenced(w)
    BY <1>3, <2>1
  <2>2. CASE ~SessionFenced(w) /\ unwritten
    BY <1>3, <2>2
  <2>3. CASE ~SessionFenced(w) /\ ~unwritten
    BY <1>3, <2>3
  <2> QED
    BY <2>1, <2>2, <2>3
<1> HIDE DEF projected
<1>5. /\ effective = "persisted" => prepared = "new" /\ projected = "persisted"
      /\ effective = "replayed" =>
           prepared = "replay" \/ (prepared = "new" /\ projected = "replayed")
  <2>1. CASE prepared = "new"
    <3>1. effective = projected
      BY <2>1
    <3> QED
      BY <2>1, <3>1
  <2>2. CASE prepared = "replay"
    <3>1. effective = "replayed"
      <4>1. prepared # "new"
        BY <2>2
      <4> HIDE DEF prepared
      <4> QED
        BY <2>2, <4>1
    <3> QED
      BY <2>2, <3>1
  <2>3. CASE prepared \notin {"new", "replay"}
    <3>1. effective = prepared
      BY <2>3
    <3> QED
      BY <1>2, <2>3, <3>1
  <2> QED
    BY <2>1, <2>2, <2>3
<1> QED
  BY <1>4, <1>5 DEF projected

\* A report is persisted when nothing of it is stored: a topology of a newer
\* generation, a batch of the current one.
LEMMA PersistedShape ==
    ASSUME NEW w, NEW m \in Messages, m = w.message, Outcome(w) = "persisted",
           NEW row, row = current[m.integration]
    PROVE  /\ m.delivery # None => PrepareDelivery(m) = "new"
           /\ Prior(m) = {}
           /\ m.kind = "topology" =>
                \/ row = None
                \/ /\ row.kind = m.integrationKind
                   /\ ~(m.generation < row.generation)
                   /\ m.generation # row.generation
           /\ m.kind = "observations" => row # None /\ row.generation = m.generation
<1>1. /\ m.delivery # None => PrepareDelivery(m) = "new"
      /\ ProjectionOutcome(m, w.credential) = "persisted"
  BY EffectiveOutcome
<1>2. \A matches : Repeated(m, matches) # "persisted"
  BY DEF Repeated
<1>3. CASE m.kind = "topology"
  <2>1. TopologyOutcome(m, w.credential) = "persisted"
    BY <1>1, <1>3 DEF ProjectionOutcome
  <2> QED
    BY <1>1, <1>2, <1>3, <2>1 DEF TopologyOutcome
<1>4. CASE m.kind = "observations"
  <2>1. ObservationsOutcome(m, w.credential) = "persisted"
    BY <1>1, <1>4 DEF ProjectionOutcome
  <2> QED
    BY <1>1, <1>2, <1>4, <2>1 DEF ObservationsOutcome
<1> QED
  BY <1>3, <1>4, MessageFields DEF Kinds

\* A report is replayed from its delivery, or from the receipt of its request.
LEMMA ReplayedShape ==
    ASSUME NEW w, NEW m \in Messages, m = w.message, Outcome(w) = "replayed"
    PROVE  \/ m.delivery # None /\ PrepareDelivery(m) = "replay"
           \/ /\ m.delivery # None => PrepareDelivery(m) = "new"
              /\ Prior(m) # {}
              /\ \A r \in Prior(m) : ReceiptMatches(r, m, w.credential)
<1>1. \/ m.delivery # None /\ PrepareDelivery(m) = "replay"
      \/ /\ m.delivery # None => PrepareDelivery(m) = "new"
         /\ ProjectionOutcome(m, w.credential) = "replayed"
  BY EffectiveOutcome
<1>2. ASSUME NEW matches, Repeated(m, matches) = "replayed"
      PROVE  matches
  BY <1>2 DEF Repeated
<1>3. ASSUME ProjectionOutcome(m, w.credential) = "replayed"
      PROVE  Prior(m) # {} /\ \A r \in Prior(m) : ReceiptMatches(r, m, w.credential)
  <2>1. CASE m.kind = "topology"
    <3>1. TopologyOutcome(m, w.credential) = "replayed"
      BY <1>3, <2>1 DEF ProjectionOutcome
    <3> QED
      BY <1>2, <3>1 DEF TopologyOutcome, Repeated
  <2>2. CASE m.kind # "topology"
    <3>1. ObservationsOutcome(m, w.credential) = "replayed"
      BY <1>3, <2>2 DEF ProjectionOutcome
    <3> QED
      BY <1>2, <3>1 DEF ObservationsOutcome, Repeated
  <2> QED
    BY <2>1, <2>2
<1> QED
  BY <1>1, <1>3

\* The transactions that write a projection, a delivery, both or nothing.
Persists(w) == Outcome(w) = "persisted"
StoresDelivery(w) ==
    /\ Outcome(w) \in {"persisted", "replayed"}
    /\ w.message.delivery # None
    /\ PrepareDelivery(w.message) = "new"

LEMMA CommitCases ==
    ASSUME NEW w, Commit(w, Outcome(w))
    PROVE  /\ IF Persists(w) THEN WriteProjection(w.message, w.credential)
              ELSE /\ current' = current /\ history' = history
                   /\ batches' = batches /\ inbox' = inbox
           /\ IF StoresDelivery(w) THEN WriteDelivery(w.message)
              ELSE streams' = streams /\ deliveries' = deliveries
  BY DEF Commit, Persists, StoresDelivery, IsNewDelivery, facts, streamVars

----------------------------------------------------------------------------
(* Every table holds rows of its kind.                                     *)

\* A persisted report leaves rows of their kinds.
LEMMA ProjectionTypes ==
    ASSUME TypeOK, NEW m \in Messages, NEW credential \in Nat \ {0},
           WriteProjection(m, credential),
           m.kind = "observations" => current[m.integration] # None
    PROVE  /\ current' \in [Integrations -> Projection \cup {None}]
           /\ history' \subseteq Topology /\ batches' \subseteq Batch /\ inbox' \subseteq Receipt
<1>1. /\ m.integration \in Integrations /\ m.generation \in Generations
      /\ m.content \in Contents /\ m.kind \in Kinds
      /\ RequestOf(m) \in {RequestOf(n) : n \in Messages}
  BY MessageFields
<1> DEFINE row == NewRow(m)
<1>2. row \in Projection /\ row.revision = Revision(m.integration) + 1
  <2>1. CASE m.kind = "topology"
    BY <2>1, TopologyRow
  <2>2. CASE m.kind = "observations"
    BY <2>2, BatchRow DEF Revision
  <2> QED
    BY <1>1, <2>1, <2>2 DEF Kinds
<1>3. Revision(m.integration) + 1 \in Nat \ {0}
  BY <1>2 DEF Projection
<1>4. current' \in [Integrations -> Projection \cup {None}]
  <2>1. current' = [current EXCEPT ![m.integration] = row]
    BY DEF WriteProjection
  <2> HIDE DEF row
  <2> QED
    BY <1>2, <2>1 DEF TypeOK
<1>5. NewReceipt(m, credential) \in Receipt
  BY <1>1, <1>3 DEF NewReceipt, Receipt
<1>6. inbox' \subseteq Receipt
  BY <1>5 DEF WriteProjection, TypeOK
<1>7. m.kind = "topology" =>
        [integration |-> m.integration, generation |-> m.generation,
         content |-> m.content, points |-> m.points,
         revision |-> Revision(m.integration) + 1] \in Topology
  BY <1>1, <1>3, MessageFields DEF Topology
<1>8. history' \subseteq Topology
  BY <1>7 DEF WriteProjection, TypeOK
<1>9. m.kind = "observations" =>
        [integration |-> m.integration, generation |-> m.generation,
         batch |-> m.batch, content |-> m.content] \in Batch
  BY <1>1, MessageFields DEF Batch
<1>10. batches' \subseteq Batch
  BY <1>1, <1>9 DEF WriteProjection, TypeOK, Kinds
<1> QED
  BY <1>4, <1>6, <1>8, <1>10

\* A stored delivery leaves rows of their kinds.
LEMMA DeliveryTypes ==
    ASSUME TypeOK, NEW m \in Messages, m.delivery # None, WriteDelivery(m)
    PROVE  streams' \in [Streams -> Stream \cup {None}] /\ deliveries' \subseteq Delivery
<1>1. /\ m.integration \in Integrations /\ m.kind \in Kinds /\ m.content \in Contents
      /\ m.delivery.stream \in Streams /\ m.delivery.position \in Positions
      /\ m \in Delivered
  BY MessageFields
<1>2. [integration |-> m.integration, kind |-> m.kind, cursor |-> m.delivery.position] \in Stream
  BY <1>1 DEF Stream
<1>3. KeptTime(m) \in {n.delivery.sent : n \in Delivered} \cup {None}
  BY <1>1 DEF KeptTime
<1>4. [stream |-> m.delivery.stream, position |-> m.delivery.position,
       content |-> m.content, sent |-> KeptTime(m)] \in Delivery
  BY <1>1, <1>3 DEF Delivery
<1> QED
  BY <1>1, <1>2, <1>4 DEF WriteDelivery, TypeOK

\* A transaction leaves rows of their kinds.
LEMMA CommitTypes ==
    ASSUME TypeOK, NEW w \in Work, Commit(w, Outcome(w)), UNCHANGED <<store, session>>
    PROVE  TypeOK'
<1>1. w.message \in Messages /\ w.credential \in Nat \ {0}
  BY DEF Work
<1>2. /\ current' \in [Integrations -> Projection \cup {None}]
      /\ history' \subseteq Topology /\ batches' \subseteq Batch /\ inbox' \subseteq Receipt
  <2>1. CASE Persists(w)
    BY <1>1, <2>1, CommitCases, ProjectionTypes, PersistedShape DEF Persists
  <2>2. CASE ~Persists(w)
    BY <2>2, CommitCases DEF TypeOK
  <2> QED
    BY <2>1, <2>2
<1>3. streams' \in [Streams -> Stream \cup {None}] /\ deliveries' \subseteq Delivery
  <2>1. CASE StoresDelivery(w)
    BY <1>1, <2>1, CommitCases, DeliveryTypes DEF StoresDelivery
  <2>2. CASE ~StoresDelivery(w)
    BY <2>2, CommitCases DEF TypeOK
  <2> QED
    BY <2>1, <2>2
<1> QED
  BY <1>2, <1>3 DEF TypeOK

\* A process that sets out carries a report and what it has read.
LEMMA ReceiveType ==
    ASSUME TypeOK, WorkTypeOK, NEW p \in Processes, NEW m \in Messages,
           NEW signed \in BOOLEAN, Receive(p, m, signed)
    PROVE  WorkTypeOK'
<1>1. session.version \in Nat /\ session.credential \in Nat \ {0}
  BY ProjectionAssumption DEF TypeOK
<1> DEFINE new == [stage |-> IF m.kind = "topology" THEN "persist" ELSE "read",
                   message |-> m, credential |-> session.credential,
                   fence |-> IF signed THEN session.version ELSE None, read |-> None]
<1>2. new \in Work
  BY <1>1 DEF Work
<1>3. work' = [work EXCEPT ![p] = new]
  BY DEF Receive
<1> HIDE DEF new
<1> QED
  BY <1>2, <1>3 DEF WorkTypeOK

\* What a process reads keeps its work in type.
LEMMA ReadType ==
    ASSUME TypeOK, NEW w \in Work,
           NEW stage \in {"history", "persist"},
           NEW read \in [content : Contents, generation : Generations, revision : Nat \ {0}] \cup {None}
    PROVE  [w EXCEPT !.stage = stage, !.read = read] \in Work
  BY DEF Work

LEMMA IdentityType ==
    ASSUME NEW row \in Projection
    PROVE  Identity(row) \in [content : Contents, generation : Generations, revision : Nat \ {0}]
  BY DEF Identity, Projection

\* Every step keeps the types.
LEMMA TypeNext ==
    ASSUME TypeOK, WorkTypeOK, [Next]_vars
    PROVE  TypeOK' /\ WorkTypeOK'
<1>1. CASE SessionChanges
  <2>1. session' \in [version : 1..MaxVersion, credential : Nat \ {0}]
    BY <1>1, ProjectionAssumption DEF SessionChanges, TypeOK
  <2> QED
    BY <1>1, <2>1 DEF SessionChanges, TypeOK, WorkTypeOK, facts, streamVars
<1>2. ASSUME NEW p \in Processes, Deliver(p) \/ Call(p)
      PROVE  TypeOK' /\ WorkTypeOK'
  <2>1. PICK m \in Messages, signed \in BOOLEAN : Receive(p, m, signed)
    BY <1>2 DEF Deliver, Call
  <2>2. WorkTypeOK'
    BY <2>1, ReceiveType
  <2> QED
    BY <2>1, <2>2 DEF Receive, TypeOK, facts, streamVars
<1>3. ASSUME NEW p \in Processes, ReadCurrent(p) \/ ReadHistory(p)
      PROVE  TypeOK' /\ WorkTypeOK'
  <2>1. work[p] \in Work /\ work[p].message \in Messages
    BY <1>3 DEF ReadCurrent, ReadHistory, At, WorkTypeOK, Work
  <2>2. work[p].message.integration \in Integrations
    BY <2>1, MessageFields
  <2>3. \/ Return(p)
        \/ \E stage \in {"history", "persist"},
              read \in [content : Contents, generation : Generations, revision : Nat \ {0}] \cup {None} :
                work' = [work EXCEPT ![p] = [work[p] EXCEPT !.stage = stage, !.read = read]]
    <3>1. CASE ReadCurrent(p)
      <4> DEFINE row == current[work[p].message.integration]
      <4>1. row # None => Identity(row) \in [content : Contents, generation : Generations,
                                             revision : Nat \ {0}]
        BY <2>2, IdentityType DEF TypeOK
      <4> QED
        BY <3>1, <4>1 DEF ReadCurrent, Validated
    <3>2. CASE ReadHistory(p)
      <4>1. work[p].read \in [content : Contents, generation : Generations,
                              revision : Nat \ {0}] \cup {None}
        BY <2>1 DEF Work
      <4> QED
        BY <3>2, <4>1 DEF ReadHistory, Validated
    <3> QED
      BY <1>3, <3>1, <3>2
  <2>4. WorkTypeOK'
    <3>1. CASE Return(p)
      BY <3>1 DEF WorkTypeOK, Return
    <3>2. CASE ~Return(p)
      <4>1. PICK stage \in {"history", "persist"},
                 read \in [content : Contents, generation : Generations, revision : Nat \ {0}]
                          \cup {None} :
                   work' = [work EXCEPT ![p] = [work[p] EXCEPT !.stage = stage, !.read = read]]
        BY <2>3, <3>2
      <4> DEFINE next == [work[p] EXCEPT !.stage = stage, !.read = read]
      <4>2. next \in Work
        BY <2>1, ReadType
      <4>3. work' = [work EXCEPT ![p] = next]
        BY <4>1
      <4> HIDE DEF next
      <4> QED
        BY <4>2, <4>3 DEF WorkTypeOK
    <3> QED
      BY <3>1, <3>2
  <2>5. UNCHANGED <<store, session, facts, streamVars>>
    BY <1>3 DEF ReadCurrent, ReadHistory
  <2> QED
    BY <2>4, <2>5 DEF TypeOK, facts, streamVars
<1>4. ASSUME NEW p \in Processes,
             PersistTopology(p) \/ PersistObservations(p) \/ PersistUnanswered(p)
      PROVE  TypeOK' /\ WorkTypeOK'
  <2>1. /\ work[p] \in Work
        /\ Commit(work[p], Outcome(work[p]))
        /\ Return(p)
        /\ UNCHANGED <<store, session>>
    BY <1>4 DEF PersistTopology, PersistObservations, PersistUnanswered, PersistAndAnswer,
                At, WorkTypeOK
  <2>2. WorkTypeOK'
    BY <2>1 DEF WorkTypeOK, Return
  <2> QED
    BY <2>1, <2>2, CommitTypes
<1>5. ASSUME NEW p \in Processes, Abandon(p)
      PROVE  TypeOK' /\ WorkTypeOK'
  BY <1>5 DEF Abandon, Return, TypeOK, WorkTypeOK, facts, streamVars
<1>6. CASE UNCHANGED vars
  BY <1>6 DEF vars, TypeOK, WorkTypeOK, facts, streamVars
<1> QED
  BY <1>1, <1>2, <1>3, <1>4, <1>5, <1>6 DEF Next

\* The empty tables are of their kinds.
LEMMA TypeInit == ASSUME Init PROVE TypeOK /\ WorkTypeOK
  BY ProjectionAssumption DEF Init, TypeOK, WorkTypeOK

\* Every table holds rows of its kind, and every process a command of its own.
THEOREM ProjectionTypeCorrect == Spec => [](TypeOK /\ WorkTypeOK)
<1> QED
  BY TypeInit, TypeNext, PTL DEF Spec

----------------------------------------------------------------------------
(* The steps.                                                              *)

\* An acknowledgement is sent after a report that was persisted or replayed.
Publishes(w) ==
    \/ published' = published
    \/ /\ published' = published \cup {Ack(w.message)}
       /\ Outcome(w) \in {"persisted", "replayed"} /\ w.message.delivery # None

\* A transaction of a process.
Transaction(p) ==
    /\ At(p, "persist")
    /\ Commit(work[p], Outcome(work[p]))
    /\ Publishes(work[p])
    /\ Return(p)

Quiet == /\ current' = current /\ history' = history /\ batches' = batches /\ inbox' = inbox
         /\ streams' = streams /\ deliveries' = deliveries /\ published' = published

LEMMA StepShape ==
    ASSUME [Next]_vars
    PROVE  Quiet \/ \E p \in Processes : Transaction(p)
<1>1. CASE SessionChanges
  BY <1>1 DEF SessionChanges, Quiet, facts, streamVars
<1>2. ASSUME NEW p \in Processes, Deliver(p) \/ Call(p)
      PROVE  Quiet
  BY <1>2 DEF Deliver, Call, Receive, Quiet, facts, streamVars
<1>3. ASSUME NEW p \in Processes, ReadCurrent(p) \/ ReadHistory(p) \/ Abandon(p)
      PROVE  Quiet
  BY <1>3 DEF ReadCurrent, ReadHistory, Abandon, Quiet, facts, streamVars
<1>4. ASSUME NEW p \in Processes, NEW accepted \in BOOLEAN, At(p, "persist"),
             PersistAndAnswer(p, accepted)
      PROVE  Transaction(p)
  BY <1>4 DEF PersistAndAnswer, Transaction, Publishes
<1>5. ASSUME NEW p \in Processes, PersistTopology(p)
      PROVE  Transaction(p)
  BY <1>4, <1>5 DEF PersistTopology
<1>6. ASSUME NEW p \in Processes, PersistObservations(p)
      PROVE  Transaction(p)
  <2>1. RecordIsValid(work[p], Outcome(work[p]), current'[work[p].message.integration]) \in BOOLEAN
    BY DEF RecordIsValid
  <2> QED
    BY <1>4, <1>6, <2>1 DEF PersistObservations
<1>7. ASSUME NEW p \in Processes, PersistUnanswered(p)
      PROVE  Transaction(p)
  BY <1>7 DEF PersistUnanswered, Transaction, Publishes
<1>8. CASE UNCHANGED vars
  BY <1>8 DEF vars, Quiet, facts, streamVars
<1> QED
  BY <1>1, <1>2, <1>3, <1>5, <1>6, <1>7, <1>8 DEF Next

\* Nothing is taken out of the tables.
LEMMA TablesGrow ==
    ASSUME [Next]_vars
    PROVE  /\ history \subseteq history' /\ batches \subseteq batches'
           /\ inbox \subseteq inbox' /\ deliveries \subseteq deliveries'
<1>1. CASE Quiet
  BY <1>1 DEF Quiet
<1>2. ASSUME NEW p \in Processes, Transaction(p)
      PROVE  /\ history \subseteq history' /\ batches \subseteq batches'
             /\ inbox \subseteq inbox' /\ deliveries \subseteq deliveries'
  BY <1>2, CommitCases DEF Transaction, WriteProjection, WriteDelivery
<1> QED
  BY <1>1, <1>2, StepShape

----------------------------------------------------------------------------
(* Batches fit the topology of their generation.                           *)

LEMMA FitsStays ==
    ASSUME NEW m, Fits(m), history \subseteq history'
    PROVE  Fits(m)'
  BY DEF Fits

\* What a process has validated fits.
LEMMA ReadFits ==
    ASSUME TypeOK, WorkTypeOK, HistoryIsCurrent, NEW p \in Processes,
           ReadCurrent(p) \/ ReadHistory(p), At(p, "persist")'
    PROVE  work'[p].message = work[p].message /\ Fits(work[p].message)
<1> DEFINE m == work[p].message
<1>1. work[p] \in Work /\ m \in Messages /\ work[p] # None /\ work[p].stage # "persist"
  BY DEF ReadCurrent, ReadHistory, At, WorkTypeOK, Work
<1>2. work \in [Processes -> Work \cup {None}]
  BY DEF WorkTypeOK
<1>3. ~Return(p)
  BY <1>1, <1>2 DEF Return, At
<1>4. ASSUME NEW topology, NEW read, Validated(p, topology, read)
      PROVE  work'[p].message = m /\ DOMAIN m.seen \subseteq topology.points
  <2>1. DOMAIN m.seen \subseteq topology.points
        /\ work' = [work EXCEPT ![p].stage = "persist", ![p].read = read]
    BY <1>3, <1>4 DEF Validated
  <2> QED
    BY <1>1, <1>2, <2>1 DEF Work
<1>5. CASE ReadHistory(p)
  <2>1. PICK t \in history : /\ t.integration = m.integration /\ t.generation = m.generation
                             /\ Validated(p, t, work[p].read)
    BY <1>3, <1>5 DEF ReadHistory
  <2> QED
    BY <1>4, <2>1 DEF Fits
<1>6. CASE ReadCurrent(p)
  <2> DEFINE row == current[m.integration]
  <2>1. m.integration \in Integrations
    BY <1>1, MessageFields
  <2>2. row # None
    BY <1>3, <1>6 DEF ReadCurrent
  <2>3. CASE row.generation = m.generation
    <3>1. Validated(p, row, Identity(row))
      BY <1>6, <2>2, <2>3 DEF ReadCurrent
    <3>2. work'[p].message = m /\ DOMAIN m.seen \subseteq row.points
      BY <1>4, <3>1
    <3> QED
      BY <2>1, <2>2, <2>3, <3>2 DEF HistoryIsCurrent, Fits
  <2>4. CASE row.generation # m.generation
    <3>1. work' = [work EXCEPT ![p].stage = "history", ![p].read = Identity(row)]
      BY <1>3, <1>6, <2>2, <2>4 DEF ReadCurrent
    <3>2. work'[p].stage = "history"
      BY <1>1, <1>2, <3>1 DEF Work
    <3> QED
      BY <3>2 DEF At
  <2> QED
    BY <2>3, <2>4
<1> QED
  BY <1>5, <1>6

LEMMA FitsNext ==
    ASSUME TypeOK, WorkTypeOK, HistoryIsCurrent, BatchesFit, [Next]_vars
    PROVE  BatchesFit'
<1> SUFFICES ASSUME NEW q \in Processes, NEW m, At(q, "persist")',
                    m = work'[q].message, m.kind = "observations"
             PROVE  Fits(m)'
  BY DEF BatchesFit, Fits
<1>1. history \subseteq history'
  BY TablesGrow
<1>2. work \in [Processes -> Work \cup {None}]
  BY DEF WorkTypeOK
<1>3. CASE work'[q] = work[q]
  <2>1. Fits(m)
    BY <1>3 DEF BatchesFit, At
  <2> QED
    BY <1>1, <1>3, <2>1, FitsStays
<1>4. ASSUME NEW p \in Processes, Deliver(p) \/ Call(p), work'[q] # work[q]
      PROVE  FALSE
  <2>1. PICK n \in Messages, signed \in BOOLEAN : Receive(p, n, signed)
    BY <1>4 DEF Deliver, Call
  <2>2. p = q
    BY <1>2, <1>4, <2>1 DEF Receive
  <2>3. work'[q].message = n /\ work'[q].stage = IF n.kind = "topology" THEN "persist" ELSE "read"
    BY <1>2, <2>1, <2>2 DEF Receive
  <2> QED
    BY <2>3 DEF At
<1>5. ASSUME NEW p \in Processes, ReadCurrent(p) \/ ReadHistory(p), work'[q] # work[q]
      PROVE  Fits(m)'
  <2>1. p = q
    BY <1>2, <1>5 DEF ReadCurrent, ReadHistory, Validated, Return
  <2>2. work'[q].message = work[q].message /\ Fits(work[q].message)
    BY <1>5, <2>1, ReadFits
  <2>3. Fits(m)
    BY <2>2
  <2> QED
    BY <1>1, <2>3, FitsStays
<1>6. ASSUME NEW p \in Processes, Return(p), work'[q] # work[q]
      PROVE  FALSE
  <2>1. work'[q] = None
    BY <1>2, <1>6 DEF Return
  <2> QED
    BY <2>1 DEF At
<1>7. CASE SessionChanges \/ UNCHANGED vars
  BY <1>3, <1>7 DEF SessionChanges, vars
<1>8. ASSUME NEW p \in Processes,
             \/ PersistTopology(p) \/ PersistObservations(p)
             \/ PersistUnanswered(p) \/ Abandon(p)
      PROVE  Return(p)
  BY <1>8 DEF PersistTopology, PersistObservations, PersistUnanswered, PersistAndAnswer, Abandon
<1> QED
  BY <1>3, <1>4, <1>5, <1>6, <1>7, <1>8 DEF Next

----------------------------------------------------------------------------
(* Receipts, and the history.                                              *)

\* What is recorded stays recorded.
LEMMA RecordedStays ==
    ASSUME NEW r, IsRecorded(r), history \subseteq history', batches \subseteq batches'
    PROVE  IsRecorded(r)'
<1>1. CASE r.kind = "topology"
  BY <1>1 DEF IsRecorded
<1>2. CASE r.kind # "topology"
  BY <1>2 DEF IsRecorded
<1> QED
  BY <1>1, <1>2

\* The receipt of a report that is persisted is backed.
LEMMA ReceiptIsBacked ==
    ASSUME NEW m \in Messages, NEW credential, WriteProjection(m, credential),
           NEW r, r = NewReceipt(m, credential)
    PROVE  WasSent(r) /\ IsRecorded(r)'
<1>1. /\ r.integration = m.integration /\ r.kind = m.kind /\ r.generation = m.generation
      /\ r.content = m.content /\ r.revision = Revision(m.integration) + 1
  BY DEF NewReceipt
<1>2. WasSent(r)
  BY <1>1 DEF WasSent
<1>3. CASE m.kind = "topology"
  <2> DEFINE t == [integration |-> m.integration, generation |-> m.generation,
                   content |-> m.content, points |-> m.points,
                   revision |-> Revision(m.integration) + 1]
  <2>1. t \in history'
    BY <1>3 DEF WriteProjection
  <2>2. /\ t.integration = r.integration /\ t.generation = r.generation
        /\ t.content = r.content /\ t.revision = r.revision
    BY <1>1
  <2> HIDE DEF t
  <2>3. \E u \in history' : u.integration = r.integration /\ u.generation = r.generation
                            /\ u.content = r.content /\ u.revision = r.revision
    BY <2>1, <2>2
  <2> QED
    BY <1>1, <1>2, <1>3, <2>3 DEF IsRecorded
<1>4. CASE m.kind # "topology"
  <2> DEFINE b == [integration |-> m.integration, generation |-> m.generation,
                   batch |-> m.batch, content |-> m.content]
  <2>1. b \in batches'
    BY <1>4 DEF WriteProjection
  <2>2. /\ b.integration = r.integration /\ b.generation = r.generation
        /\ b.content = r.content
    BY <1>1
  <2> HIDE DEF b
  <2>3. \E c \in batches' : c.integration = r.integration /\ c.generation = r.generation
                            /\ c.content = r.content
    BY <2>1, <2>2
  <2> QED
    BY <1>1, <1>2, <1>4, <2>3 DEF IsRecorded
<1> QED
  BY <1>3, <1>4

LEMMA BackedNext ==
    ASSUME WorkTypeOK, InboxIsBacked, [Next]_vars
    PROVE  InboxIsBacked'
<1> SUFFICES ASSUME NEW r \in inbox' PROVE WasSent(r) /\ IsRecorded(r)'
  BY DEF InboxIsBacked, WasSent
<1>1. history \subseteq history' /\ batches \subseteq batches'
  BY TablesGrow
<1>2. CASE r \in inbox
  BY <1>1, <1>2, RecordedStays DEF InboxIsBacked
<1>3. CASE r \notin inbox
  <2>1. PICK p \in Processes : Transaction(p)
    BY <1>3, StepShape DEF Quiet
  <2>2. work[p].message \in Messages
    BY <2>1 DEF Transaction, At, WorkTypeOK, Work
  <2>3. WriteProjection(work[p].message, work[p].credential)
    BY <1>3, <2>1, CommitCases DEF Transaction
  <2>4. r = NewReceipt(work[p].message, work[p].credential)
    BY <1>3, <2>3 DEF WriteProjection
  <2> QED
    BY <2>2, <2>3, <2>4, ReceiptIsBacked
<1> QED
  BY <1>2, <1>3

\* A persisted topology is newer than every one before it.
LEMMA NewerTopology ==
    ASSUME TypeOK, NEW w \in Work, NEW m, m = w.message, Persists(w), m.kind = "topology",
           current[m.integration] # None
    PROVE  m.generation > current[m.integration].generation
<1>1. m \in Messages /\ m.integration \in Integrations /\ m.generation \in Nat
  BY MessageFields DEF Work
<1>2. current[m.integration].generation \in Nat
  BY <1>1, ProjectionAssumption DEF TypeOK, Projection
<1>3. /\ ~(m.generation < current[m.integration].generation)
      /\ m.generation # current[m.integration].generation
  BY <1>1, PersistedShape DEF Persists
<1> QED
  BY <1>1, <1>2, <1>3

\* A persisted report keeps the history current.
LEMMA HistoryWritten ==
    ASSUME TypeOK, HistoryIsCurrent, NEW w \in Work, Persists(w),
           WriteProjection(w.message, w.credential)
    PROVE  HistoryIsCurrent'
<1> DEFINE m == w.message
           i == m.integration
           row == NewRow(m)
<1>1. m \in Messages /\ i \in Integrations /\ m.generation \in Nat
  BY MessageFields DEF Work
<1>2. current' = [current EXCEPT ![i] = row] /\ current \in [Integrations -> Projection \cup {None}]
  BY DEF WriteProjection, TypeOK
<1>3. history \subseteq Topology
  BY DEF TypeOK
<1>4. row # None
  <2>1. CASE m.kind = "topology"
    BY <1>1, <2>1, TopologyRow, NoneIsNoRow
  <2>2. CASE m.kind = "observations"
    BY <1>1, <2>2, BatchRow, NoneIsNoRow, PersistedShape DEF Persists
  <2> QED
    BY <1>1, <2>1, <2>2, MessageFields DEF Kinds
<1>5. CASE m.kind = "topology"
  <2> DEFINE t == [integration |-> i, generation |-> m.generation, content |-> m.content,
                   points |-> m.points, revision |-> Revision(i) + 1]
  <2>1. history' = history \cup {t}
    BY <1>5 DEF WriteProjection
  <2>2. row.generation = m.generation /\ row.points = m.points
    BY <1>1, <1>5, TopologyRow
  <2>3. t.integration = i /\ t.generation = m.generation /\ t.points = m.points
    OBVIOUS
  <2>4. \A u \in history : u.integration = i => u.generation < m.generation
    <3>1. TAKE u \in history
    <3>2. HAVE u.integration = i
    <3>3. current[i] # None /\ u.generation <= current[i].generation
      BY <3>2 DEF HistoryIsCurrent
    <3>4. m.generation > current[i].generation
      BY <1>5, <3>3, NewerTopology
    <3>5. u.generation \in Nat /\ current[i].generation \in Nat
      BY <1>1, <1>2, <1>3, <3>3, ProjectionAssumption DEF Topology, Projection
    <3> QED
      BY <1>1, <3>3, <3>4, <3>5
  <2> HIDE DEF row, t
  <2>5. \A u \in history' : /\ current'[u.integration] # None
                            /\ u.generation <= current'[u.integration].generation
    <3>1. TAKE u \in history'
    <3>2. CASE u.integration = i
      <4>1. u.generation <= m.generation
        <5>1. CASE u = t
          BY <1>1, <2>3, <5>1
        <5>2. CASE u # t
          <6>1. u \in history /\ u.generation < m.generation
            BY <2>1, <2>4, <3>2, <5>2
          <6>2. u.generation \in Nat
            BY <1>3, <6>1, ProjectionAssumption DEF Topology
          <6> QED
            BY <1>1, <6>1, <6>2
        <5> QED
          BY <5>1, <5>2
      <4> QED
        BY <1>1, <1>2, <1>4, <2>2, <3>2, <4>1
    <3>3. CASE u.integration # i
      <4>1. u \in history /\ u.integration \in Integrations
        BY <1>3, <2>1, <2>3, <3>3 DEF Topology
      <4>2. current'[u.integration] = current[u.integration]
        BY <1>2, <3>3, <4>1
      <4> QED
        BY <4>1, <4>2 DEF HistoryIsCurrent
    <3> QED
      BY <3>2, <3>3
  <2>6. \A u, v \in history' :
           u.integration = v.integration /\ u.generation = v.generation => u.points = v.points
    <3>1. TAKE u, v \in history'
    <3>2. HAVE u.integration = v.integration /\ u.generation = v.generation
    <3>3. CASE u \in history /\ v \in history
      BY <3>2, <3>3 DEF HistoryIsCurrent
    <3>4. CASE u = t /\ v = t
      BY <3>4
    <3>5. CASE u = t /\ v \in history
      BY <1>1, <2>3, <2>4, <3>2, <3>5
    <3>6. CASE u \in history /\ v = t
      BY <1>1, <2>3, <2>4, <3>2, <3>6
    <3> QED
      BY <2>1, <3>3, <3>4, <3>5, <3>6
  <2>7. \A k \in Integrations : current'[k] # None =>
           \E u \in history' : /\ u.integration = k
                               /\ u.generation = current'[k].generation
                               /\ u.points = current'[k].points
    <3>1. TAKE k \in Integrations
    <3>2. CASE k = i
      BY <1>1, <1>2, <2>1, <2>2, <2>3, <3>2
    <3>3. CASE k # i
      BY <1>2, <2>1, <3>3 DEF HistoryIsCurrent
    <3> QED
      BY <3>2, <3>3
  <2> QED
    BY <2>5, <2>6, <2>7 DEF HistoryIsCurrent
<1>6. CASE m.kind = "observations"
  <2>1. history' = history
    BY <1>6 DEF WriteProjection
  <2>2. /\ current[i] # None /\ row.generation = current[i].generation
        /\ row.points = current[i].points
    BY <1>1, <1>6, BatchRow, PersistedShape DEF Persists
  <2> HIDE DEF row
  <2>3. \A k \in Integrations :
           /\ current'[k] # None <=> current[k] # None
           /\ current'[k].generation = current[k].generation
           /\ current'[k].points = current[k].points
    BY <1>2, <1>4, <2>2
  <2>4. \A u \in history : u.integration \in Integrations
    BY <1>3 DEF Topology
  <2> QED
    BY <2>1, <2>3, <2>4 DEF HistoryIsCurrent
<1> QED
  BY <1>1, <1>5, <1>6, MessageFields DEF Kinds

LEMMA HistoryNext ==
    ASSUME TypeOK, WorkTypeOK, HistoryIsCurrent, [Next]_vars
    PROVE  HistoryIsCurrent'
<1>1. CASE Quiet
  BY <1>1 DEF Quiet, HistoryIsCurrent
<1>2. ASSUME NEW p \in Processes, Transaction(p)
      PROVE  HistoryIsCurrent'
  <2>1. work[p] \in Work
    BY <1>2 DEF Transaction, At, WorkTypeOK
  <2>2. CASE Persists(work[p])
    BY <1>2, <2>1, <2>2, CommitCases, HistoryWritten DEF Transaction
  <2>3. CASE ~Persists(work[p])
    BY <1>2, <2>3, CommitCases DEF Transaction, HistoryIsCurrent
  <2> QED
    BY <2>2, <2>3
<1> QED
  BY <1>1, <1>2, StepShape

----------------------------------------------------------------------------
(* The streams.                                                            *)

\* What a delivery can be replayed from stays while its stream is bound to the
\* same facts.
LEMMA EvidenceStays ==
    ASSUME NEW d, HasEvidence(d),
           history \subseteq history', batches \subseteq batches', inbox \subseteq inbox',
           streams'[d.stream].integration = streams[d.stream].integration,
           streams'[d.stream].kind = streams[d.stream].kind
    PROVE  HasEvidence(d)'
<1>1. PICK r \in inbox : /\ r.request = <<d.stream, d.position>> /\ r.content = d.content
                         /\ r.integration = streams[d.stream].integration
                         /\ r.kind = streams[d.stream].kind
                         /\ IsRecorded(r)
  BY DEF HasEvidence
<1>2. IsRecorded(r)' /\ r \in inbox'
  BY <1>1, RecordedStays
<1> QED
  BY <1>1, <1>2 DEF HasEvidence

\* A delivery is stored with the receipt of its request.
LEMMA StoredWithReceipt ==
    ASSUME NEW w \in Work, NEW m, m = w.message, StoresDelivery(w), Commit(w, Outcome(w))
    PROVE  \E r \in inbox' :
             /\ r.request = <<m.delivery.stream, m.delivery.position>>
             /\ r.content = m.content /\ r.integration = m.integration /\ r.kind = m.kind
<1>1. /\ m \in Messages
      /\ RequestOf(m) = <<m.delivery.stream, m.delivery.position>>
      /\ m.delivery # None /\ PrepareDelivery(m) = "new"
  BY DEF Work, StoresDelivery, RequestOf
<1>2. CASE Persists(w)
  <2> DEFINE r == NewReceipt(m, w.credential)
  <2>1. r \in inbox'
    BY <1>2, CommitCases DEF WriteProjection
  <2>2. /\ r.request = RequestOf(m) /\ r.content = m.content
        /\ r.integration = m.integration /\ r.kind = m.kind
    BY DEF NewReceipt
  <2> HIDE DEF r
  <2> QED
    BY <1>1, <2>1, <2>2
<1>3. CASE ~Persists(w)
  <2>1. inbox' = inbox /\ Outcome(w) = "replayed"
    BY <1>3, CommitCases DEF StoresDelivery, Persists
  <2>2. Prior(m) # {} /\ \A r \in Prior(m) : ReceiptMatches(r, m, w.credential)
    BY <1>1, <2>1, ReplayedShape
  <2> QED
    BY <1>1, <2>1, <2>2 DEF Prior, ReceiptMatches
<1> QED
  BY <1>2, <1>3

LEMMA CursorIsNat ==
    ASSUME TypeOK, NEW s \in Streams
    PROVE  /\ Cursor(s) \in Nat
           /\ streams[s] = None => Cursor(s) = 0
           /\ streams[s] # None => Cursor(s) = streams[s].cursor
  BY ProjectionAssumption DEF Cursor, TypeOK, Stream, Positions

\* A delivery that is stored takes the next position of its stream.
LEMMA StreamWritten ==
    ASSUME TypeOK, StreamsAreContiguous, NEW w \in Work, StoresDelivery(w),
           Commit(w, Outcome(w)), InboxIsBacked',
           history \subseteq history', batches \subseteq batches', inbox \subseteq inbox'
    PROVE  StreamsAreContiguous'
<1> DEFINE m == w.message
           s == m.delivery.stream
           n == m.delivery.position
           row == [integration |-> m.integration, kind |-> m.kind, cursor |-> n]
<1>1. /\ m \in Messages /\ m.delivery # None /\ PrepareDelivery(m) = "new"
      /\ WriteDelivery(m)
  BY CommitCases DEF Work, StoresDelivery
<1>2. s \in Streams /\ n \in Nat
  BY <1>1, MessageFields, ProjectionAssumption DEF Positions
<1>0. PICK e : e = [stream |-> s, position |-> n, content |-> m.content, sent |-> KeptTime(m)]
  OBVIOUS
<1>3. /\ streams' = [streams EXCEPT ![s] = row]
      /\ deliveries' = deliveries \cup {e}
      /\ streams \in [Streams -> Stream \cup {None}]
  BY <1>0, <1>1 DEF WriteDelivery, TypeOK
<1>4. /\ ~IsBoundElsewhere(m)
      /\ n = Cursor(s) + 1 /\ Cursor(s) \in Nat
  BY <1>1, <1>2, NextPosition, CursorIsNat
<1>5. /\ e.stream = s /\ e.position = n /\ e.content = m.content
      /\ row.integration = m.integration /\ row.kind = m.kind /\ row.cursor = n
  BY <1>0
<1>6. row \in Stream /\ row # None
  <2>1. m.integration \in Integrations /\ m.kind \in Kinds /\ n \in Positions
    BY <1>1, MessageFields
  <2> QED
    BY <2>1, NoneIsNoRow DEF Stream
<1> HIDE DEF row
<1>7. /\ streams'[s] = row
      /\ \A x \in Streams : x # s => streams'[x] = streams[x]
  BY <1>2, <1>3
<1>8. Cursor(s)' = n
  BY <1>5, <1>6, <1>7 DEF Cursor
<1>9. \A x \in Streams : x # s => Cursor(x)' = Cursor(x)
  BY <1>7 DEF Cursor
<1>10. \A d \in deliveries : d.stream \in Streams /\ d.position \in Nat
  BY ProjectionAssumption DEF TypeOK, Delivery, Positions
<1>11. \A d \in deliveries : d.stream = s => d.position \in 1..Cursor(s)
  BY <1>2 DEF StreamsAreContiguous, DeliveriesOf
<1>12. \A d \in deliveries :
          /\ streams'[d.stream].integration = streams[d.stream].integration
          /\ streams'[d.stream].kind = streams[d.stream].kind
  <2>1. TAKE d \in deliveries
  <2>2. CASE d.stream = s
    <3>1. streams[s] # None
      BY <1>2, <1>11, <2>2, CursorIsNat
    <3>2. /\ streams[s].integration = m.integration
          /\ streams[s].kind = m.kind
      BY <1>4, <3>1 DEF IsBoundElsewhere
    <3> QED
      BY <1>5, <1>7, <2>2, <3>2
  <2>3. CASE d.stream # s
    BY <1>7, <1>10, <2>3
  <2> QED
    BY <2>2, <2>3
<1>13. \A d \in deliveries : HasEvidence(d)'
  <2>1. TAKE d \in deliveries
  <2>2. HasEvidence(d)
    BY <1>10 DEF StreamsAreContiguous, DeliveriesOf
  <2> QED
    BY <1>12, <2>2, EvidenceStays
<1>14. HasEvidence(e)'
  <2>1. PICK r \in inbox' :
          /\ r.request = <<s, n>>
          /\ r.content = m.content /\ r.integration = m.integration /\ r.kind = m.kind
    BY StoredWithReceipt
  <2>2. IsRecorded(r)'
    BY DEF InboxIsBacked
  <2> QED
    BY <1>5, <1>7, <2>1, <2>2 DEF HasEvidence
<1>15. ASSUME NEW x \in Streams, x # s
       PROVE  DeliveriesOf(x)' = DeliveriesOf(x)
  BY <1>3, <1>5, <1>15 DEF DeliveriesOf
<1>16. DeliveriesOf(s)' = DeliveriesOf(s) \cup {e}
  BY <1>3, <1>5 DEF DeliveriesOf
<1>17. /\ {d.position : d \in DeliveriesOf(s)} = 1..Cursor(s)
       /\ \A d, f \in DeliveriesOf(s) : d.position = f.position => d = f
  BY <1>2 DEF StreamsAreContiguous
<1>18. {d.position : d \in DeliveriesOf(s)'} = 1..n
  <2>1. {d.position : d \in DeliveriesOf(s)'} = {d.position : d \in DeliveriesOf(s)} \cup {n}
    BY <1>5, <1>16
  <2> QED
    BY <1>4, <1>17, <2>1
<1>19. \A d, f \in DeliveriesOf(s)' : d.position = f.position => d = f
  <2>1. \A d \in DeliveriesOf(s) : d.position # n
    BY <1>4, <1>11 DEF DeliveriesOf
  <2> QED
    BY <1>5, <1>16, <1>17, <2>1
<1>20. \A d \in deliveries' : HasEvidence(d)'
  BY <1>3, <1>13, <1>14
<1> SUFFICES ASSUME NEW x \in Streams
             PROVE  /\ {d.position : d \in DeliveriesOf(x)'} = 1..Cursor(x)'
                    /\ \A d, f \in DeliveriesOf(x)' : d.position = f.position => d = f
                    /\ \A d \in DeliveriesOf(x)' : HasEvidence(d)'
  BY DEF StreamsAreContiguous
<1>21. \A d \in DeliveriesOf(x)' : HasEvidence(d)'
  BY <1>20 DEF DeliveriesOf
<1>22. CASE x = s
  BY <1>8, <1>18, <1>19, <1>21, <1>22
<1>23. CASE x # s
  BY <1>9, <1>15, <1>21, <1>23 DEF StreamsAreContiguous
<1> QED
  BY <1>22, <1>23

LEMMA StreamsNext ==
    ASSUME TypeOK, WorkTypeOK, StreamsAreContiguous, InboxIsBacked', [Next]_vars
    PROVE  StreamsAreContiguous'
<1>1. /\ history \subseteq history' /\ batches \subseteq batches' /\ inbox \subseteq inbox'
  BY TablesGrow
<1>2. ASSUME streams' = streams, deliveries' = deliveries
      PROVE  StreamsAreContiguous'
  <2>1. \A d \in deliveries : HasEvidence(d)'
    <3>1. TAKE d \in deliveries
    <3>2. d.stream \in Streams
      BY DEF TypeOK, Delivery
    <3>3. HasEvidence(d)
      BY <3>2 DEF StreamsAreContiguous, DeliveriesOf
    <3> QED
      BY <1>1, <1>2, <3>3, EvidenceStays
  <2> QED
    BY <1>2, <2>1 DEF StreamsAreContiguous, DeliveriesOf, Cursor
<1>3. CASE Quiet
  BY <1>2, <1>3 DEF Quiet
<1>4. ASSUME NEW p \in Processes, Transaction(p)
      PROVE  StreamsAreContiguous'
  <2>1. work[p] \in Work /\ Commit(work[p], Outcome(work[p]))
    BY <1>4 DEF Transaction, At, WorkTypeOK
  <2>2. CASE StoresDelivery(work[p])
    BY <1>1, <2>1, <2>2, StreamWritten
  <2>3. CASE ~StoresDelivery(work[p])
    BY <1>2, <2>1, <2>3, CommitCases
  <2> QED
    BY <2>2, <2>3
<1> QED
  BY <1>3, <1>4, StepShape

\* A report that is persisted or replayed leaves its delivery stored.
LEMMA AcksNext ==
    ASSUME WorkTypeOK, AcksAreStored, [Next]_vars
    PROVE  AcksAreStored'
<1>1. deliveries \subseteq deliveries'
  BY TablesGrow
<1> SUFFICES ASSUME NEW a \in published'
             PROVE  \E d \in deliveries' : /\ d.stream = a.stream /\ d.position = a.position
                                           /\ d.content = a.content
  BY DEF AcksAreStored
<1>2. CASE a \in published
  BY <1>1, <1>2 DEF AcksAreStored
<1>3. CASE a \notin published
  <2>1. PICK p \in Processes : Transaction(p)
    BY <1>3, StepShape DEF Quiet
  <2> DEFINE w == work[p]
             m == w.message
  <2>2. w \in Work /\ m \in Messages
    BY <2>1 DEF Transaction, At, WorkTypeOK, Work
  <2>3. /\ a = Ack(m) /\ m.delivery # None
        /\ Outcome(w) \in {"persisted", "replayed"}
    BY <1>3, <2>1 DEF Transaction, Publishes
  <2>4. /\ a.stream = m.delivery.stream /\ a.position = m.delivery.position
        /\ a.content = m.content
    BY <2>3 DEF Ack
  <2>5. CASE PrepareDelivery(m) = "new"
    <3>1. WriteDelivery(m)
      BY <2>1, <2>3, <2>5, CommitCases DEF Transaction, StoresDelivery
    <3> DEFINE d == [stream |-> m.delivery.stream, position |-> m.delivery.position,
                     content |-> m.content, sent |-> KeptTime(m)]
    <3>2. d \in deliveries'
      BY <3>1 DEF WriteDelivery
    <3>3. d.stream = a.stream /\ d.position = a.position /\ d.content = a.content
      BY <2>4
    <3> HIDE DEF d
    <3> QED
      BY <3>2, <3>3
  <2>6. CASE PrepareDelivery(m) # "new"
    <3>1. PrepareDelivery(m) = "replay"
      BY <2>2, <2>3, <2>6, PersistedShape, ReplayedShape
    <3> QED
      BY <1>1, <2>2, <2>3, <2>4, <3>1, StoredDelivery
  <2> QED
    BY <2>5, <2>6
<1> QED
  BY <1>2, <1>3

\* Up to what is acknowledged, a stream has no hole.
LEMMA AcksAreApplied ==
    ASSUME TypeOK, StreamsAreContiguous, AcksAreStored
    PROVE  AcknowledgedIsApplied
<1> SUFFICES ASSUME NEW a \in published, NEW n \in 1..a.position
             PROVE  \E d \in DeliveriesOf(a.stream) :
                      /\ d.position = n
                      /\ n = a.position => d.content = a.content
                      /\ HasEvidence(d)
  BY DEF AcknowledgedIsApplied
<1>1. PICK e \in deliveries : /\ e.stream = a.stream /\ e.position = a.position
                              /\ e.content = a.content
  BY DEF AcksAreStored
<1>2. e.stream \in Streams /\ e.position \in Nat
  BY ProjectionAssumption DEF TypeOK, Delivery, Positions
<1>3. /\ {d.position : d \in DeliveriesOf(a.stream)} = 1..Cursor(a.stream)
      /\ \A d \in DeliveriesOf(a.stream) : HasEvidence(d)
      /\ e \in DeliveriesOf(a.stream)
  BY <1>1, <1>2 DEF StreamsAreContiguous, DeliveriesOf
<1>4. CASE n = a.position
  BY <1>1, <1>3, <1>4
<1>5. CASE n # a.position
  <2>1. n \in 1..Cursor(a.stream)
    BY <1>1, <1>2, <1>3, CursorIsNat
  <2> QED
    BY <1>3, <1>5, <2>1
<1> QED
  BY <1>4, <1>5

----------------------------------------------------------------------------
(* The projection is the sum of its receipts.                              *)

\* ProjectionIsSum of one Integration: its receipts, the row, the receipt of
\* the topology, those after it, and those of them that saw a point.
Numbered(R, n) ==
    /\ {r.revision : r \in R} = 1..n
    /\ \A r, q \in R : r.revision = q.revision => r = q
Since(R, top) == {r \in R : r.revision > top.revision}
Seen(S, t) == {r \in S : t \in DOMAIN MessageOf(r).seen}
IsLatest(S, t, latest) ==
    \E r \in Seen(S, t) :
        /\ latest = [at |-> MessageOf(r).seen[t], batch |-> MessageOf(r).batch]
        /\ \A q \in Seen(S, t) \ {r} :
              IF q.revision > r.revision THEN MessageOf(q).seen[t] < MessageOf(r).seen[t]
              ELSE MessageOf(q).seen[t] <= MessageOf(r).seen[t]
IsSum(row, R, top) ==
    /\ top.kind = "topology" /\ top.content = row.content
    /\ top.generation = row.generation
    /\ \A r \in Since(R, top) : r.kind = "observations" /\ r.generation = top.generation
    /\ \A r \in R \ (Since(R, top) \cup {top}) : r.generation < top.generation
    /\ DOMAIN row.latest = {t \in Points : Seen(Since(R, top), t) # {}}
    /\ DOMAIN row.latest \subseteq row.points
    /\ \A t \in DOMAIN row.latest : IsLatest(Since(R, top), t, row.latest[t])

SumsUp(i) ==
    /\ Numbered(ReceiptsOf(i), Revision(i))
    /\ current[i] # None => \E top \in ReceiptsOf(i) : IsSum(current[i], ReceiptsOf(i), top)

LEMMA EachSumsUp == ProjectionIsSum <=> \A i \in Integrations : SumsUp(i)
  BY DEF ProjectionIsSum, SumsUp, Numbered, IsSum, Since, Seen, IsLatest

\* The report of a receipt is the one that was sent, as far as its digest tells.
LEMMA ReportOfReceipt ==
    ASSUME NEW r, NEW m \in Messages,
           m.content = r.content, m.integration = r.integration, m.kind = "observations"
    PROVE  /\ MessageOf(r) \in Messages
           /\ MessageOf(r).kind = "observations"
           /\ MessageOf(r).seen = m.seen /\ MessageOf(r).batch = m.batch
           /\ \A t \in DOMAIN m.seen : m.seen[t] \in Nat
<1>1. /\ MessageOf(r) \in Messages
      /\ MessageOf(r).content = r.content /\ MessageOf(r).integration = r.integration
  BY DEF MessageOf
<1>2. SamePayload(MessageOf(r), m)
  BY <1>1, DigestAssumption
<1> QED
  BY <1>1, <1>2, MessageFields, TimesAreNat DEF SamePayload

\* One more receipt takes the next revision.
LEMMA NumberedNext ==
    ASSUME NEW R, NEW n \in Nat, Numbered(R, n), NEW x, x.revision = n + 1
    PROVE  /\ Numbered(R \cup {x}, n + 1)
           /\ \A r \in R : r.revision \in Nat /\ r.revision < x.revision
<1>1. \A r \in R : r.revision \in 1..n
  BY DEF Numbered
<1>2. {r.revision : r \in R \cup {x}} = 1..(n + 1)
  <2>1. {r.revision : r \in R \cup {x}} = {r.revision : r \in R} \cup {n + 1}
    OBVIOUS
  <2> QED
    BY <2>1 DEF Numbered
<1>3. ASSUME NEW r \in R \cup {x}, NEW q \in R \cup {x}, r.revision = q.revision
      PROVE  r = q
  <2>1. CASE r \in R /\ q \in R
    BY <1>3, <2>1 DEF Numbered
  <2>2. CASE r = x /\ q = x
    BY <2>2
  <2>3. CASE r \in R /\ q = x
    BY <1>1, <1>3, <2>3
  <2>4. CASE r = x /\ q \in R
    BY <1>1, <1>3, <2>4
  <2> QED
    BY <2>1, <2>2, <2>3, <2>4
<1> QED
  BY <1>1, <1>2, <1>3 DEF Numbered

\* A newer topology starts anew.
LEMMA SumOfTopology ==
    ASSUME NEW R, NEW n \in Nat, Numbered(R, n), NEW x, x.revision = n + 1,
           x.kind = "topology", NEW row, row.content = x.content,
           row.generation = x.generation, row.latest = <<>>,
           \A r \in R : r.generation < x.generation
    PROVE  IsSum(row, R \cup {x}, x)
<1>1. Since(R \cup {x}, x) = {}
  <2>1. \A r \in R : r.revision \in Nat /\ r.revision < x.revision
    BY NumberedNext
  <2>2. \A r \in R \cup {x} : ~(r.revision > x.revision)
    BY <2>1
  <2> QED
    BY <2>2 DEF Since
<1>2. \A t \in Points : Seen(Since(R \cup {x}, x), t) = {}
  BY <1>1 DEF Seen
<1>3. DOMAIN row.latest = {}
  BY NoLatest
<1> QED
  BY <1>1, <1>2, <1>3 DEF IsSum

\* A batch is merged, point by point.
LEMMA LatestOfBatch ==
    ASSUME NEW S, NEW x, x \notin S, NEW t, NEW latest, NEW merged,
           NEW m, MessageOf(x).seen = m.seen, MessageOf(x).batch = m.batch,
           \A u \in DOMAIN m.seen : m.seen[u] \in Nat,
           x.revision \in Nat,
           \A r \in S : /\ r.revision \in Nat /\ r.revision < x.revision
                        /\ \A u \in DOMAIN MessageOf(r).seen : MessageOf(r).seen[u] \in Nat,
           Seen(S, t) # {} => IsLatest(S, t, latest),
           t \in DOMAIN m.seen \/ Seen(S, t) # {},
           merged = IF t \in DOMAIN m.seen /\ (Seen(S, t) # {} => m.seen[t] >= latest.at)
                    THEN [at |-> m.seen[t], batch |-> m.batch] ELSE latest
    PROVE  IsLatest(S \cup {x}, t, merged)
<1>1. Seen(S \cup {x}, t) = Seen(S, t) \cup (IF t \in DOMAIN m.seen THEN {x} ELSE {})
  BY DEF Seen
<1>2. Seen(S, t) \subseteq S
  BY DEF Seen
<1>3. \A q \in Seen(S, t) : MessageOf(q).seen[t] \in Nat
  BY DEF Seen
<1>4. CASE Seen(S, t) = {}
  BY <1>1, <1>4 DEF IsLatest
<1>5. CASE Seen(S, t) # {}
  <2>1. PICK r \in Seen(S, t) :
          /\ latest = [at |-> MessageOf(r).seen[t], batch |-> MessageOf(r).batch]
          /\ \A q \in Seen(S, t) \ {r} :
                IF q.revision > r.revision THEN MessageOf(q).seen[t] < MessageOf(r).seen[t]
                ELSE MessageOf(q).seen[t] <= MessageOf(r).seen[t]
    BY <1>5 DEF IsLatest
  <2>2. latest.at = MessageOf(r).seen[t] /\ latest.at \in Nat
    BY <1>3, <2>1
  <2>3. \A q \in Seen(S, t) : MessageOf(q).seen[t] <= latest.at
    BY <1>3, <2>1, <2>2
  <2>4. CASE t \notin DOMAIN m.seen
    BY <1>1, <2>1, <2>4 DEF IsLatest
  <2>5. CASE t \in DOMAIN m.seen /\ m.seen[t] >= latest.at
    <3>1. merged = [at |-> MessageOf(x).seen[t], batch |-> MessageOf(x).batch]
      BY <2>5
    <3>2. x \in Seen(S \cup {x}, t)
      BY <1>1, <2>5
    <3>3. ASSUME NEW q \in Seen(S \cup {x}, t) \ {x}
          PROVE  /\ ~(q.revision > x.revision)
                 /\ MessageOf(q).seen[t] <= MessageOf(x).seen[t]
      <4>1. q \in Seen(S, t)
        BY <1>1, <3>3
      <4>2. MessageOf(q).seen[t] \in Nat /\ MessageOf(q).seen[t] <= latest.at /\ m.seen[t] \in Nat
        BY <1>3, <2>3, <2>5, <4>1
      <4> QED
        BY <1>2, <2>2, <2>5, <4>1, <4>2
    <3> QED
      BY <3>1, <3>2, <3>3 DEF IsLatest
  <2>6. CASE t \in DOMAIN m.seen /\ ~(m.seen[t] >= latest.at)
    <3>1. merged = latest
      BY <1>5, <2>6
    <3>2. MessageOf(x).seen[t] < MessageOf(r).seen[t]
      BY <2>2, <2>6
    <3>3. r \in Seen(S \cup {x}, t) /\ x.revision > r.revision
      BY <1>1, <1>2, <2>1
    <3>4. ASSUME NEW q \in Seen(S \cup {x}, t) \ {r}
          PROVE  IF q.revision > r.revision THEN MessageOf(q).seen[t] < MessageOf(r).seen[t]
                 ELSE MessageOf(q).seen[t] <= MessageOf(r).seen[t]
      <4>1. CASE q = x
        BY <3>2, <3>3, <4>1
      <4>2. CASE q # x
        <5>1. q \in Seen(S, t) \ {r}
          BY <1>1, <3>4, <4>2
        <5> QED
          BY <2>1, <5>1
      <4> QED
        BY <4>1, <4>2
    <3> QED
      BY <2>1, <3>1, <3>3, <3>4 DEF IsLatest
  <2> QED
    BY <2>4, <2>5, <2>6
<1> QED
  BY <1>4, <1>5

\* A batch adds to the sum what it saw.
LEMMA SumOfBatch ==
    ASSUME NEW R, NEW n \in Nat, Numbered(R, n), NEW top \in R, NEW old, IsSum(old, R, top),
           old.latest \in Latest,
           \A r \in R : r.kind = "observations" =>
              \A u \in DOMAIN MessageOf(r).seen : MessageOf(r).seen[u] \in Nat,
           NEW m \in Messages, m.kind = "observations", DOMAIN m.seen \subseteq old.points,
           NEW x, x.revision = n + 1, x.kind = "observations", x.generation = old.generation,
           MessageOf(x).seen = m.seen, MessageOf(x).batch = m.batch,
           NEW row, row.content = old.content, row.generation = old.generation,
           row.points = old.points, row.latest = MergeLatest(old.latest, m)
    PROVE  IsSum(row, R \cup {x}, top)
<1> DEFINE S == Since(R, top)
<1>1. \A r \in R : r.revision \in Nat /\ r.revision < x.revision
  BY NumberedNext
<1>2. Since(R \cup {x}, top) = S \cup {x}
  BY <1>1 DEF Since
<1>3. S \subseteq R /\ x \notin S /\ x \notin R
  BY <1>1 DEF Since
<1>4. \A t \in DOMAIN m.seen : m.seen[t] \in Nat /\ t \in Points
  BY MessageFields, TimesAreNat
<1>5. \A r \in S : r.kind = "observations"
  BY DEF IsSum
<1>6. /\ DOMAIN row.latest = DOMAIN old.latest \cup DOMAIN m.seen
      /\ \A t \in DOMAIN row.latest :
           row.latest[t] = IF t \in DOMAIN m.seen
                              /\ (t \in DOMAIN old.latest => m.seen[t] >= old.latest[t].at)
                           THEN [at |-> m.seen[t], batch |-> m.batch] ELSE old.latest[t]
  BY MergePoints
<1>7. /\ DOMAIN old.latest = {t \in Points : Seen(S, t) # {}}
      /\ \A t \in DOMAIN old.latest : IsLatest(S, t, old.latest[t])
  BY DEF IsSum
<1> HIDE DEF S
<1>8. DOMAIN row.latest = {t \in Points : Seen(S \cup {x}, t) # {}}
  <2>1. \A t \in Points : Seen(S \cup {x}, t) = Seen(S, t) \cup (IF t \in DOMAIN m.seen THEN {x} ELSE {})
    BY DEF Seen
  <2> QED
    BY <1>4, <1>6, <1>7, <2>1
<1>9. \A t \in DOMAIN row.latest : IsLatest(S \cup {x}, t, row.latest[t])
  <2>1. TAKE t \in DOMAIN row.latest
  <2>2. t \in DOMAIN old.latest <=> Seen(S, t) # {}
    BY <1>4, <1>6, <1>7
  <2>3. t \in DOMAIN m.seen \/ Seen(S, t) # {}
    BY <1>6, <2>2
  <2>4. row.latest[t] = IF t \in DOMAIN m.seen /\ (Seen(S, t) # {} => m.seen[t] >= old.latest[t].at)
                        THEN [at |-> m.seen[t], batch |-> m.batch] ELSE old.latest[t]
    BY <1>6, <2>2
  <2>5. Seen(S, t) # {} => IsLatest(S, t, old.latest[t])
    BY <1>7, <2>2
  <2>6. \A r \in S : /\ r.revision \in Nat /\ r.revision < x.revision
                     /\ \A u \in DOMAIN MessageOf(r).seen : MessageOf(r).seen[u] \in Nat
    BY <1>1, <1>3, <1>5
  <2>7. x.revision \in Nat /\ \A u \in DOMAIN m.seen : m.seen[u] \in Nat
    BY <1>4
  <2> QED
    BY <1>3, <2>3, <2>4, <2>5, <2>6, <2>7, LatestOfBatch
<1>10. /\ top.kind = "topology" /\ top.content = row.content /\ top.generation = row.generation
       /\ \A r \in S \cup {x} : r.kind = "observations" /\ r.generation = top.generation
       /\ \A r \in (R \cup {x}) \ ((S \cup {x}) \cup {top}) : r.generation < top.generation
  BY DEF IsSum, S
<1>11. DOMAIN row.latest \subseteq row.points
  BY <1>6 DEF IsSum
<1> QED
  BY <1>2, <1>8, <1>9, <1>10, <1>11 DEF IsSum

\* The receipts of an Integration.
LEMMA ReceiptsWritten ==
    ASSUME NEW m \in Messages, NEW credential, WriteProjection(m, credential),
           NEW x, x = NewReceipt(m, credential), NEW i
    PROVE  /\ i = m.integration => ReceiptsOf(i)' = ReceiptsOf(i) \cup {x}
           /\ i # m.integration => ReceiptsOf(i)' = ReceiptsOf(i)
<1>1. x.integration = m.integration
  BY DEF NewReceipt
<1>2. inbox' = inbox \cup {x}
  BY DEF WriteProjection
<1> QED
  BY <1>1, <1>2 DEF ReceiptsOf

\* A persisted batch fits the topology it meets.
LEMMA BatchFitsCurrent ==
    ASSUME HistoryIsCurrent, NEW i \in Integrations, current[i] # None, NEW m, Fits(m),
           m.integration = i, m.generation = current[i].generation
    PROVE  DOMAIN m.seen \subseteq current[i].points
<1>1. PICK t \in history : /\ t.integration = i /\ t.generation = m.generation
                           /\ DOMAIN m.seen \subseteq t.points
  BY DEF Fits
<1>2. PICK u \in history : /\ u.integration = i /\ u.generation = current[i].generation
                           /\ u.points = current[i].points
  BY DEF HistoryIsCurrent
<1>3. t.points = u.points
  BY <1>1, <1>2 DEF HistoryIsCurrent
<1> QED
  BY <1>1, <1>2, <1>3

LEMMA RevisionIsNat ==
    ASSUME TypeOK, NEW i \in Integrations
    PROVE  Revision(i) \in Nat
  BY DEF Revision, TypeOK, Projection

\* A persisted report adds its receipt to the sum.
LEMMA SumWritten ==
    ASSUME TypeOK, InboxIsBacked, HistoryIsCurrent, NEW w \in Work, NEW m, m = w.message,
           Persists(w), m.kind = "observations" => Fits(m),
           WriteProjection(m, w.credential), SumsUp(m.integration)
    PROVE  SumsUp(m.integration)'
<1> DEFINE i == m.integration
           old == current[i]
<1>1. m \in Messages /\ i \in Integrations /\ m.generation \in Nat /\ m.kind \in Kinds
  BY MessageFields DEF Work
<1>2. PICK R, n : R = ReceiptsOf(i) /\ n = Revision(i)
  OBVIOUS
<1>3. n \in Nat /\ Numbered(R, n)
  BY <1>1, <1>2, RevisionIsNat DEF SumsUp
<1>4. PICK x : x = NewReceipt(m, w.credential)
  OBVIOUS
<1>5. /\ x.revision = n + 1 /\ x.kind = m.kind /\ x.generation = m.generation
      /\ x.content = m.content /\ x.integration = i
  BY <1>2, <1>4 DEF NewReceipt
<1>6. PICK row : row = NewRow(m)
  OBVIOUS
<1>7. current'[i] = row
  BY <1>1, <1>6 DEF WriteProjection, TypeOK
<1>8. ReceiptsOf(i)' = R \cup {x}
  BY <1>1, <1>2, <1>4, ReceiptsWritten
<1>9. Numbered(R \cup {x}, n + 1)
  BY <1>3, <1>5, NumberedNext
<1>10. \A r \in R : WasSent(r) /\ r.integration = i /\ r.generation \in Nat
  BY <1>2, ProjectionAssumption DEF ReceiptsOf, InboxIsBacked, TypeOK, Receipt
<1>11. CASE m.kind = "topology"
  <2>1. /\ row \in Projection /\ row.generation = m.generation /\ row.content = m.content
        /\ row.latest = <<>> /\ row.revision = n + 1
    BY <1>1, <1>2, <1>6, <1>11, TopologyRow
  <2>2. \A r \in R : r.generation < m.generation
    <3>1. CASE old = None
      <4>1. n = 0
        BY <1>2, <3>1 DEF Revision
      <4>2. \A r \in R : r.revision \in 1..0
        BY <1>3, <4>1 DEF Numbered
      <4> QED
        BY <4>2
    <3>2. CASE old # None
      <4>1. PICK top \in R : IsSum(old, R, top)
        BY <1>2, <3>2 DEF SumsUp
      <4>2. \A r \in R : r.generation <= top.generation
        <5>1. TAKE r \in R
        <5>2. r.generation \in Nat /\ top.generation \in Nat
          BY <1>10
        <5>3. r.generation < top.generation \/ r.generation = top.generation
          BY <4>1 DEF IsSum
        <5> QED
          BY <5>2, <5>3
      <4>3. top.generation = old.generation /\ m.generation > old.generation
        BY <1>11, <3>2, <4>1, NewerTopology DEF IsSum
      <4>4. TAKE r \in R
      <4>5. r.generation \in Nat /\ top.generation \in Nat
        BY <1>10
      <4> QED
        BY <1>1, <4>2, <4>3, <4>5
    <3> QED
      BY <3>1, <3>2
  <2>3. IsSum(row, R \cup {x}, x)
    BY <1>3, <1>5, <1>11, <2>1, <2>2, SumOfTopology
  <2>4. Revision(i)' = n + 1
    BY <1>7, <2>1, NoneIsNoRow DEF Revision
  <2> QED
    BY <1>7, <1>8, <1>9, <2>3, <2>4 DEF SumsUp
<1>12. CASE m.kind = "observations"
  <2>1. old # None /\ old.generation = m.generation
    BY <1>1, <1>12, PersistedShape DEF Persists
  <2>2. /\ row \in Projection
        /\ row.generation = old.generation /\ row.content = old.content
        /\ row.points = old.points
        /\ row.latest = MergeLatest(old.latest, m)
        /\ row.revision = n + 1
    BY <1>1, <1>2, <1>6, <1>12, <2>1, BatchRow DEF Revision
  <2>3. PICK top \in R : IsSum(old, R, top)
    BY <1>2, <2>1 DEF SumsUp
  <2>4. DOMAIN m.seen \subseteq old.points
    BY <1>1, <1>12, <2>1, BatchFitsCurrent
  <2>5. /\ MessageOf(x).seen = m.seen /\ MessageOf(x).batch = m.batch
    BY <1>1, <1>5, <1>12, ReportOfReceipt
  <2>6. ASSUME NEW r \in R, r.kind = "observations"
        PROVE  \A u \in DOMAIN MessageOf(r).seen : MessageOf(r).seen[u] \in Nat
    <3>1. PICK k \in Messages : k.content = r.content /\ k.integration = r.integration /\ k.kind = r.kind
      BY <1>10 DEF WasSent
    <3> QED
      BY <2>6, <3>1, ReportOfReceipt
  <2>7. old.latest \in Latest
    BY <1>1, <2>1 DEF TypeOK, Projection, Latest
  <2>8. PICK o : o = old
    OBVIOUS
  <2>9. IsSum(row, R \cup {x}, top)
    BY <1>1, <1>3, <1>5, <1>12, <2>1, <2>2, <2>3, <2>4, <2>5, <2>6, <2>7, <2>8, SumOfBatch
  <2>10. Revision(i)' = n + 1
    BY <1>7, <2>2, NoneIsNoRow DEF Revision
  <2> QED
    BY <1>7, <1>8, <1>9, <2>3, <2>9, <2>10 DEF SumsUp
<1> QED
  BY <1>1, <1>11, <1>12 DEF Kinds

LEMMA SumsNext ==
    ASSUME TypeOK, WorkTypeOK, BatchesFit, InboxIsBacked, HistoryIsCurrent, ProjectionIsSum,
           [Next]_vars
    PROVE  ProjectionIsSum'
<1> SUFFICES ASSUME NEW i \in Integrations PROVE SumsUp(i)'
  BY DEF ProjectionIsSum, SumsUp, Numbered, IsSum, Since, Seen, IsLatest
<1>1. SumsUp(i)
  BY EachSumsUp
<1>2. ASSUME current'[i] = current[i], ReceiptsOf(i)' = ReceiptsOf(i)
      PROVE  SumsUp(i)'
  BY <1>1, <1>2 DEF SumsUp, Revision
<1>3. CASE Quiet
  BY <1>2, <1>3 DEF Quiet, ReceiptsOf
<1>4. ASSUME NEW p \in Processes, Transaction(p)
      PROVE  SumsUp(i)'
  <2> DEFINE w == work[p]
             m == w.message
  <2>1. w \in Work /\ m \in Messages
    BY <1>4 DEF Transaction, At, WorkTypeOK, Work
  <2>2. CASE Persists(w)
    <3>1. WriteProjection(m, w.credential)
      BY <1>4, <2>2, CommitCases DEF Transaction
    <3>2. CASE i = m.integration
      <4>1. m.kind = "observations" => Fits(m)
        BY <1>4 DEF Transaction, BatchesFit
      <4> QED
        BY <1>1, <2>1, <2>2, <3>1, <3>2, <4>1, SumWritten
    <3>3. CASE i # m.integration
      <4>1. current'[i] = current[i]
        BY <3>1, <3>3 DEF WriteProjection, TypeOK
      <4>2. ReceiptsOf(i)' = ReceiptsOf(i)
        BY <2>1, <3>1, <3>3, ReceiptsWritten
      <4> QED
        BY <1>2, <4>1, <4>2
    <3> QED
      BY <3>2, <3>3
  <2>3. CASE ~Persists(w)
    BY <1>2, <1>4, <2>3, CommitCases DEF Transaction, ReceiptsOf
  <2> QED
    BY <2>2, <2>3
<1> QED
  BY <1>3, <1>4, StepShape

----------------------------------------------------------------------------
(* The theorems.                                                           *)

\* Empty tables satisfy the invariant.
LEMMA InvInit == ASSUME Init PROVE IInv
<1>1. BatchesFit
  BY DEF Init, BatchesFit, At
<1>2. InboxIsBacked /\ HistoryIsCurrent
  BY DEF Init, InboxIsBacked, HistoryIsCurrent
<1>3. StreamsAreContiguous
  <2> SUFFICES ASSUME NEW s \in Streams
               PROVE  /\ {d.position : d \in DeliveriesOf(s)} = 1..Cursor(s)
                      /\ \A d, e \in DeliveriesOf(s) : d.position = e.position => d = e
                      /\ \A d \in DeliveriesOf(s) : HasEvidence(d)
    BY DEF StreamsAreContiguous
  <2>1. DeliveriesOf(s) = {} /\ Cursor(s) = 0
    BY DEF Init, DeliveriesOf, Cursor
  <2> QED
    BY <2>1
<1>4. AcksAreStored
  BY DEF Init, AcksAreStored
<1>5. ProjectionIsSum
  <2> SUFFICES ASSUME NEW i \in Integrations PROVE SumsUp(i)
    BY EachSumsUp
  <2>1. ReceiptsOf(i) = {} /\ current[i] = None /\ Revision(i) = 0
    BY DEF Init, ReceiptsOf, Revision
  <2>2. Numbered(ReceiptsOf(i), 0)
    BY <2>1 DEF Numbered
  <2> QED
    BY <2>1, <2>2 DEF SumsUp
<1> QED
  BY <1>1, <1>2, <1>3, <1>4, <1>5 DEF IInv

\* Every step keeps it.
LEMMA InvNext ==
    ASSUME TypeOK, WorkTypeOK, IInv, [Next]_vars
    PROVE  IInv'
<1> USE DEF IInv
<1>1. BatchesFit'
  BY FitsNext
<1>2. InboxIsBacked'
  BY BackedNext
<1>3. HistoryIsCurrent'
  BY HistoryNext
<1>4. StreamsAreContiguous'
  BY <1>2, StreamsNext
<1>5. AcksAreStored'
  BY AcksNext
<1>6. ProjectionIsSum'
  BY SumsNext
<1> QED
  BY <1>1, <1>2, <1>3, <1>4, <1>5, <1>6

\* The inductive invariant.
THEOREM ProjectionInvariant == Spec => [](TypeOK /\ WorkTypeOK /\ IInv)
<1>1. ASSUME Init PROVE TypeOK /\ WorkTypeOK /\ IInv
  BY <1>1, TypeInit, InvInit
<1>2. ASSUME TypeOK /\ WorkTypeOK /\ IInv, [Next]_vars PROVE (TypeOK /\ WorkTypeOK /\ IInv)'
  BY <1>2, TypeNext, InvNext
<1> QED
  BY <1>1, <1>2, PTL DEF Spec

\* A stream has no hole: the positions up to its cursor are stored, once, each
\* with the evidence it is replayed from.
THEOREM StreamsStayContiguous == Spec => []StreamsAreContiguous
  BY ProjectionInvariant, PTL DEF IInv

\* Up to the position that a bridge has acknowledged, every report is applied.
THEOREM AcknowledgedStaysApplied == Spec => []AcknowledgedIsApplied
<1>1. ASSUME TypeOK, WorkTypeOK, IInv PROVE AcknowledgedIsApplied
  BY <1>1, AcksAreApplied DEF IInv
<1> QED
  BY <1>1, ProjectionInvariant, PTL

\* The projection of an Integration is what its receipts add up to, whichever
\* batches and topologies came in between reading and persisting.
THEOREM ProjectionStaysSum == Spec => []ProjectionIsSum
  BY ProjectionInvariant, PTL DEF IInv

\* What NeverBackwards says of the row of an Integration, and of a stream.
RowAdvances(old, new) ==
    /\ new # None
    /\ new.kind = old.kind
    /\ new.revision >= old.revision
    /\ \/ new.generation > old.generation
       \/ /\ new.generation = old.generation
          /\ new.content = old.content
          /\ \A t \in DOMAIN old.latest :
                t \in DOMAIN new.latest /\ new.latest[t].at >= old.latest[t].at
StreamAdvances(old, new) ==
    /\ new # None
    /\ new.integration = old.integration
    /\ new.kind = old.kind
    /\ new.cursor >= old.cursor

LEMMA RowStays ==
    ASSUME NEW row \in Projection
    PROVE  RowAdvances(row, row)
<1>1. row # None /\ row.revision \in Nat /\ row.latest \in Latest
  BY NoneIsNoRow DEF Projection, Latest
<1>2. \A t \in DOMAIN row.latest : row.latest[t].at \in Nat
  BY <1>1, LatestIsObservation, TimesAreNat
<1> QED
  BY <1>1, <1>2 DEF RowAdvances

\* The row that a persisted report leaves is not behind the one it replaces.
LEMMA RowWritten ==
    ASSUME TypeOK, NEW w \in Work, NEW m, m = w.message, Persists(w),
           NEW old, old = current[m.integration], old # None, NEW row, row = NewRow(m)
    PROVE  RowAdvances(old, row)
<1>1. m \in Messages /\ m.integration \in Integrations /\ m.kind \in Kinds
  BY MessageFields DEF Work
<1>2. old \in Projection /\ old.revision \in Nat /\ Revision(m.integration) = old.revision
  BY <1>1 DEF TypeOK, Projection, Revision
<1>3. CASE m.kind = "topology"
  <2>1. /\ row \in Projection /\ row.generation = m.generation /\ row.kind = m.integrationKind
        /\ row.revision = old.revision + 1
    BY <1>1, <1>2, <1>3, TopologyRow
  <2>2. row # None
    BY <2>1, NoneIsNoRow
  <2>3. old.kind = m.integrationKind
    BY <1>1, <1>3, PersistedShape DEF Persists
  <2>4. m.generation > old.generation
    BY <1>3, NewerTopology
  <2> QED
    BY <1>2, <2>1, <2>2, <2>3, <2>4 DEF RowAdvances
<1>4. CASE m.kind = "observations"
  <2>1. /\ row \in Projection /\ row.generation = old.generation /\ row.kind = old.kind
        /\ row.content = old.content /\ row.latest = MergeLatest(old.latest, m)
        /\ row.revision = old.revision + 1
    BY <1>1, <1>4, BatchRow
  <2>2. row # None
    BY <2>1, NoneIsNoRow
  <2>3. old.latest \in Latest
    BY <1>2 DEF Projection, Latest
  <2>4. PICK late, next : late = old.latest /\ next = row.latest
    OBVIOUS
  <2>5. /\ DOMAIN next = DOMAIN late \cup DOMAIN m.seen
        /\ \A t \in DOMAIN next :
             next[t] = IF t \in DOMAIN m.seen /\ (t \in DOMAIN late => m.seen[t] >= late[t].at)
                       THEN [at |-> m.seen[t], batch |-> m.batch] ELSE late[t]
    BY <1>1, <1>4, <2>1, <2>3, <2>4, MergePoints
  <2>6. \A t \in DOMAIN late : late[t].at \in Nat
    BY <2>3, <2>4, LatestIsObservation, TimesAreNat
  <2>7. ASSUME NEW t \in DOMAIN late
        PROVE  t \in DOMAIN next /\ next[t].at >= late[t].at
    <3>1. /\ t \in DOMAIN next /\ late[t].at \in Nat
          /\ next[t] = IF t \in DOMAIN m.seen /\ m.seen[t] >= late[t].at
                       THEN [at |-> m.seen[t], batch |-> m.batch] ELSE late[t]
      BY <2>5, <2>6, <2>7
    <3>2. CASE t \in DOMAIN m.seen /\ m.seen[t] >= late[t].at
      <4>1. next[t].at = m.seen[t]
        BY <3>1, <3>2
      <4> QED
        BY <3>1, <3>2, <4>1
    <3>3. CASE ~(t \in DOMAIN m.seen /\ m.seen[t] >= late[t].at)
      BY <3>1, <3>3
    <3> QED
      BY <3>2, <3>3
  <2> QED
    BY <1>2, <2>1, <2>2, <2>4, <2>7 DEF RowAdvances
<1> QED
  BY <1>1, <1>3, <1>4 DEF Kinds

LEMMA StreamAdvancesNext ==
    ASSUME TypeOK, NEW m \in Messages, m.delivery # None, PrepareDelivery(m) = "new",
           WriteDelivery(m), NEW s \in Streams, streams[s] # None
    PROVE  StreamAdvances(streams[s], streams'[s])
<1>1. streams[s] \in Stream /\ streams[s].cursor \in Nat
  BY ProjectionAssumption DEF TypeOK, Stream, Positions
<1> DEFINE row == [integration |-> m.integration, kind |-> m.kind, cursor |-> m.delivery.position]
<1>2. streams' = [streams EXCEPT ![m.delivery.stream] = row]
  BY DEF WriteDelivery
<1>3. /\ row.integration = m.integration /\ row.kind = m.kind
      /\ row.cursor = m.delivery.position
  OBVIOUS
<1>4. row \in Stream /\ row # None
  <2>1. m.integration \in Integrations /\ m.kind \in Kinds /\ m.delivery.position \in Positions
    BY MessageFields
  <2> QED
    BY <2>1, NoneIsNoRow DEF Stream
<1> HIDE DEF row
<1>5. CASE s = m.delivery.stream
  <2>1. streams'[s] = row
    BY <1>2, <1>5 DEF TypeOK
  <2>2. row.integration = streams[s].integration /\ row.kind = streams[s].kind
    BY <1>3, <1>5, NextPosition DEF IsBoundElsewhere
  <2>3. row.cursor = streams[s].cursor + 1
    BY <1>3, <1>5, NextPosition, CursorIsNat
  <2> QED
    BY <1>1, <1>4, <2>1, <2>2, <2>3 DEF StreamAdvances
<1>6. CASE s # m.delivery.stream
  BY <1>1, <1>2, <1>6 DEF StreamAdvances, TypeOK
<1> QED
  BY <1>5, <1>6

LEMMA AdvancesNext ==
    ASSUME TypeOK, WorkTypeOK, [Next]_vars
    PROVE  /\ \A i \in Integrations : current[i] # None => RowAdvances(current[i], current'[i])
           /\ \A s \in Streams : streams[s] # None => StreamAdvances(streams[s], streams'[s])
<1>1. ASSUME NEW i \in Integrations, current[i] # None, current'[i] = current[i]
      PROVE  RowAdvances(current[i], current'[i])
  <2>1. current[i] \in Projection
    BY <1>1 DEF TypeOK
  <2> QED
    BY <1>1, <2>1, RowStays
<1>2. ASSUME NEW s \in Streams, streams[s] # None, streams' = streams
      PROVE  StreamAdvances(streams[s], streams'[s])
  <2>1. streams[s].cursor \in Nat
    BY <1>2, ProjectionAssumption DEF TypeOK, Stream, Positions
  <2> QED
    BY <1>2, <2>1 DEF StreamAdvances
<1>3. CASE Quiet
  BY <1>1, <1>2, <1>3 DEF Quiet
<1>4. ASSUME NEW p \in Processes, Transaction(p)
      PROVE  /\ \A i \in Integrations : current[i] # None => RowAdvances(current[i], current'[i])
             /\ \A s \in Streams : streams[s] # None => StreamAdvances(streams[s], streams'[s])
  <2> DEFINE w == work[p]
             m == w.message
  <2>1. w \in Work /\ m \in Messages
    BY <1>4 DEF Transaction, At, WorkTypeOK, Work
  <2>2. ASSUME NEW i \in Integrations, current[i] # None
        PROVE  RowAdvances(current[i], current'[i])
    <3>1. CASE Persists(w) /\ i = m.integration
      <4>1. current'[i] = NewRow(m)
        BY <1>4, <3>1, CommitCases DEF Transaction, WriteProjection, TypeOK
      <4> QED
        BY <2>1, <2>2, <3>1, <4>1, RowWritten
    <3>2. CASE Persists(w) /\ i # m.integration
      <4>1. current'[i] = current[i]
        BY <1>4, <3>2, CommitCases DEF Transaction, WriteProjection, TypeOK
      <4> QED
        BY <1>1, <2>2, <4>1
    <3>3. CASE ~Persists(w)
      BY <1>1, <1>4, <2>2, <3>3, CommitCases DEF Transaction
    <3> QED
      BY <3>1, <3>2, <3>3
  <2>3. ASSUME NEW s \in Streams, streams[s] # None
        PROVE  StreamAdvances(streams[s], streams'[s])
    <3>1. CASE StoresDelivery(w)
      <4>1. WriteDelivery(m)
        BY <1>4, <3>1, CommitCases DEF Transaction
      <4> QED
        BY <2>1, <2>3, <3>1, <4>1, StreamAdvancesNext DEF StoresDelivery
    <3>2. CASE ~StoresDelivery(w)
      BY <1>2, <1>4, <2>3, <3>2, CommitCases DEF Transaction
    <3> QED
      BY <3>1, <3>2
  <2> QED
    BY <2>2, <2>3
<1> QED
  BY <1>3, <1>4, StepShape

\* No report takes the projection back: not its generation, not an observation
\* of that generation, not the position of a stream.
THEOREM ProjectionNeverBackwards == Spec => NeverBackwards
<1> DEFINE Forward ==
      /\ \A i \in Integrations : current[i] # None =>
            /\ current'[i] # None
            /\ current'[i].kind = current[i].kind
            /\ current'[i].revision >= current[i].revision
            /\ \/ current'[i].generation > current[i].generation
               \/ /\ current'[i].generation = current[i].generation
                  /\ current'[i].content = current[i].content
                  /\ \A t \in DOMAIN current[i].latest :
                        /\ t \in DOMAIN current'[i].latest
                        /\ current'[i].latest[t].at >= current[i].latest[t].at
      /\ \A s \in Streams : streams[s] # None =>
            /\ streams'[s] # None
            /\ streams'[s].integration = streams[s].integration
            /\ streams'[s].kind = streams[s].kind
            /\ streams'[s].cursor >= streams[s].cursor
<1>1. ASSUME TypeOK /\ WorkTypeOK, [Next]_vars PROVE Forward
  BY <1>1, AdvancesNext DEF RowAdvances, StreamAdvances
<1>2. ASSUME TypeOK /\ WorkTypeOK, [Next]_vars PROVE [Forward]_vars
  BY <1>1, <1>2
<1>3. Spec => [][Forward]_vars
  <2> HIDE DEF Forward
  <2> QED
    BY <1>2, ProjectionTypeCorrect, PTL DEF Spec
<1> QED
  BY <1>3 DEF NeverBackwards
=============================================================================
