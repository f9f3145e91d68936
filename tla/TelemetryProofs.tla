--------------------------- MODULE TelemetryProofs ---------------------------
(***************************************************************************)
(* Theorems about TelemetryIngestion, for any set of deliveries, sessions, *)
(* persisters and workers and any window, quota and history: the cursor of *)
(* a stream never passes a record that is not stored, a bridge never       *)
(* acknowledges one, the quota counts what is stored, and receipts stand.  *)
(* That the cursor does not fall behind what is stored is proved of a      *)
(* stream that has a row, which is what the lock is taken on.              *)
(***************************************************************************)
EXTENDS TelemetryIngestion, FiniteSetTheorems, TLAPS

\* What a call carries is true of the stored records R, which only grow: up to
\* the position it read, up to where it measured, and up to what it answers.
Carries(call, R) ==
    /\ call.stage \in {"ranged", "measured"} /\ ~call.gap =>
         0..(call.delivery.first - 1) \subseteq R
    /\ call.stage = "measured" /\ ~call.gap =>
         /\ call.contiguous >= call.delivery.last
         /\ (call.delivery.last + 1)..call.contiguous \subseteq R
    /\ call.stage = "answer" /\ ~call.gap =>
         0..call.delivery.last \subseteq R

CallsCarryHistory == \A c \in Persisters : calls[c] # None => Carries(calls[c], Recorded)

ReceiptsCarryHistory ==
    \A p \in Positions : batches[p] # None /\ ~batches[p].gap =>
        0..batches[p].last \subseteq Recorded

\* A batch that is not of the history was delivered as it is stored.
BatchesWereDelivered ==
    \A p \in Positions : batches[p] # None /\ batches[p].digest # None =>
        \E e \in Deliveries : /\ e.first = p
                              /\ e.last = batches[p].last
                              /\ e.digest = batches[p].digest

IInv ==
    /\ CursorWithinHistory
    /\ ReceiptsCarryHistory
    /\ BatchesWereDelivered
    /\ CallsCarryHistory
    /\ AcknowledgedIsStored

----------------------------------------------------------------------------
(* Types.                                                                  *)

\* A delivery lies within the positions of the model.
LEMMA DeliveryRange ==
    ASSUME NEW d \in Deliveries
    PROVE  d.first \in Positions /\ d.last \in Positions /\ d.first <= d.last
<1>1. d.first \in Positions /\ d.last \in d.first..MaxPosition
  BY IngestionAssumption DEF Delivered
<1>2. MaxPosition \in Nat
  BY IngestionAssumption
<1>3. d.first \in Nat
  BY <1>1, <1>2 DEF Positions
<1> QED
  BY <1>1, <1>2, <1>3 DEF Positions

\* A call that is answered has the type of a call.
LEMMA ReplyType ==
    ASSUME TelemetryTypeOK, NEW c \in Persisters, NEW d \in Deliveries,
           NEW gap \in BOOLEAN, Reply(c, d, gap)
    PROVE  calls' \in [Persisters -> Call \cup {None}]
<1>1. [stage |-> "answer", delivery |-> d, prior |-> None, contiguous |-> -1, gap |-> gap]
        \in Call
  BY IngestionAssumption DEF Call
<1> QED
  BY <1>1 DEF Reply, TelemetryTypeOK

\* The variables of the telemetry store keep their types in a step of a call
\* (PersistStep), in one that only concerns the outbox, and in a stutter.
LEMMA TypesKept ==
    ASSUME TelemetryTypeOK, [Next]_vars
    PROVE  TelemetryTypeOK'
<1> USE DEF TelemetryTypeOK
<1>1. ASSUME NEW c \in Persisters, NEW d \in Deliveries, ReplayRequest(c, d)
      PROVE  TelemetryTypeOK'
  <2>1. batches[d.first] \in Batch
    BY <1>1, DeliveryRange DEF ReplayRequest, requestDuplicateMatches, duplicateMatches
  <2>2. batches[d.first].gap \in BOOLEAN
    BY <2>1 DEF Batch
  <2>3. calls' \in [Persisters -> Call \cup {None}]
    BY <1>1, <2>2, ReplyType DEF ReplayRequest
  <2> QED
    BY <1>1, <2>3 DEF ReplayRequest
<1>2. ASSUME NEW c \in Persisters, NEW d \in Deliveries, ReplayBatch(c, d)
      PROVE  TelemetryTypeOK'
  <2>1. batches[d.first] \in Batch
    BY <1>2, DeliveryRange DEF ReplayBatch, duplicateMatches
  <2>2. batches[d.first].gap \in BOOLEAN
    BY <2>1 DEF Batch
  <2>3. calls' \in [Persisters -> Call \cup {None}]
    BY <1>2, <2>2, ReplyType DEF ReplayBatch
  <2>4. [first |-> d.first, digest |-> d.digest] \in Request
    BY DeliveryRange DEF Request, Digests
  <2> QED
    BY <1>2, <2>3, <2>4 DEF ReplayBatch
<1>3. ASSUME NEW c \in Persisters, NEW d \in Deliveries, Check(c, d)
      PROVE  TelemetryTypeOK'
  <2>1. [stage |-> "checked", delivery |-> d, prior |-> None, contiguous |-> -1,
         gap |-> FALSE] \in Call
    BY IngestionAssumption DEF Call
  <2> QED
    BY <1>3, <2>1 DEF Check
<1>4. ASSUME NEW c \in Persisters, LockStream(c)
      PROVE  TelemetryTypeOK'
  <2> DEFINE prior == IF stream = None THEN -1 ELSE stream
  <2>1. calls[c] \in Call
    BY <1>4 DEF LockStream
  <2>2. (calls[c].delivery.first > prior + 1) \in BOOLEAN
    OBVIOUS
  <2> HIDE DEF prior
  <2>3. [calls[c] EXCEPT !.stage = "ranged", !.prior = stream,
                         !.gap = calls[c].delivery.first > prior + 1] \in Call
    BY <2>1, <2>2 DEF Call
  <2>4. calls' = [calls EXCEPT ![c] = [calls[c] EXCEPT !.stage = "ranged", !.prior = stream,
                         !.gap = calls[c].delivery.first > prior + 1]]
    BY <1>4 DEF LockStream, prior
  <2>5. calls' \in [Persisters -> Call \cup {None}]
    BY <2>3, <2>4
  <2> QED
    BY <1>4, <2>5 DEF LockStream
<1>5. ASSUME NEW c \in Persisters, PositionConflict(c)
      PROVE  TelemetryTypeOK'
  BY <1>5 DEF PositionConflict, Return
<1>6. ASSUME NEW c \in Persisters, Measure(c)
      PROVE  TelemetryTypeOK'
  <2>1. calls[c] \in Call
    BY <1>6 DEF Measure
  <2>2. PICK m \in -1..MaxPosition : MeasureTo(c, m)
    <3>1. CASE calls[c].gap /\ MeasureTo(c, PriorContiguous(calls[c]))
      <4>1. PriorContiguous(calls[c]) \in -1..MaxPosition
        BY <2>1, IngestionAssumption DEF PriorContiguous, Call
      <4> QED
        BY <3>1, <4>1
    <3>2. CASE \E m \in calls[c].delivery.last..MaxPosition : MeasureTo(c, m)
      <4>1. calls[c].delivery.last \in Positions
        BY <2>1, DeliveryRange DEF Call
      <4> QED
        BY <3>2, <4>1, IngestionAssumption DEF Positions
    <3> QED
      BY <1>6, <3>1, <3>2 DEF Measure
  <2>3. [calls[c] EXCEPT !.stage = "measured", !.contiguous = m] \in Call
    BY <2>1 DEF Call
  <2> QED
    BY <2>2, <2>3 DEF MeasureTo
<1>7. ASSUME NEW c \in Persisters, Commit(c)
      PROVE  TelemetryTypeOK'
  <2> DEFINE d == calls[c].delivery
  <2>1. calls[c] \in Call
    BY <1>7 DEF Commit
  <2>2. d \in Deliveries /\ calls[c].gap \in BOOLEAN /\ calls[c].contiguous \in -1..MaxPosition
    BY <2>1 DEF Call
  <2>3. d.first \in Positions /\ d.last \in Positions /\ d.first <= d.last
    BY <2>2, DeliveryRange
  <2>4. [last |-> d.last, digest |-> d.digest, gap |-> calls[c].gap,
         generation |-> d.generation] \in Batch
    BY <2>2, <2>3 DEF Batch, Digests, Generations
  <2>5. batches' \in [Positions -> Batch \cup {None}]
    BY <1>7, <2>4 DEF Commit
  <2>6. [first |-> d.first, digest |-> d.digest] \in Request
    BY <2>2, <2>3 DEF Request, Digests
  <2>7. requests' \in [Requests -> Request \cup {None}]
    BY <1>7, <2>6 DEF Commit
  <2>8. stream' \in {None} \cup (-1..MaxPosition)
    BY <1>7, <2>2, IngestionAssumption DEF Commit, CursorAfter
  <2>9. usage' \in 0..MaximumRecords
    BY <1>7, <2>3, IngestionAssumption DEF Commit, ReserveQuota, RecordCount, Positions
  <2>10. calls' \in [Persisters -> Call \cup {None}]
    BY <1>7, <2>2, ReplyType DEF Commit
  <2>11. acknowledged' \subseteq Acks
    BY <1>7 DEF Commit
  <2> QED
    BY <2>5, <2>7, <2>8, <2>9, <2>10, <2>11
<1>8. ASSUME NEW c \in Persisters, Fail(c)
      PROVE  TelemetryTypeOK'
  BY <1>8 DEF Fail, Return
<1>9. ASSUME NEW c \in Persisters, Answer(c)
      PROVE  TelemetryTypeOK'
  <2>1. calls[c] \in Call
    BY <1>9 DEF Answer
  <2>2. Delivered(calls[c].delivery)
    BY <2>1, IngestionAssumption DEF Call
  <2>3. acknowledged' \subseteq Acks
    BY <1>9, <2>2 DEF Answer, Acknowledges, Delivered
  <2>4. calls' \in [Persisters -> Call \cup {None}]
    BY <1>9 DEF Answer, Return
  <2> QED
    BY <1>9, <2>3, <2>4 DEF Answer
<1>10. CASE UNCHANGED telemetryVars
  BY <1>10 DEF telemetryVars
<1> QED
  BY <1>1, <1>2, <1>3, <1>4, <1>5, <1>6, <1>7, <1>8, <1>9, <1>10
     DEF Next, PersistStep, vars, telemetryVars

\* The telemetry store starts with its types.
LEMMA TypesInitial ==
    ASSUME Init
    PROVE  TelemetryTypeOK
<1>1. ASSUME NEW p \in Positions
      PROVE  [last |-> p, digest |-> None, gap |-> FALSE, generation |-> None] \in Batch
  BY DEF Batch
<1> QED
  BY <1>1, IngestionAssumption DEF Init, TelemetryTypeOK

\* Every table of the telemetry store and every call keeps its type, whatever
\* Gateways send and however calls interleave.
THEOREM TelemetryTypes == Spec => []TelemetryTypeOK
<1> QED
  BY TypesInitial, TypesKept, PTL DEF Spec

----------------------------------------------------------------------------
(* The cursor and the acknowledgements.                                    *)

\* Records are never deleted: a step that keeps the batches there are keeps
\* every record.
LEMMA RecordsStay ==
    ASSUME \A p \in Positions : batches[p] # None => batches'[p] = batches[p]
    PROVE  Recorded \subseteq Recorded'
<1>1. SUFFICES ASSUME NEW q \in Recorded
               PROVE  q \in Recorded'
  OBVIOUS
<1>2. q \in Positions
  BY DEF Recorded
<1>3. PICK p \in 0..q : batches[p] # None /\ q <= batches[p].last
  BY DEF Recorded
<1>4. p \in Positions
  BY <1>2, <1>3, IngestionAssumption DEF Positions
<1>5. batches'[p] # None /\ q <= batches'[p].last
  BY <1>3, <1>4
<1> QED
  BY <1>2, <1>5 DEF Recorded

\* What a call carries stays true while records are added.
LEMMA CallsCarryOn ==
    ASSUME NEW call, NEW R, NEW S, Carries(call, R), R \subseteq S
    PROVE  Carries(call, S)
BY DEF Carries

\* A step that keeps the batches, the stream and the acknowledgements, and
\* changes the call of c only, keeps the invariant if the new call carries
\* history.
LEMMA OneCallMoves ==
    ASSUME TelemetryTypeOK, IInv, NEW c \in Persisters, NEW call,
           UNCHANGED <<stream, batches, acknowledged>>,
           calls' = [calls EXCEPT ![c] = call],
           call # None => Carries(call, Recorded)
    PROVE  IInv'
<1>1. Recorded' = Recorded
  BY DEF Recorded
<1>2. ASSUME NEW e \in Persisters, calls'[e] # None
      PROVE  Carries(calls'[e], Recorded)
  <2>1. CASE e = c
    BY <2>1, <1>2 DEF TelemetryTypeOK
  <2>2. CASE e # c
    BY <2>2, <1>2 DEF TelemetryTypeOK, IInv, CallsCarryHistory
  <2> QED
    BY <2>1, <2>2
<1>3. CallsCarryHistory'
  BY <1>1, <1>2 DEF CallsCarryHistory
<1>4. CursorWithinHistory' /\ ReceiptsCarryHistory' /\ AcknowledgedIsStored'
  BY <1>1 DEF IInv, CursorWithinHistory, ReceiptsCarryHistory, AcknowledgedIsStored
<1>5. BatchesWereDelivered'
  BY DEF IInv, BatchesWereDelivered
<1> QED
  BY <1>3, <1>4, <1>5 DEF IInv

\* An answer carries the history of the receipt it was answered with.
LEMMA ReplyCarries ==
    ASSUME TelemetryTypeOK, IInv, NEW d \in Deliveries, duplicateMatches(d)
    PROVE  Carries([stage |-> "answer", delivery |-> d, prior |-> None,
                    contiguous |-> -1, gap |-> batches[d.first].gap], Recorded)
<1>1. d.first \in Positions
  BY DeliveryRange
<1>2. batches[d.first] # None /\ batches[d.first].digest = d.digest /\ d.digest # None
  BY IngestionAssumption DEF duplicateMatches, Digests
<1>3. PICK e \in Deliveries : /\ e.first = d.first
                              /\ e.last = batches[d.first].last
                              /\ e.digest = batches[d.first].digest
  BY <1>1, <1>2 DEF IInv, BatchesWereDelivered
<1>4. batches[d.first].last = d.last
  BY <1>2, <1>3, DigestAssumption
<1>5. ~batches[d.first].gap => 0..d.last \subseteq Recorded
  BY <1>1, <1>2, <1>4 DEF IInv, ReceiptsCarryHistory
<1> QED
  BY <1>5 DEF Carries

\* The commit of a batch: it is stored, the records that were there stay, and
\* without a gap the cursor moves to the end of what is stored without one.
LEMMA CommitKeeps ==
    ASSUME TelemetryTypeOK, IInv, NEW c \in Persisters, Commit(c)
    PROVE  IInv'
<1> DEFINE call == calls[c]
           d == call.delivery
<1>1. call \in Call /\ d \in Deliveries /\ call.stage = "measured"
  BY DEF Commit, TelemetryTypeOK, Call
<1>2. /\ d.first \in 0..MaxPosition /\ d.last \in 0..MaxPosition /\ d.first <= d.last
      /\ MaxPosition \in Nat
      /\ call.contiguous \in -1..MaxPosition /\ call.gap \in BOOLEAN
  BY <1>1, DeliveryRange, IngestionAssumption DEF Positions, Call
<1>3. batches' = [batches EXCEPT ![d.first] =
                    [last |-> d.last, digest |-> d.digest, gap |-> call.gap,
                              generation |-> d.generation]]
  BY DEF Commit
<1>4. batches[d.first] = None
  BY DEF Commit, CanInsert
<1>5. \A p \in Positions : p # d.first => batches'[p] = batches[p]
  BY <1>3 DEF TelemetryTypeOK
<1>6. batches'[d.first] = [last |-> d.last, digest |-> d.digest, gap |-> call.gap,
                              generation |-> d.generation]
  BY <1>2, <1>3 DEF TelemetryTypeOK, Positions
<1>7. batches'[d.first] # None
  <2>1. [last |-> d.last, digest |-> d.digest, gap |-> call.gap,
                              generation |-> d.generation] \in Batch
    BY <1>1, <1>2 DEF Batch, Positions, Digests, Generations
  <2> QED
    BY <2>1, <1>6, NoneIsNoBatch
<1>8. Recorded \subseteq Recorded'
  BY <1>4, <1>5, RecordsStay
<1>9. d.first..d.last \subseteq Recorded'
  <2>1. SUFFICES ASSUME NEW q \in d.first..d.last
                 PROVE  q \in Recorded'
    OBVIOUS
  <2>2. q \in Positions /\ d.first \in 0..q /\ q <= batches'[d.first].last
    BY <1>2, <1>6 DEF Positions
  <2> QED
    BY <2>2, <1>7 DEF Recorded
<1>10. ~call.gap => 0..d.last \subseteq Recorded'
  <2>1. ~call.gap => 0..(d.first - 1) \subseteq Recorded
    BY <1>1 DEF Commit, IInv, CallsCarryHistory, Carries
  <2> QED
    BY <2>1, <1>2, <1>8, <1>9
<1>11. ~call.gap => 0..call.contiguous \subseteq Recorded'
  <2>1. ~call.gap => (d.last + 1)..call.contiguous \subseteq Recorded
    BY <1>1 DEF Commit, IInv, CallsCarryHistory, Carries
  <2> QED
    BY <2>1, <1>2, <1>8, <1>10
<1>12. CursorWithinHistory'
  <2>1. stream' = CursorAfter(call)
    BY DEF Commit
  <2>2. CASE ~call.gap
    BY <2>1, <2>2, <1>11 DEF CursorAfter, CursorWithinHistory
  <2>3. CASE call.gap /\ stream = None
    BY <2>1, <2>3 DEF CursorAfter, CursorWithinHistory
  <2>4. CASE call.gap /\ stream # None
    BY <2>1, <2>4, <1>8 DEF CursorAfter, CursorWithinHistory, IInv
  <2> QED
    BY <1>2, <2>2, <2>3, <2>4
<1>13. ReceiptsCarryHistory'
  <2>1. SUFFICES ASSUME NEW p \in Positions, batches'[p] # None, ~batches'[p].gap
                 PROVE  0..batches'[p].last \subseteq Recorded'
    BY DEF ReceiptsCarryHistory
  <2>2. CASE p = d.first
    BY <2>1, <2>2, <1>6, <1>10
  <2>3. CASE p # d.first
    BY <2>1, <2>3, <1>5, <1>8 DEF IInv, ReceiptsCarryHistory
  <2> QED
    BY <2>2, <2>3
<1>14. BatchesWereDelivered'
  <2>1. SUFFICES ASSUME NEW p \in Positions, batches'[p] # None, batches'[p].digest # None
                 PROVE  \E e \in Deliveries : /\ e.first = p
                                              /\ e.last = batches'[p].last
                                              /\ e.digest = batches'[p].digest
    BY DEF BatchesWereDelivered
  <2>2. CASE p = d.first
    BY <2>2, <1>1, <1>6
  <2>3. CASE p # d.first
    BY <2>1, <2>3, <1>5 DEF IInv, BatchesWereDelivered
  <2> QED
    BY <2>2, <2>3
<1>15. CallsCarryHistory'
  <2>1. SUFFICES ASSUME NEW e \in Persisters, calls'[e] # None
                 PROVE  Carries(calls'[e], Recorded')
    BY DEF CallsCarryHistory
  <2>2. CASE e = c
    <3>1. calls'[e] = [stage |-> "answer", delivery |-> d, prior |-> None,
                       contiguous |-> -1, gap |-> call.gap]
      BY <2>2 DEF Commit, Reply, TelemetryTypeOK
    <3> HIDE DEF d, call
    <3> QED
      BY <3>1, <1>10 DEF Carries
  <2>3. CASE e # c
    <3>1. calls'[e] = calls[e]
      BY <2>3 DEF Commit, Reply, TelemetryTypeOK
    <3> QED
      BY <2>1, <3>1, <1>8, CallsCarryOn DEF IInv, CallsCarryHistory
  <2> QED
    BY <2>2, <2>3
<1>16. AcknowledgedIsStored'
  <2>1. acknowledged' = acknowledged
    BY DEF Commit
  <2> QED
    BY <2>1, <1>8 DEF IInv, AcknowledgedIsStored
<1> QED
  BY <1>12, <1>13, <1>14, <1>15, <1>16 DEF IInv

\* The row of the stream is read: without a gap the batch begins right after
\* the cursor, up to which every record is stored.
LEMMA LockStreamKeeps ==
    ASSUME TelemetryTypeOK, IInv, NEW c \in Persisters, LockStream(c)
    PROVE  IInv'
<1> DEFINE prior == IF stream = None THEN -1 ELSE stream
           first == calls[c].delivery.first
           read == [calls[c] EXCEPT !.stage = "ranged", !.prior = stream,
                                    !.gap = first > prior + 1]
<1>1. calls[c] \in Call /\ first \in 0..MaxPosition /\ MaxPosition \in Nat
  BY DeliveryRange, IngestionAssumption DEF LockStream, TelemetryTypeOK, Call, Positions
<1>2. prior \in -1..MaxPosition
  BY <1>1 DEF TelemetryTypeOK
<1>3. 0..prior \subseteq Recorded
  BY <1>2 DEF IInv, CursorWithinHistory
<1>4. first > prior
  BY DEF LockStream, InWindow
<1>5. ~(first > prior + 1) => 0..(first - 1) \subseteq Recorded
  <2> HIDE DEF prior, first
  <2>1. ~(first > prior + 1) => first - 1 = prior
    BY <1>1, <1>2, <1>4
  <2> QED
    BY <2>1, <1>3
<1>6. Carries(read, Recorded)
  <2>1. /\ read.stage = "ranged" /\ read.gap = (first > prior + 1)
        /\ read.delivery.first = first
    <3> HIDE DEF prior
    <3> QED
      BY <1>1 DEF Call
  <2> HIDE DEF read, prior, first
  <2> QED
    BY <1>5, <2>1 DEF Carries
<1>7. calls' = [calls EXCEPT ![c] = read]
  BY DEF LockStream
<1> QED
  BY <1>6, <1>7, OneCallMoves DEF LockStream

\* The stored positions after the batch are read: without a gap the call knows
\* up to where they follow on it.
LEMMA MeasureKeeps ==
    ASSUME TelemetryTypeOK, IInv, NEW c \in Persisters, Measure(c)
    PROVE  IInv'
<1>1. calls[c] \in Call /\ calls[c].stage = "ranged" /\ Carries(calls[c], Recorded)
  BY DEF Measure, TelemetryTypeOK, IInv, CallsCarryHistory
<1>2. PICK m : /\ MeasureTo(c, m)
               /\ ~calls[c].gap => /\ m >= calls[c].delivery.last
                                   /\ (calls[c].delivery.last + 1)..m \subseteq Recorded
  <2>1. CASE calls[c].gap
    BY <2>1 DEF Measure
  <2>2. CASE ~calls[c].gap
    <3>1. calls[c].delivery.last \in Positions
      BY <1>1, DeliveryRange DEF Call
    <3>2. PICK m \in calls[c].delivery.last..MaxPosition :
            Coalesces(calls[c].delivery.last, m) /\ MeasureTo(c, m)
      BY <2>2 DEF Measure
    <3>3. m >= calls[c].delivery.last
      BY <3>1, <3>2, IngestionAssumption DEF Positions
    <3> QED
      BY <3>2, <3>3 DEF Coalesces
  <2> QED
    BY <2>1, <2>2
<1> DEFINE measured == [calls[c] EXCEPT !.stage = "measured", !.contiguous = m]
<1>3. /\ measured.stage = "measured" /\ measured.contiguous = m
      /\ measured.gap = calls[c].gap /\ measured.delivery = calls[c].delivery
  BY <1>1 DEF Call
<1>4. calls' = [calls EXCEPT ![c] = measured]
  BY <1>2 DEF MeasureTo
<1>5. Carries(measured, Recorded)
  <2> HIDE DEF measured
  <2> QED
    BY <1>1, <1>2, <1>3 DEF Carries
<1> QED
  BY <1>2, <1>4, <1>5, OneCallMoves DEF MeasureTo

\* A bridge acknowledges what its call carries, if it carries no gap.
LEMMA AnswerKeeps ==
    ASSUME TelemetryTypeOK, IInv, NEW c \in Persisters, Answer(c)
    PROVE  IInv'
<1> DEFINE call == calls[c]
<1>1. call # None /\ call.stage = "answer" /\ Carries(call, Recorded)
  BY DEF Answer, IInv, CallsCarryHistory
<1>2. Recorded' = Recorded
  BY DEF Answer, Recorded
<1>3. AcknowledgedIsStored'
  <2>1. SUFFICES ASSUME NEW a \in acknowledged'
                 PROVE  0..a.position \subseteq Recorded
    BY <1>2 DEF AcknowledgedIsStored
  <2>2. CASE a \in acknowledged
    BY <2>2 DEF IInv, AcknowledgedIsStored
  <2>3. CASE a \notin acknowledged
    <3>1. Acknowledges(call) /\ a.position = call.delivery.last
      BY <2>1, <2>3 DEF Answer
    <3> QED
      BY <3>1, <1>1 DEF Carries, Acknowledges
  <2> QED
    BY <2>2, <2>3
<1>4. CallsCarryHistory'
  BY <1>2 DEF CallsCarryHistory, IInv, Answer, Return, TelemetryTypeOK
<1>5. CursorWithinHistory' /\ ReceiptsCarryHistory' /\ BatchesWereDelivered'
  BY <1>2 DEF Answer, IInv, CursorWithinHistory, ReceiptsCarryHistory, BatchesWereDelivered
<1> QED
  BY <1>3, <1>4, <1>5 DEF IInv

\* The invariant is inductive: one step per action of a call, and the steps of
\* the workers, which touch nothing it speaks of.
LEMMA InvariantKept ==
    ASSUME TelemetryTypeOK, IInv, [Next]_vars
    PROVE  IInv'
<1>1. ASSUME NEW c \in Persisters, NEW d \in Deliveries, ReplayRequest(c, d)
      PROVE  IInv'
  <2>1. duplicateMatches(d)
    BY <1>1 DEF ReplayRequest, requestDuplicateMatches
  <2> QED
    BY <1>1, <2>1, ReplyCarries, OneCallMoves DEF ReplayRequest, Reply
<1>2. ASSUME NEW c \in Persisters, NEW d \in Deliveries, ReplayBatch(c, d)
      PROVE  IInv'
  BY <1>2, ReplyCarries, OneCallMoves DEF ReplayBatch, Reply
<1>3. ASSUME NEW c \in Persisters, NEW d \in Deliveries, Check(c, d)
      PROVE  IInv'
  <2> DEFINE checked == [stage |-> "checked", delivery |-> d, prior |-> None,
                         contiguous |-> -1, gap |-> FALSE]
  <2>1. Carries(checked, Recorded)
    BY DEF Carries
  <2> QED
    BY <1>3, <2>1, OneCallMoves DEF Check
<1>4. ASSUME NEW c \in Persisters, PositionConflict(c) \/ Fail(c)
      PROVE  IInv'
  BY <1>4, OneCallMoves DEF PositionConflict, Fail, Return
<1>5. CASE UNCHANGED telemetryVars
  <2>1. Recorded' = Recorded
    BY <1>5 DEF telemetryVars, Recorded
  <2> QED
    BY <1>5, <2>1 DEF telemetryVars, IInv, CursorWithinHistory, ReceiptsCarryHistory,
                      BatchesWereDelivered, CallsCarryHistory, AcknowledgedIsStored
<1> QED
  BY <1>1, <1>2, <1>3, <1>4, <1>5, LockStreamKeeps, MeasureKeeps, CommitKeeps, AnswerKeeps
     DEF Next, PersistStep, vars, telemetryVars

\* A new stream has no cursor, and another one begins with its history.
LEMMA InvariantInitial ==
    ASSUME Init
    PROVE  IInv
<1>1. MaxPosition \in Nat /\ History \in -1..MaxPosition /\ None \notin Digests
  BY IngestionAssumption
<1>2. ASSUME NEW p \in Positions, batches[p] # None
      PROVE  p <= History /\ batches[p].last = p /\ batches[p].digest = None
  <2>1. p <= History /\ batches[p] = [last |-> p, digest |-> None, gap |-> FALSE, generation |-> None]
    BY <1>2 DEF Init
  <2>2. batches[p].last = p
    BY <2>1
  <2>3. batches[p].digest = None
    BY <2>1
  <2> QED
    BY <2>1, <2>2, <2>3
<1>3. \A p \in Positions : p <= History => p \in Recorded
  <2>1. SUFFICES ASSUME NEW p \in Positions, p <= History
                 PROVE  p \in Recorded
    OBVIOUS
  <2>2. batches[p] = [last |-> p, digest |-> None, gap |-> FALSE, generation |-> None]
    BY <2>1 DEF Init
  <2>3. batches[p] \in Batch
    BY <2>2 DEF Batch
  <2>4. batches[p].last = p
    BY <2>2
  <2>5. batches[p] # None
    BY <2>3, NoneIsNoBatch
  <2>6. p \in 0..p /\ p <= p
    BY <1>1 DEF Positions
  <2> QED
    BY <2>4, <2>5, <2>6 DEF Recorded
<1>4. CursorWithinHistory
  BY <1>1, <1>3 DEF Init, CursorWithinHistory, Positions
<1>5. ReceiptsCarryHistory
  <2>1. SUFFICES ASSUME NEW p \in Positions, batches[p] # None
                 PROVE  0..batches[p].last \subseteq Recorded
    BY DEF ReceiptsCarryHistory
  <2>2. p <= History /\ batches[p].last = p
    BY <1>2, <2>1
  <2>3. 0..p \subseteq Recorded
    BY <1>1, <1>3, <2>2 DEF Positions
  <2> QED
    BY <2>2, <2>3
<1>6. BatchesWereDelivered
  BY <1>2 DEF BatchesWereDelivered
<1>7. CallsCarryHistory /\ AcknowledgedIsStored
  BY DEF Init, CallsCarryHistory, AcknowledgedIsStored
<1> QED
  BY <1>4, <1>5, <1>6, <1>7 DEF IInv

\* The strengthened invariant holds in every state that is reached.
THEOREM HistoryIsCarried == Spec => [](TelemetryTypeOK /\ IInv)
<1>1. Init => TelemetryTypeOK /\ IInv
  BY TypesInitial, InvariantInitial
<1>2. TelemetryTypeOK /\ IInv /\ [Next]_vars => (TelemetryTypeOK /\ IInv)'
  BY TypesKept, InvariantKept
<1> QED
  BY <1>1, <1>2, PTL DEF Spec

\* The cursor of a stream never passes a record that is not stored, however
\* the transactions of persistInTransaction overtake each other.
THEOREM CursorNeverSkips == Spec => []CursorWithinHistory
<1>1. IInv => CursorWithinHistory
  BY DEF IInv
<1> QED
  BY <1>1, HistoryIsCarried, PTL

\* A bridge never acknowledges a position before a record that is not stored,
\* whichever calls, replays and failures came before.
THEOREM AcknowledgedOnlyStored == Spec => []AcknowledgedIsStored
<1>1. IInv => AcknowledgedIsStored
  BY DEF IInv
<1> QED
  BY <1>1, HistoryIsCarried, PTL

----------------------------------------------------------------------------
(* The quota and the receipts.                                             *)

\* A batch ends where it begins or after it.
BatchesRunForward == \A p \in Positions : batches[p] # None => p <= batches[p].last

StoreInv == BatchesRunForward /\ ReceiptsStand /\ UsageIsExact

\* Tables that stay as they are keep what is said of them.
LEMMA StoreStays ==
    ASSUME StoreInv, UNCHANGED <<batches, requests, usage>>
    PROVE  StoreInv'
<1>1. Recorded' = Recorded
  BY DEF Recorded
<1> QED
  BY <1>1 DEF StoreInv, BatchesRunForward, ReceiptsStand, UsageIsExact

\* What a commit inserts: a batch where there was none, apart from the others,
\* and its records beside those that were there.
LEMMA CommitInserts ==
    ASSUME TelemetryTypeOK, BatchesRunForward, NEW c \in Persisters, Commit(c),
           NEW d, d = calls[c].delivery
    PROVE  /\ d \in Deliveries
           /\ batches[d.first] = None
           /\ RangeOf(d) \cap Recorded = {}
           /\ batches'[d.first] # None /\ batches'[d.first].last = d.last
           /\ batches'[d.first].digest = d.digest
           /\ \A p \in Positions : p # d.first => batches'[p] = batches[p]
           /\ Recorded' = Recorded \cup RangeOf(d)
<1>1. calls[c] \in Call /\ d \in Deliveries
  BY DEF Commit, TelemetryTypeOK, Call
<1>2. d.first \in Positions /\ d.last \in Positions /\ d.first <= d.last /\ MaxPosition \in Nat
  BY <1>1, DeliveryRange, IngestionAssumption
<1>3. batches[d.first] = None /\ RangeOf(d) \cap Recorded = {}
  BY DEF Commit, CanInsert
<1> DEFINE row == [last |-> d.last, digest |-> d.digest, gap |-> calls[c].gap,
                   generation |-> d.generation]
<1>4. row \in Batch /\ row.last = d.last /\ row.digest = d.digest
  BY <1>1, <1>2 DEF Batch, Digests, Generations, Call
<1>5. batches' = [batches EXCEPT ![d.first] = row]
  BY DEF Commit
<1> HIDE DEF row
<1>6. /\ batches'[d.first] = row /\ row # None
      /\ \A p \in Positions : p # d.first => batches'[p] = batches[p]
  BY <1>2, <1>4, <1>5, NoneIsNoBatch DEF TelemetryTypeOK
<1>7. ASSUME NEW q \in Positions
      PROVE  q \in Recorded' <=> q \in Recorded \/ q \in RangeOf(d)
  <2>1. \A p \in 0..q : p \in Positions
    BY <1>2 DEF Positions
  <2>2. ASSUME q \in RangeOf(d) PROVE q \in Recorded'
    <3>1. d.first \in 0..q /\ q <= d.last
      BY <1>2, <2>2 DEF Positions, RangeOf
    <3> QED
      BY <1>4, <1>6, <3>1 DEF Recorded
  <2>3. ASSUME q \in Recorded PROVE q \in Recorded'
    <3>1. PICK p \in 0..q : batches[p] # None /\ q <= batches[p].last
      BY <2>3 DEF Recorded
    <3>2. batches'[p] = batches[p]
      BY <1>3, <1>6, <2>1, <3>1
    <3> QED
      BY <3>1, <3>2 DEF Recorded
  <2>4. ASSUME q \in Recorded', q \notin RangeOf(d) PROVE q \in Recorded
    <3>1. PICK p \in 0..q : batches'[p] # None /\ q <= batches'[p].last
      BY <2>4 DEF Recorded
    <3>2. p # d.first
      BY <1>2, <1>4, <1>6, <2>4, <3>1 DEF RangeOf, Positions
    <3>3. batches'[p] = batches[p]
      BY <1>6, <2>1, <3>2
    <3> QED
      BY <3>1, <3>3 DEF Recorded
  <2> QED
    BY <2>2, <2>3, <2>4
<1>8. RangeOf(d) \subseteq Positions /\ Recorded \subseteq Positions /\ Recorded' \subseteq Positions
  BY <1>2 DEF RangeOf, Positions, Recorded
<1> QED
  BY <1>1, <1>3, <1>4, <1>6, <1>7, <1>8

\* As many records as are counted are added.
LEMMA CardinalityGrows ==
    ASSUME TelemetryTypeOK, NEW d \in Deliveries, RangeOf(d) \cap Recorded = {}
    PROVE  Cardinality(Recorded \cup RangeOf(d)) = Cardinality(Recorded) + RecordCount(d)
<1>1. d.first \in Nat /\ d.last \in Nat /\ d.first <= d.last /\ MaxPosition \in Nat
  BY DeliveryRange, IngestionAssumption DEF Positions
<1>2. IsFiniteSet(Positions)
  BY <1>1, FS_Interval DEF Positions
<1>3. IsFiniteSet(Recorded)
  <2>1. Recorded \subseteq Positions
    BY DEF Recorded
  <2> QED
    BY <1>2, <2>1, FS_Subset
<1>4. IsFiniteSet(RangeOf(d)) /\ Cardinality(RangeOf(d)) = RecordCount(d)
  <2>1. PICK a \in Int, b \in Int : a = d.first /\ b = d.last
    BY <1>1
  <2>2. IsFiniteSet(a..b) /\ Cardinality(a..b) = b - a + 1
    <3>1. IsFiniteSet(a..b) /\ Cardinality(a..b) = IF a > b THEN 0 ELSE b - a + 1
      BY FS_Interval
    <3>2. ~(a > b)
      BY <1>1, <2>1
    <3> QED
      BY <3>1, <3>2
  <2> QED
    BY <2>1, <2>2 DEF RangeOf, RecordCount
<1>5. Cardinality(Recorded) \in Nat /\ RecordCount(d) \in Nat
  BY <1>3, <1>4, FS_CardinalityType
<1>6. Cardinality(Recorded \cup RangeOf(d)) =
        Cardinality(Recorded) + Cardinality(RangeOf(d)) - Cardinality(Recorded \cap RangeOf(d))
  BY <1>3, <1>4, FS_Union
<1>7. Cardinality(Recorded \cap RangeOf(d)) = 0
  <2>1. Recorded \cap RangeOf(d) = {}
    OBVIOUS
  <2> QED
    BY <2>1, FS_EmptySet
<1> QED
  BY <1>4, <1>5, <1>6, <1>7

LEMMA CommitKeepsStore ==
    ASSUME TelemetryTypeOK, StoreInv, NEW c \in Persisters, Commit(c)
    PROVE  StoreInv'
<1>1. PICK d : d = calls[c].delivery
  OBVIOUS
<1>2. /\ d \in Deliveries
      /\ batches[d.first] = None
      /\ RangeOf(d) \cap Recorded = {}
      /\ batches'[d.first] # None /\ batches'[d.first].last = d.last
      /\ batches'[d.first].digest = d.digest
      /\ \A p \in Positions : p # d.first => batches'[p] = batches[p]
      /\ Recorded' = Recorded \cup RangeOf(d)
  BY <1>1, CommitInserts DEF StoreInv
<1>3. d.first \in Nat /\ d.last \in Nat /\ d.first <= d.last /\ d.first \in Positions
  BY <1>2, DeliveryRange, IngestionAssumption DEF Positions
<1>4. BatchesRunForward'
  BY <1>2, <1>3 DEF StoreInv, BatchesRunForward
<1>5. UsageIsExact'
  <2>1. usage' = usage + RecordCount(d)
    BY <1>1 DEF Commit, ReserveQuota
  <2> QED
    BY <1>2, <2>1, CardinalityGrows DEF StoreInv, UsageIsExact
<1>6. ASSUME NEW r \in Requests, requests'[r] # None
      PROVE  /\ batches'[requests'[r].first] # None
             /\ batches'[requests'[r].first].digest = requests'[r].digest
  <2> DEFINE row == [first |-> d.first, digest |-> d.digest]
  <2>1. row.first = d.first /\ row.digest = d.digest
    OBVIOUS
  <2>2. requests' = [requests EXCEPT ![d.request] = row]
    BY <1>1 DEF Commit
  <2> HIDE DEF row
  <2>3. CASE r = d.request
    <3>1. requests'[r] = row
      BY <2>2, <2>3 DEF TelemetryTypeOK
    <3> QED
      BY <1>2, <2>1, <3>1
  <2>4. CASE r # d.request
    <3>1. requests'[r] = requests[r]
      BY <2>2, <2>4 DEF TelemetryTypeOK
    <3>2. requests[r].first \in Positions
      BY <1>6, <3>1 DEF TelemetryTypeOK, Request
    <3>3. /\ batches[requests[r].first] # None
          /\ batches[requests[r].first].digest = requests[r].digest
      BY <1>6, <3>1 DEF StoreInv, ReceiptsStand
    <3>4. batches'[requests[r].first] = batches[requests[r].first]
      BY <1>2, <3>2, <3>3
    <3> QED
      BY <3>1, <3>3, <3>4
  <2> QED
    BY <2>3, <2>4
<1>7. ASSUME NEW p \in Positions, NEW q \in Positions,
             p < q, batches'[p] # None, batches'[q] # None
      PROVE  batches'[p].last < q
  <2>1. p \in Nat /\ q \in Nat /\ \A b \in Batch : b.last \in Nat
    BY IngestionAssumption DEF Positions, Batch
  <2>2. CASE p = d.first
    <3>1. batches[q] # None /\ batches[q] \in Batch /\ q <= batches[q].last
      BY <1>2, <1>7, <2>1, <2>2 DEF TelemetryTypeOK, StoreInv, BatchesRunForward
    <3>2. q \in Recorded
      BY <2>1, <3>1 DEF Recorded
    <3>3. q \notin RangeOf(d)
      BY <1>2, <3>2
    <3> QED
      BY <1>2, <1>3, <1>7, <2>1, <2>2, <3>3 DEF RangeOf
  <2>3. CASE q = d.first
    <3>1. batches[p] # None /\ batches[p] \in Batch
      BY <1>2, <1>7, <2>1, <2>3 DEF TelemetryTypeOK
    <3>2. q \in RangeOf(d)
      BY <1>3, <2>3 DEF RangeOf
    <3>3. q \notin Recorded
      BY <1>2, <3>2
    <3>4. ~(q <= batches[p].last)
      BY <1>7, <2>1, <3>1, <3>3 DEF Recorded
    <3>5. batches'[p] = batches[p]
      BY <1>2, <1>7, <2>1, <2>3
    <3> QED
      BY <2>1, <3>1, <3>4, <3>5
  <2>4. CASE p # d.first /\ q # d.first
    BY <1>2, <1>7, <2>4 DEF StoreInv, ReceiptsStand
  <2> QED
    BY <2>2, <2>3, <2>4
<1>8. ReceiptsStand'
  BY <1>6, <1>7 DEF ReceiptsStand
<1> QED
  BY <1>4, <1>5, <1>8 DEF StoreInv

\* A replay records its request beside the batch that it matches.
LEMMA ReplayKeepsStore ==
    ASSUME TelemetryTypeOK, StoreInv, NEW c \in Persisters, NEW d \in Deliveries,
           ReplayBatch(c, d)
    PROVE  StoreInv'
<1> DEFINE row == [first |-> d.first, digest |-> d.digest]
<1>1. row.first = d.first /\ row.digest = d.digest
  OBVIOUS
<1>2. /\ requests' = [requests EXCEPT ![d.request] = row]
      /\ batches' = batches /\ usage' = usage
      /\ batches[d.first] # None /\ batches[d.first].digest = d.digest
  BY DEF ReplayBatch, duplicateMatches
<1> HIDE DEF row
<1>3. Recorded' = Recorded
  BY <1>2 DEF Recorded
<1>4. ASSUME NEW r \in Requests, requests'[r] # None
      PROVE  /\ batches[requests'[r].first] # None
             /\ batches[requests'[r].first].digest = requests'[r].digest
  <2>1. CASE r = d.request
    <3>1. requests'[r] = row
      BY <1>2, <2>1 DEF TelemetryTypeOK
    <3> QED
      BY <1>1, <1>2, <3>1
  <2>2. CASE r # d.request
    <3>1. requests'[r] = requests[r]
      BY <1>2, <2>2 DEF TelemetryTypeOK
    <3> QED
      BY <1>4, <3>1 DEF StoreInv, ReceiptsStand
  <2> QED
    BY <2>1, <2>2
<1>5. ReceiptsStand'
  BY <1>2, <1>4 DEF StoreInv, ReceiptsStand
<1> QED
  BY <1>2, <1>3, <1>5 DEF StoreInv, BatchesRunForward, UsageIsExact

LEMMA StoreNext ==
    ASSUME TelemetryTypeOK, StoreInv, [Next]_vars
    PROVE  StoreInv'
<1>1. ASSUME NEW c \in Persisters, NEW d \in Deliveries, ReplayRequest(c, d) \/ Check(c, d)
      PROVE  UNCHANGED <<batches, requests, usage>>
  BY <1>1 DEF ReplayRequest, Check
<1>2. ASSUME NEW c \in Persisters,
             LockStream(c) \/ PositionConflict(c) \/ Measure(c) \/ Fail(c) \/ Answer(c)
      PROVE  UNCHANGED <<batches, requests, usage>>
  BY <1>2 DEF LockStream, PositionConflict, Measure, MeasureTo, Fail, Answer
<1>3. CASE UNCHANGED telemetryVars
  BY <1>3, StoreStays DEF telemetryVars
<1> QED
  BY <1>1, <1>2, <1>3, StoreStays, ReplayKeepsStore, CommitKeepsStore
     DEF Next, PersistStep, vars, telemetryVars

\* At the beginning the history is stored, record by record.
LEMMA HistoryIsRecorded ==
    ASSUME Init
    PROVE  /\ Recorded = 0..History
           /\ \A p \in Positions : /\ batches[p] # None <=> p <= History
                                   /\ batches[p] # None => batches[p].last = p
<1>1. MaxPosition \in Nat /\ History \in -1..MaxPosition
  BY IngestionAssumption
<1>2. ASSUME NEW p \in Positions
      PROVE  /\ batches[p] # None <=> p <= History
             /\ batches[p] # None => batches[p].last = p
  <2> DEFINE row == [last |-> p, digest |-> None, gap |-> FALSE, generation |-> None]
  <2>1. row \in Batch /\ row.last = p
    BY DEF Batch
  <2>2. batches[p] = IF p <= History THEN row ELSE None
    BY DEF Init
  <2> HIDE DEF row
  <2> QED
    BY <2>1, <2>2, NoneIsNoBatch
<1>3. Recorded = 0..History
  <2>1. ASSUME NEW q \in Positions PROVE q \in Recorded <=> q <= History
    <3>1. \A p \in 0..q : p \in Positions /\ p \in Nat
      BY <1>1 DEF Positions
    <3>2. q \in Nat /\ q \in 0..q
      BY <1>1 DEF Positions
    <3>3. ASSUME q <= History PROVE q \in Recorded
      BY <1>2, <3>2, <3>3 DEF Recorded
    <3>4. ASSUME q \in Recorded PROVE q <= History
      <4>1. PICK p \in 0..q : batches[p] # None /\ q <= batches[p].last
        BY <3>4 DEF Recorded
      <4> QED
        BY <1>1, <1>2, <3>1, <3>2, <4>1
    <3> QED
      BY <3>3, <3>4
  <2>2. Recorded \subseteq Positions
    BY DEF Recorded
  <2>3. 0..History = {q \in Positions : q <= History}
    BY <1>1 DEF Positions
  <2> QED
    BY <2>1, <2>2, <2>3
<1> QED
  BY <1>2, <1>3

\* It is counted.
LEMMA StoreInit == ASSUME Init PROVE StoreInv
<1>1. MaxPosition \in Nat /\ History \in -1..MaxPosition
  BY IngestionAssumption
<1>2. ASSUME NEW p \in Positions
      PROVE  /\ batches[p] # None <=> p <= History
             /\ batches[p] # None => batches[p].last = p
  BY HistoryIsRecorded
<1>3. Recorded = 0..History
  BY HistoryIsRecorded
<1>4. UsageIsExact
  <2>1. Cardinality(0..History) = History + 1
    <3>1. CASE History = -1
      <4>1. 0..History = {}
        BY <3>1
      <4> QED
        BY <3>1, <4>1, FS_EmptySet
    <3>2. CASE History # -1
      BY <1>1, <3>2, FS_Interval
    <3> QED
      BY <3>1, <3>2
  <2> QED
    BY <1>3, <2>1 DEF Init, UsageIsExact
<1>5. BatchesRunForward
  BY <1>1, <1>2 DEF BatchesRunForward, Positions
<1>6. ReceiptsStand
  BY <1>1, <1>2 DEF Init, ReceiptsStand
<1> QED
  BY <1>4, <1>5, <1>6 DEF StoreInv

\* The quota counts the stored records and what a request answered it answers
\* again, with the types and the order of the batches that this rests on.
THEOREM StoreIsConsistent == Spec => [](TelemetryTypeOK /\ StoreInv)
<1>1. Init => TelemetryTypeOK /\ StoreInv
  BY TypesInitial, StoreInit
<1>2. TelemetryTypeOK /\ StoreInv /\ [Next]_vars => (TelemetryTypeOK /\ StoreInv)'
  BY TypesKept, StoreNext
<1> QED
  BY <1>1, <1>2, PTL DEF Spec

\* The usage of a Gateway is the number of its records, replays, conflicts and
\* failures notwithstanding.
THEOREM QuotaIsExact == Spec => []UsageIsExact
<1>1. StoreInv => UsageIsExact
  BY DEF StoreInv
<1> QED
  BY <1>1, StoreIsConsistent, PTL

\* The receipt of a request is that of a stored batch with its content, and no
\* two batches share a position.
THEOREM ReceiptsAlwaysStand == Spec => []ReceiptsStand
<1>1. StoreInv => ReceiptsStand
  BY DEF StoreInv
<1> QED
  BY <1>1, StoreIsConsistent, PTL

----------------------------------------------------------------------------
(* The cursor of a stream that has a row.                                  *)

\* A call that has read the position of the stream and has not committed.
HasRead(c) == calls[c] # None /\ calls[c].stage \in {"ranged", "measured"}

\* What it has read is still so.
ReadIsCurrent(call) ==
    /\ call.prior # None
    /\ call.gap <=> call.delivery.first > stream + 1
    /\ call.delivery.first > stream
    /\ call.delivery.first <= stream + 1 + Window
    /\ call.stage = "measured" /\ ~call.gap =>
         /\ call.contiguous >= call.delivery.last
         /\ Coalesces(call.delivery.last, call.contiguous)

\* No stored batch begins farther behind the cursor than a batch is admitted, which is
\* as far as the read that follows a batch reaches.
BeginsInReach == \A p \in Positions : batches[p] # None => p <= stream + 1 + Window

LockInv ==
    /\ stream # None
    /\ \A c, e \in Persisters : HasRead(c) /\ HasRead(e) => c = e
    /\ \A c \in Persisters : HasRead(c) => ReadIsCurrent(calls[c])
    /\ BeginsInReach
    /\ CursorIsContiguous

\* A call whose row is current stays so while the stream and the records do.
LEMMA ReadStays ==
    ASSUME NEW call, ReadIsCurrent(call), stream' = stream, Recorded' = Recorded
    PROVE  ReadIsCurrent(call)'
  BY DEF ReadIsCurrent, Coalesces

\* A step of c that stores nothing keeps the lock, if c alone holds it or lets
\* it go.
LEMMA LockStays ==
    ASSUME TelemetryTypeOK, LockInv, NEW c \in Persisters, NEW call,
           UNCHANGED <<stream, batches>>,
           calls' = [calls EXCEPT ![c] = call],
           call # None /\ call.stage \in {"ranged", "measured"} =>
             /\ ReadIsCurrent(call)
             /\ \A e \in Persisters : HasRead(e) => e = c
    PROVE  LockInv'
<1>1. stream' = stream /\ Recorded' = Recorded
  BY DEF Recorded
<1>2. calls'[c] = call /\ \A e \in Persisters : e # c => calls'[e] = calls[e]
  BY DEF TelemetryTypeOK
<1>3. ASSUME NEW e \in Persisters, HasRead(e)', NEW held, held = calls'[e]
      PROVE  /\ ReadIsCurrent(held)'
             /\ e # c => HasRead(e)
  <2>1. CASE e = c
    <3>1. ReadIsCurrent(held)
      BY <1>2, <1>3, <2>1 DEF HasRead
    <3>2. ReadIsCurrent(held)'
      BY <1>1, <3>1, ReadStays
    <3> QED
      BY <2>1, <3>2
  <2>2. CASE e # c
    <3>1. HasRead(e) /\ calls[e] = held
      BY <1>2, <1>3, <2>2 DEF HasRead
    <3>2. ReadIsCurrent(held)
      BY <3>1 DEF LockInv
    <3>3. ReadIsCurrent(held)'
      BY <1>1, <3>2, ReadStays
    <3> QED
      BY <3>1, <3>3
  <2> QED
    BY <2>1, <2>2
<1>4. ASSUME NEW d \in Persisters, NEW e \in Persisters, HasRead(d)', HasRead(e)'
      PROVE  d = e
  <2>1. CASE d # c /\ e # c
    BY <1>3, <1>4, <2>1 DEF LockInv
  <2>2. CASE (d = c \/ e = c) /\ d # e
    <3>1. HasRead(c)'
      BY <1>4, <2>2
    <3>2. \A f \in Persisters : HasRead(f) => f = c
      BY <1>2, <3>1 DEF HasRead
    <3> QED
      BY <1>3, <1>4, <2>2, <3>2
  <2> QED
    BY <2>1, <2>2
<1>5. BeginsInReach' /\ CursorIsContiguous' /\ stream' # None
  BY <1>1 DEF LockInv, BeginsInReach, CursorIsContiguous
<1>6. \A e \in Persisters : HasRead(e)' => ReadIsCurrent(calls[e])'
  BY <1>3 DEF ReadIsCurrent, Coalesces
<1> QED
  BY <1>4, <1>5, <1>6 DEF LockInv

\* The position is read only when no other call has read it.
LEMMA ReadTakesLock ==
    ASSUME TelemetryTypeOK, LockInv, NEW c \in Persisters, LockStream(c)
    PROVE  LockInv'
<1> DEFINE first == calls[c].delivery.first
           read == [calls[c] EXCEPT !.stage = "ranged", !.prior = stream,
                                    !.gap = first > stream + 1]
<1>1. calls[c] \in Call /\ first \in Nat /\ stream \in Int /\ stream # None
  BY DeliveryRange, IngestionAssumption
     DEF LockStream, TelemetryTypeOK, Call, Positions, LockInv
<1>2. calls' = [calls EXCEPT ![c] = read]
  BY <1>1 DEF LockStream
<1>3. first > stream /\ first - (stream + 1) <= Window
  BY <1>1 DEF LockStream, InWindow
<1>4. \A e \in Persisters : ~HasRead(e)
  <2>1. ~StreamLocked
    BY <1>1 DEF LockStream, ReadStream
  <2> QED
    BY <2>1 DEF StreamLocked, HasRead, LockInv, ReadIsCurrent
<1>5. ReadIsCurrent(read)
  <2>1. /\ read.stage = "ranged" /\ read.prior = stream
        /\ read.gap = (first > stream + 1) /\ read.delivery.first = first
    BY <1>1 DEF Call
  <2> HIDE DEF read, first
  <2>2. first <= stream + 1 + Window
    BY <1>1, <1>3, IngestionAssumption
  <2> QED
    BY <1>1, <1>3, <2>1, <2>2 DEF ReadIsCurrent
<1> HIDE DEF read
<1> QED
  BY <1>2, <1>4, <1>5, LockStays DEF LockStream

\* What follows on the batch is measured under the lock.
LEMMA MeasureKeepsLock ==
    ASSUME TelemetryTypeOK, LockInv, NEW c \in Persisters, Measure(c)
    PROVE  LockInv'
<1>1. /\ calls[c] \in Call /\ HasRead(c) /\ ReadIsCurrent(calls[c])
      /\ calls[c].delivery.last \in Nat
  <2>1. calls[c] \in Call /\ HasRead(c)
    BY DEF Measure, TelemetryTypeOK, HasRead
  <2> QED
    BY <2>1, DeliveryRange, IngestionAssumption DEF LockInv, Call, Positions
<1>2. PICK m : /\ MeasureTo(c, m)
               /\ ~calls[c].gap => /\ m >= calls[c].delivery.last
                                   /\ Coalesces(calls[c].delivery.last, m)
  <2>1. CASE calls[c].gap
    BY <2>1 DEF Measure
  <2>2. CASE ~calls[c].gap
    <3>1. PICK m \in calls[c].delivery.last..MaxPosition :
            Coalesces(calls[c].delivery.last, m) /\ MeasureTo(c, m)
      BY <2>2 DEF Measure
    <3>2. m >= calls[c].delivery.last
      BY <1>1, <3>1, IngestionAssumption
    <3> QED
      BY <3>1, <3>2
  <2> QED
    BY <2>1, <2>2
<1> DEFINE measured == [calls[c] EXCEPT !.stage = "measured", !.contiguous = m]
<1>3. /\ measured.stage = "measured" /\ measured.contiguous = m
      /\ measured.gap = calls[c].gap /\ measured.delivery = calls[c].delivery
      /\ measured.prior = calls[c].prior
  BY <1>1 DEF Call
<1>4. calls' = [calls EXCEPT ![c] = measured]
  BY <1>2 DEF MeasureTo
<1> HIDE DEF measured
<1>5. ReadIsCurrent(measured)
  BY <1>1, <1>2, <1>3 DEF ReadIsCurrent
<1>6. \A e \in Persisters : HasRead(e) => e = c
  BY <1>1 DEF LockInv
<1>7. UNCHANGED <<stream, batches>>
  BY <1>2 DEF MeasureTo
<1> QED
  BY <1>4, <1>5, <1>6, <1>7, LockStays

\* The commit moves the cursor to the end of what is stored without a gap, as
\* nobody else has stored anything since it was measured.
LEMMA CommitReleasesLock ==
    ASSUME TelemetryTypeOK, BatchesRunForward, LockInv,
           NEW c \in Persisters, Commit(c)
    PROVE  LockInv'
<1>1. PICK call : call = calls[c]
  OBVIOUS
<1>2. PICK d : d = call.delivery
  OBVIOUS
<1>3. /\ call \in Call /\ call.stage = "measured" /\ HasRead(c) /\ ReadIsCurrent(call)
      /\ d \in Deliveries
  BY <1>1, <1>2 DEF Commit, TelemetryTypeOK, Call, HasRead, LockInv
<1>4. /\ d.first \in Nat /\ d.last \in Nat /\ d.first <= d.last
      /\ MaxPosition \in Nat /\ Window \in Nat
      /\ stream \in -1..MaxPosition /\ stream # None
      /\ call.contiguous \in -1..MaxPosition
  BY <1>3, DeliveryRange, IngestionAssumption DEF Positions, TelemetryTypeOK, LockInv, Call
<1>5. Recorded' = Recorded \cup RangeOf(d)
  BY <1>1, <1>2, CommitInserts
<1>6. stream' = IF call.gap THEN stream ELSE call.contiguous
  BY <1>1, <1>4 DEF Commit, CursorAfter
<1>7. /\ d.first > stream /\ d.first <= stream + 1 + Window
      /\ call.gap => d.first > stream + 1
      /\ ~call.gap => d.first = stream + 1
      /\ ~call.gap => call.contiguous >= d.last /\ Coalesces(d.last, call.contiguous)
  BY <1>2, <1>3, <1>4 DEF ReadIsCurrent
<1>8. ASSUME NEW p \in Positions, batches[p] # None
      PROVE  p \in Nat /\ p <= stream + 1 + Window /\ p # stream + 1 /\ p \in Recorded
  <2>1. p \in Nat /\ p <= stream + 1 + Window /\ p # stream + 1
    BY <1>8 DEF LockInv, BeginsInReach, CursorIsContiguous, Positions
  <2>2. p \in 0..p /\ p <= batches[p].last
    BY <1>8, <2>1 DEF BatchesRunForward
  <2> QED
    BY <1>8, <2>1, <2>2 DEF Recorded
<1>9. stream' \in Int /\ stream' >= stream /\ stream' # None
  <2>1. CASE call.gap
    BY <1>4, <1>6, <2>1
  <2>2. CASE ~call.gap
    BY <1>4, <1>6, <1>7, <2>2, NoneIsNoPosition
  <2> QED
    BY <2>1, <2>2
<1>10. ASSUME NEW p \in Positions, batches'[p] # None PROVE p = d.first \/ batches[p] # None
  BY <1>1, <1>2, <1>10 DEF Commit, TelemetryTypeOK
<1>11. BeginsInReach'
  <2>1. ASSUME NEW n \in Int, n >= stream, NEW p \in Positions, batches'[p] # None
        PROVE  p <= n + 1 + Window
    <3>1. p \in Nat /\ p <= stream + 1 + Window
      BY <1>4, <1>7, <1>8, <1>10, <2>1
    <3> QED
      BY <1>4, <2>1, <3>1
  <2> QED
    BY <1>9, <2>1 DEF BeginsInReach
<1>12. CursorIsContiguous'
  <2> SUFFICES ASSUME NEW p \in Positions, batches'[p] # None
               PROVE  p # stream' + 1
    BY DEF CursorIsContiguous
  <2>1. CASE call.gap
    BY <1>4, <1>6, <1>7, <1>8, <1>10, <2>1
  <2>2. CASE ~call.gap
    <3> DEFINE m == call.contiguous
    <3>1. /\ m \in Int /\ m >= d.last /\ m <= d.last + Window
          /\ m < d.last + Window => m + 1 \notin Recorded
      BY <1>4, <1>7, <2>2 DEF Coalesces
    <3>2. CASE p = d.first
      BY <1>4, <1>6, <2>2, <3>1, <3>2
    <3>3. CASE batches[p] # None
      <4>1. p \in Nat /\ p <= d.first + Window /\ p \in Recorded
        BY <1>4, <1>7, <1>8, <2>2, <3>3
      <4>2. CASE m < d.last + Window
        BY <1>6, <2>2, <3>1, <4>1, <4>2
      <4>3. CASE m = d.last + Window
        BY <1>4, <1>6, <2>2, <4>1, <4>3
      <4> QED
        BY <1>4, <3>1, <4>2, <4>3
    <3> QED
      BY <1>10, <3>2, <3>3
  <2> QED
    BY <2>1, <2>2
<1>13. \A e \in Persisters : ~HasRead(e)'
  <2> SUFFICES ASSUME NEW e \in Persisters PROVE ~HasRead(e)'
    OBVIOUS
  <2>1. CASE e = c
    <3>1. calls'[e].stage = "answer"
      BY <2>1 DEF Commit, Reply, TelemetryTypeOK
    <3> QED
      BY <3>1 DEF HasRead
  <2>2. CASE e # c
    <3>1. calls'[e] = calls[e]
      BY <2>2 DEF Commit, Reply, TelemetryTypeOK
    <3>2. ~HasRead(e)
      BY <1>3, <2>2 DEF LockInv
    <3> QED
      BY <3>1, <3>2 DEF HasRead
  <2> QED
    BY <2>1, <2>2
<1> QED
  BY <1>9, <1>11, <1>12, <1>13 DEF LockInv

LEMMA LockNext ==
    ASSUME TelemetryTypeOK, BatchesRunForward, LockInv, [Next]_vars
    PROVE  LockInv'
<1>1. ASSUME NEW c \in Persisters, NEW d \in Deliveries,
             ReplayRequest(c, d) \/ ReplayBatch(c, d) \/ Check(c, d)
      PROVE  LockInv'
  <2>1. \E call : /\ calls' = [calls EXCEPT ![c] = call]
                  /\ call.stage \in {"checked", "answer"}
    <3>1. \E gap : Reply(c, d, gap) \/ Check(c, d)
      BY <1>1 DEF ReplayRequest, ReplayBatch
    <3>2. CASE Check(c, d)
      <4> DEFINE call == [stage |-> "checked", delivery |-> d, prior |-> None,
                          contiguous |-> -1, gap |-> FALSE]
      <4>1. call.stage = "checked" /\ calls' = [calls EXCEPT ![c] = call]
        BY <3>2 DEF Check
      <4> HIDE DEF call
      <4> QED
        BY <4>1
    <3>3. ASSUME NEW gap, Reply(c, d, gap)
          PROVE  \E call : /\ calls' = [calls EXCEPT ![c] = call]
                           /\ call.stage \in {"checked", "answer"}
      <4> DEFINE call == [stage |-> "answer", delivery |-> d, prior |-> None,
                          contiguous |-> -1, gap |-> gap]
      <4>1. call.stage = "answer" /\ calls' = [calls EXCEPT ![c] = call]
        BY <3>3 DEF Reply
      <4> HIDE DEF call
      <4> QED
        BY <4>1
    <3> QED
      BY <3>1, <3>2, <3>3
  <2>2. UNCHANGED <<stream, batches>>
    BY <1>1 DEF ReplayRequest, ReplayBatch, Check
  <2>3. PICK call : calls' = [calls EXCEPT ![c] = call] /\ call.stage \in {"checked", "answer"}
    BY <2>1
  <2> QED
    BY <2>2, <2>3, LockStays
<1>2. ASSUME NEW c \in Persisters, PositionConflict(c) \/ Fail(c) \/ Answer(c)
      PROVE  LockInv'
  <2>1. calls' = [calls EXCEPT ![c] = None] /\ UNCHANGED <<stream, batches>>
    BY <1>2 DEF PositionConflict, Fail, Answer, Return
  <2> QED
    BY <2>1, LockStays
<1>3. CASE UNCHANGED telemetryVars
  <2>1. Recorded' = Recorded
    BY <1>3 DEF telemetryVars, Recorded
  <2> QED
    BY <1>3, <2>1 DEF telemetryVars, LockInv, HasRead, ReadIsCurrent, Coalesces,
                      BeginsInReach, CursorIsContiguous
<1> QED
  BY <1>1, <1>2, <1>3, ReadTakesLock, MeasureKeepsLock, CommitReleasesLock
     DEF Next, PersistStep, vars, telemetryVars

\* A stream that has a history begins at the end of it.
LEMMA LockInit ==
    ASSUME History >= 0, Init
    PROVE  LockInv
<1>1. MaxPosition \in Nat /\ History \in 0..MaxPosition /\ Window \in Nat
  BY IngestionAssumption
<1>2. stream = History /\ stream # None
  BY <1>1, NoneIsNoPosition DEF Init
<1>3. \A p \in Positions : batches[p] # None => p \in 0..History
  BY <1>1 DEF Init, Positions
<1>4. BeginsInReach /\ CursorIsContiguous
  BY <1>1, <1>2, <1>3 DEF BeginsInReach, CursorIsContiguous
<1>5. \A c \in Persisters : ~HasRead(c)
  BY DEF Init, HasRead
<1> QED
  BY <1>2, <1>4, <1>5 DEF LockInv

\* No batch begins right after the cursor of a stream, so that the Gateway is told of
\* all that is stored without a gap, up to a batch that reaches across the end of the
\* window: of a stream that has a row to lock, and of batches of any lengths.
THEOREM CursorKeepsUp ==
    ASSUME History >= 0
    PROVE  Spec => []CursorIsContiguous
<1>1. Init => LockInv
  BY LockInit
<1>2. TelemetryTypeOK /\ StoreInv /\ LockInv /\ [Next]_vars => LockInv'
  BY LockNext DEF StoreInv
<1>3. LockInv => CursorIsContiguous
  BY DEF LockInv
<1> QED
  BY <1>1, <1>2, <1>3, StoreIsConsistent, PTL DEF Spec
=============================================================================
