---------------------------- MODULE AlarmProjection ----------------------------
(***************************************************************************)
(* The alarms of a project: IngestAlarmFact, which projects what Gateways  *)
(* say of an alarm, and AcknowledgeAlarm, the cloud's own word on it, over *)
(* a store that carries out each of them in one step.  The facts of an     *)
(* occurrence are numbered within a generation and arrive in any order,    *)
(* more than once.  An audit record and an outbox event go with each       *)
(* change.                                                                 *)
(***************************************************************************)
EXTENDS Integers

CONSTANTS
    None,
    Occurrences,
    Deliveries,     \* [request, gateway, fact]
    Orders          \* [request, subject, occurrence], to acknowledge

Facts == {d.fact : d \in Deliveries}
Gateways == {d.gateway : d \in Deliveries}

\* content stands for the digest of all there is in a fact.
IsFact(f) == /\ f.occurrence \in Occurrences /\ f.generation \in Nat /\ f.sequence \in Nat
             /\ f.kind \in {"raised", "updated", "cleared"}

AlarmAssumption == /\ \A f \in Facts : IsFact(f)
                   /\ \A k \in Orders : k.occurrence \in Occurrences

\* fact: the one that is shown; raisedAt and clearedAt, which no view has, are left out.
\* gap: a number that is missing before it was seen.
Alarm == [gateway : Gateways, fact : Facts, gap : BOOLEAN,
          acknowledged : BOOLEAN, by : {k.subject : k \in Orders} \cup {None},
          revision : Nat \ {0}]
DeliveryRequests == {d.request : d \in Deliveries}
OrderRequests == {k.request : k \in Orders}

\* None is no fact, no alarm and no order, and nobody.
NoneIsNoRecord ==
    /\ None \notin Facts /\ None \notin Alarm
    /\ None \notin Orders /\ \A k \in Orders : k.subject # None

VARIABLES
    facts,          \* what is stored, by occurrence and identity of the fact
    deliveries,     \* the fact that a request brought
    current,
    orders          \* the order that a request brought

vars == <<facts, deliveries, current, orders>>

TypeOK ==
    /\ facts \subseteq Facts
    /\ deliveries \in [DeliveryRequests -> Facts \cup {None}]
    /\ current \in [Occurrences -> Alarm \cup {None}]
    /\ orders \in [OrderRequests -> Orders \cup {None}]

Init ==
    /\ facts = {}
    /\ deliveries = [r \in DeliveryRequests |-> None]
    /\ current = [o \in Occurrences |-> None]
    /\ orders = [r \in OrderRequests |-> None]

----------------------------------------------------------------------------
(* Projection.                                                             *)

\* A deviation: by the order of arrival.
isAfterAny(f, g) == f.sequence # g.sequence \/ f.generation # g.generation
\* The one generation comes after the other; within it, the numbers count.
isAfter(f, g) == \/ f.generation > g.generation
                 \/ f.generation = g.generation /\ f.sequence > g.sequence

sameOccurrence(f, g) == f.occurrence = g.occurrence
sameFact(f, g) == sameOccurrence(f, g) /\ f.id = g.id
sameSequence(f, g) == sameOccurrence(f, g) /\ f.generation = g.generation
                      /\ f.sequence = g.sequence

Sequences(stored, f) ==
    {g.sequence : g \in {g \in stored : sameOccurrence(f, g) /\ g.generation = f.generation}}

\* isGenerationContiguous, of the generation that is shown.
isContiguous(stored, f) == 0..f.sequence \subseteq Sequences(stored, f)

\* projectAlarmFact: does it leave a number out?
skips(alarm, f) ==
    IF alarm # None /\ alarm.fact.generation = f.generation
    THEN f.sequence # alarm.fact.sequence + 1
    ELSE f.sequence # 0

nextProjection(alarm, d) ==
    IF alarm = None
    THEN [gateway |-> d.gateway, fact |-> d.fact, gap |-> skips(None, d.fact),
          acknowledged |-> FALSE, by |-> None, revision |-> 1]
    ELSE [alarm EXCEPT !.fact = d.fact, !.gap = @ \/ skips(alarm, d.fact),
                       !.revision = @ + 1]

resolveGap(stored, alarm) ==
    IF alarm.gap /\ isContiguous(stored, alarm.fact)
    THEN [alarm EXCEPT !.gap = FALSE, !.revision = @ + 1] ELSE alarm

----------------------------------------------------------------------------
(* Operations of the store.                                                *)

\* A request that is known, whose fact is another one, is a conflict; so is a fact
\* that is known with another content, and a number that is taken.  None of these
\* changes anything.
isNew(d) == /\ deliveries[d.request] = None
            /\ \A f \in facts : ~sameFact(f, d.fact)
isFree(d) == \A f \in facts : ~sameSequence(f, d.fact)

\* An occurrence stays with the Gateway that raised it.
isOfGateway(d) == LET alarm == current[d.fact.occurrence] IN
                  alarm # None => alarm.gateway = d.gateway

Ingest(d) ==
    LET o == d.fact.occurrence
        alarm == current[o]
        stored == facts \cup {d.fact}
        shown == IF alarm # None => isAfter(d.fact, alarm.fact)
                 THEN nextProjection(alarm, d) ELSE alarm
    IN /\ isNew(d) /\ isFree(d) /\ isOfGateway(d)
       /\ facts' = stored
       /\ deliveries' = [deliveries EXCEPT ![d.request] = d.fact]
       /\ current' = [current EXCEPT ![o] = resolveGap(stored, shown)]
       /\ UNCHANGED orders

\* The same fact under another request is remembered, and nothing else.
IngestAgain(d) ==
    /\ deliveries[d.request] = None
    /\ d.fact \in facts
    /\ deliveries' = [deliveries EXCEPT ![d.request] = d.fact]
    /\ UNCHANGED <<facts, current, orders>>

\* The first to acknowledge is the only one who can.  It does so for all that the
\* Gateway will still say of the occurrence.
acknowledgeAlarmProjection(alarm, k) ==
    [alarm EXCEPT !.acknowledged = TRUE, !.by = k.subject,
                  !.revision = IF alarm.acknowledged THEN @ ELSE @ + 1]

Acknowledge(k) ==
    LET alarm == current[k.occurrence] IN
    /\ orders[k.request] = None
    /\ alarm # None
    /\ alarm.by \in {None, k.subject}
    /\ current' = [current EXCEPT ![k.occurrence] = acknowledgeAlarmProjection(alarm, k)]
    /\ orders' = [orders EXCEPT ![k.request] = k]
    /\ UNCHANGED <<facts, deliveries>>

Next == \/ \E d \in Deliveries : Ingest(d) \/ IngestAgain(d)
        \/ \E k \in Orders : Acknowledge(k)

Spec == Init /\ [][Next]_vars

----------------------------------------------------------------------------
\* Whatever the order in which the facts of an occurrence came, and however often,
\* what is shown is the last of them, as the edge numbers them; a gap is shown just
\* as long as one of its generation before it is missing; and it is acknowledged
\* just when somebody did so, whose word no fact takes back.
FactsOf(o) == {f \in facts : f.occurrence = o}
ShowsLatest(o) ==
    LET alarm == current[o] IN
    /\ alarm = None <=> FactsOf(o) = {}
    /\ alarm # None =>
         /\ alarm.fact \in FactsOf(o)
         /\ \A f \in FactsOf(o) :
               /\ f.generation <= alarm.fact.generation
               /\ f.generation = alarm.fact.generation => f.sequence <= alarm.fact.sequence
         /\ alarm.gap <=> ~(0..alarm.fact.sequence \subseteq Sequences(facts, alarm.fact))
AcknowledgedBy(o) ==
    {orders[r].subject :
        r \in {r \in OrderRequests : orders[r] # None /\ orders[r].occurrence = o}}
AlarmFollowsFacts ==
    \A o \in Occurrences :
       /\ ShowsLatest(o)
       /\ current[o] # None =>
            AcknowledgedBy(o) = IF current[o].acknowledged THEN {current[o].by} ELSE {}
=============================================================================
