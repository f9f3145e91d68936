---------------------------- MODULE WorkersProofs ----------------------------
(***************************************************************************)
(* Proofs about the parts that run side by side (Workers).  Each part has  *)
(* an invariant of its own, which holds when the part begins and which     *)
(* every step of the part keeps; a step of another part changes nothing    *)
(* that the invariant speaks of.  The last section puts them together.     *)
(***************************************************************************)
EXTENDS Workers, TLAPS, FiniteSetTheorems

(***************************************************************************)
(* The health workers.                                                     *)
(***************************************************************************)

Lease == [holder : Workers, left : 0..LeaseDuration]
Copies == [Sessions -> {None, "fresh", "stale"}]

\* The order of the rows does not matter for what a sweep may write.
SweepInv ==
    /\ state \in [Sessions -> {"active", "suspect", "closed"}]
    /\ age \in [Sessions -> 0..(Grace + 1)]
    /\ lease \in [Sessions -> Lease \cup {None}]
    /\ sweeps \in [Workers -> Copies]
    /\ Sweep!SweepsStayJustified

\* What is assumed of the constants of the health workers.
LEMMA SweepFacts ==
    Grace \in Nat /\ LeaseDuration \in Nat \ {0} /\ None # "fresh" /\ None # "stale"
BY WorkersAssumption DEF Sweep!SweepAssumption

\* The invariant of the health workers holds when it begins.
LEMMA SweepInit == ASSUME Sweep!Init PROVE SweepInv
<1>1. 0 \in 0..(Grace + 1)
  BY SweepFacts
<1>2. Sweep!Idle \in Copies
  BY DEF Sweep!Idle, Copies
<1> QED
  BY <1>1, <1>2
  DEF Sweep!Init, SweepInv, Sweep!SweepsStayJustified, Sweep!StillLeased, Sweep!Holds

\* A row that is due is open and overdue, and only such a row is leased.
LEMMA SweepBatch == Sweep!Batch \subseteq {s \in Sessions : state[s] # "closed" /\ age[s] > Grace}
BY DEF Sweep!Batch, Sweep!Due

\* Time passes: what is overdue stays overdue.
LEMMA SweepTicks == ASSUME SweepInv, Sweep!Tick PROVE SweepInv'
<1>1. /\ age' = [s \in Sessions |-> IF age[s] <= Grace THEN age[s] + 1 ELSE age[s]]
      /\ lease' = [s \in Sessions |-> IF Sweep!Leased(s)
                                        THEN [lease[s] EXCEPT !.left = lease[s].left - 1]
                                        ELSE lease[s]]
      /\ UNCHANGED <<state, sweeps>>
  BY DEF Sweep!Tick
<1>2. age' \in [Sessions -> 0..(Grace + 1)]
      /\ \A s \in Sessions : age[s] > Grace => age'[s] > Grace
  <2>1. \A s \in Sessions : age[s] \in 0..(Grace + 1)
    BY DEF SweepInv
  <2> QED
    BY <1>1, <2>1, SweepFacts
<1>3. ASSUME NEW s \in Sessions
      PROVE  /\ lease'[s] \in Lease \cup {None}
             /\ lease[s] = None => lease'[s] = None
             /\ lease[s] # None => lease'[s].holder = lease[s].holder
  <2>1. CASE Sweep!Leased(s)
    <3>1. lease[s] \in Lease /\ lease[s].left > 0
      BY <2>1 DEF Sweep!Leased, SweepInv
    <3>2. PICK n \in 0..LeaseDuration : n = lease[s].left - 1
      BY <3>1, SweepFacts DEF Lease
    <3>3. lease'[s] = [lease[s] EXCEPT !.left = n]
      BY <1>1, <2>1, <3>2
    <3> QED
      BY <2>1, <3>1, <3>3 DEF Lease, Sweep!Leased
  <2>2. CASE ~Sweep!Leased(s)
    BY <1>1, <2>2 DEF SweepInv
  <2> QED
    BY <2>1, <2>2
<1>4. lease' \in [Sessions -> Lease \cup {None}]
  BY <1>1, <1>3
<1>5. Sweep!SweepsStayJustified'
  BY <1>1, <1>2, <1>3
  DEF SweepInv, Sweep!SweepsStayJustified, Sweep!StillLeased, Sweep!Holds
<1> QED
  BY <1>1, <1>2, <1>4, <1>5 DEF SweepInv

\* A row that is written, or whose lease is taken, has no lease left.
LEMMA SweepReleases ==
    ASSUME SweepInv, NEW s \in Sessions, NEW w,
           state' \in [Sessions -> {"active", "suspect", "closed"}],
           age' \in [Sessions -> 0..(Grace + 1)],
           \A r \in Sessions : r # s => state'[r] = state[r] /\ age'[r] = age[r],
           lease' = [lease EXCEPT ![s] = None], sweeps' = Sweep!Outdate(s, w)
    PROVE  SweepInv'
<1>1. /\ lease' \in [Sessions -> Lease \cup {None}] /\ lease'[s] = None
      /\ \A r \in Sessions : r # s => lease'[r] = lease[r]
  BY DEF SweepInv
<1>2. ASSUME NEW v \in Workers
      PROVE  /\ sweeps'[v] \in Copies
             /\ \A r \in Sessions : r # s => sweeps'[v][r] = sweeps[v][r]
  BY DEF SweepInv, Sweep!Outdate, Copies
<1>3. sweeps' \in [Workers -> Copies]
  BY <1>2 DEF Sweep!Outdate
<1>4. Sweep!SweepsStayJustified'
  <2> SUFFICES ASSUME NEW r \in Sessions, NEW v \in Workers, Sweep!StillLeased(v, r)'
               PROVE  state'[r] # "closed" /\ age'[r] > Grace
    BY DEF Sweep!SweepsStayJustified
  <2>1. r # s
    BY <1>1 DEF Sweep!StillLeased, Sweep!Holds
  <2>2. Sweep!StillLeased(v, r)
    BY <1>1, <1>2, <2>1 DEF Sweep!StillLeased, Sweep!Holds
  <2> QED
    BY <2>1, <2>2 DEF SweepInv, Sweep!SweepsStayJustified
<1> QED
  BY <1>1, <1>3, <1>4 DEF SweepInv

LEMMA SweepBeats ==
    ASSUME SweepInv, NEW s \in Sessions, Sweep!Heartbeat(s)
    PROVE  SweepInv'
<1>1. /\ state' \in [Sessions -> {"active", "suspect", "closed"}]
      /\ age' \in [Sessions -> 0..(Grace + 1)]
      /\ \A r \in Sessions : r # s => state'[r] = state[r] /\ age'[r] = age[r]
  BY SweepFacts DEF Sweep!Heartbeat, SweepInv
<1> QED
  BY <1>1, SweepReleases DEF Sweep!Heartbeat

\* A worker leases a batch: the rows are due, and nobody else holds them any more.
LEMMA SweepLeases ==
    ASSUME SweepInv, NEW w \in Workers, Sweep!SweepLease(w)
    PROVE  SweepInv'
<1> DEFINE B == Sweep!Batch
           new == [holder |-> w, left |-> LeaseDuration]
           copies == [s \in Sessions |-> IF s \in B THEN "fresh" ELSE None]
<1>1. new \in Lease /\ new.holder = w
  BY SweepFacts DEF Lease
<1>2. /\ lease' = [s \in Sessions |-> IF s \in B THEN new ELSE lease[s]]
      /\ sweeps' = [sweeps EXCEPT ![w] = copies]
      /\ UNCHANGED <<state, age>>
  BY DEF Sweep!SweepLease
<1>3. copies \in Copies /\ \A s \in Sessions : copies[s] = "fresh" => s \in B
  BY SweepFacts DEF Copies
<1>4. \A s \in B : state[s] # "closed" /\ age[s] > Grace
  BY SweepBatch
<1> HIDE DEF B, new, copies
<1>5. lease' \in [Sessions -> Lease \cup {None}] /\ sweeps' \in [Workers -> Copies]
  BY <1>1, <1>2, <1>3 DEF SweepInv
<1>6. Sweep!SweepsStayJustified'
  <2> SUFFICES ASSUME NEW s \in Sessions, NEW v \in Workers, Sweep!StillLeased(v, s)'
               PROVE  state[s] # "closed" /\ age[s] > Grace
    BY <1>2 DEF Sweep!SweepsStayJustified
  <2>1. CASE s \in B
    BY <1>4, <2>1
  <2>2. CASE s \notin B
    <3>1. lease'[s] = lease[s]
      BY <1>2, <2>2
    <3>2. v # w
      BY <1>2, <1>3, <2>2 DEF Sweep!StillLeased, SweepInv
    <3>3. sweeps'[v] = sweeps[v]
      BY <1>2, <3>2 DEF SweepInv
    <3>4. Sweep!StillLeased(v, s)
      BY <3>1, <3>3 DEF Sweep!StillLeased, Sweep!Holds
    <3> QED
      BY <3>4 DEF SweepInv, Sweep!SweepsStayJustified
  <2> QED
    BY <2>1, <2>2
<1> QED
  BY <1>2, <1>5, <1>6 DEF SweepInv

LEMMA SweepCompletes ==
    ASSUME SweepInv, NEW w \in Workers, Sweep!CompleteOne(w)
    PROVE  SweepInv'
<1>1. ASSUME NEW s \in Sessions, Sweep!Suspect(w, s) \/ Sweep!TimeOut(w, s) PROVE SweepInv'
  <2>1. /\ state' \in [Sessions -> {"active", "suspect", "closed"}]
        /\ age' \in [Sessions -> 0..(Grace + 1)]
        /\ \A r \in Sessions : r # s => state'[r] = state[r] /\ age'[r] = age[r]
        /\ lease' = [lease EXCEPT ![s] = None] /\ sweeps' = Sweep!Outdate(s, w)
    BY <1>1, SweepFacts DEF Sweep!Suspect, Sweep!TimeOut, SweepInv
  <2> QED
    BY <2>1, SweepReleases
<1>2. ASSUME NEW s \in Sessions, Sweep!LeaseLost(w, s) PROVE SweepInv'
  <2>1. sweeps' = [sweeps EXCEPT ![w] = [sweeps[w] EXCEPT ![s] = None]]
        /\ UNCHANGED <<state, age, lease>>
    BY <1>2 DEF Sweep!LeaseLost
  <2>2. sweeps' \in [Workers -> Copies]
        /\ \A v \in Workers, r \in Sessions : sweeps'[v][r] \in {sweeps[v][r], None}
    BY <2>1 DEF SweepInv, Copies
  <2> QED
    BY <2>1, <2>2, SweepFacts
    DEF SweepInv, Sweep!SweepsStayJustified, Sweep!StillLeased, Sweep!Holds
<1> QED
  BY <1>1, <1>2 DEF Sweep!CompleteOne

\* Every step of the health workers keeps its invariant.
LEMMA SweepNext == ASSUME SweepInv, Sweep!Next PROVE SweepInv'
<1>1. CASE Sweep!Tick
  BY <1>1, SweepTicks
<1>2. ASSUME NEW s \in Sessions, Sweep!Heartbeat(s) \/ Sweep!FallSilent(s) PROVE SweepInv'
  <2>1. CASE Sweep!Heartbeat(s)
    BY <2>1, SweepBeats
  <2>2. CASE Sweep!FallSilent(s)
    BY <2>2
    DEF Sweep!FallSilent, SweepInv, Sweep!SweepsStayJustified, Sweep!StillLeased, Sweep!Holds
  <2> QED
    BY <1>2, <2>1, <2>2
<1>3. ASSUME NEW w \in Workers, Sweep!SweepFail(w) PROVE SweepInv'
  <2>1. sweeps' = [sweeps EXCEPT ![w] = Sweep!Idle] /\ UNCHANGED <<state, age, lease>>
    BY <1>3 DEF Sweep!SweepFail
  <2>2. sweeps' \in [Workers -> Copies]
        /\ \A v \in Workers, r \in Sessions : sweeps'[v][r] \in {sweeps[v][r], None}
    BY <2>1 DEF SweepInv, Copies, Sweep!Idle
  <2> QED
    BY <2>1, <2>2, SweepFacts
    DEF SweepInv, Sweep!SweepsStayJustified, Sweep!StillLeased, Sweep!Holds
<1>4. ASSUME NEW w \in Workers, Sweep!Close(w) \/ Sweep!Closed(w) PROVE SweepInv'
  BY <1>4
  DEF Sweep!Close, Sweep!Closed, SweepInv, Sweep!SweepsStayJustified, Sweep!StillLeased,
      Sweep!Holds
<1> QED
  BY <1>1, <1>2, <1>3, <1>4, SweepLeases, SweepCompletes DEF Sweep!Next

(***************************************************************************)
(* The delivery of acknowledgements.                                       *)
(***************************************************************************)

\* A worker that has published a row, and still holds it, published it after it was last
\* asked for: to ask takes the row from its worker.
PublishedStands ==
    \A w \in Workers, a \in Acks :
        (/\ deliveries[w].reply = "published" /\ deliveries[w].current = a
         /\ outbox[a] # None /\ Delivery!Holds(w, a)) => a \notin owed

\* There is a row for everything a worker is busy with: rows are not removed.
ClaimsStand ==
    \A w \in Workers, a \in Acks :
        a \in deliveries[w].rest \/ a = deliveries[w].current => outbox[a] # None

DeliveryInv ==
    /\ outbox \in [Acks -> Delivery!AckRow \cup {None}]
    /\ deliveries \in [Workers -> Delivery!Delivery]
    /\ ClaimsStand /\ PublishedStands
    /\ Delivery!PublishedMeansAnswered

\* What is assumed of the constants of the delivery.
LEMMA DeliveryFacts ==
    /\ RetryTicks \in Nat /\ LeaseTicks \in Nat \ {0}
    /\ None \notin Acks /\ None \notin Workers /\ None \notin Delivery!AckRow
BY WorkersAssumption DEF Delivery!OutboxAssumption, Delivery!DeliveryAssumption

\* The invariant of the delivery holds when it begins.
LEMMA DeliveryInit == ASSUME Delivery!Init PROVE DeliveryInv
BY DeliveryFacts
DEF Delivery!Init, Delivery!OutboxInit, DeliveryInv, ClaimsStand, PublishedStands,
    Delivery!IdleWorker, Delivery!Delivery, Delivery!PublishedMeansAnswered, Delivery!Stored

\* What a row keeps when its times change.
SameRow(a) ==
    /\ outbox[a] # None /\ outbox'[a] # None
    /\ outbox'[a].leasedBy = outbox[a].leasedBy /\ outbox'[a].published = outbox[a].published

\* A row that is not asked for is left alone, or unleased, or leased to a worker that has
\* not published it; one that is marked was published.
LEMMA DeliveryKeeps ==
    ASSUME DeliveryInv, ClaimsStand',
           outbox' \in [Acks -> Delivery!AckRow \cup {None}],
           deliveries' \in [Workers -> Delivery!Delivery],
           owed' \subseteq owed,
           \A a \in Acks :
              \/ outbox'[a] = None \/ SameRow(a)
              \/ /\ outbox'[a].published = FALSE
                 /\ \/ outbox'[a].leasedBy = None
                    \/ \E v \in Workers : outbox'[a].leasedBy = v
                                          /\ deliveries'[v].current \notin Acks
              \/ outbox'[a].leasedBy = None /\ a \notin owed,
           \A w \in Workers : \/ deliveries'[w] = deliveries[w]
                              \/ deliveries'[w].current \notin Acks
                              \/ deliveries'[w].reply # "published"
                              \/ deliveries'[w].current \notin owed'
    PROVE  DeliveryInv'
<1>1. PublishedStands'
  <2> SUFFICES ASSUME NEW w \in Workers, NEW a \in Acks,
                      deliveries'[w].reply = "published", deliveries'[w].current = a,
                      outbox'[a] # None, outbox'[a].leasedBy = w, ~outbox'[a].published,
                      a \in owed'
               PROVE  FALSE
    BY DEF PublishedStands, Delivery!Holds
  <2>1. deliveries'[w] = deliveries[w]
    OBVIOUS
  <2>2. SameRow(a)
    BY DeliveryFacts
  <2> QED
    BY <2>1, <2>2 DEF SameRow, DeliveryInv, PublishedStands, Delivery!Holds
<1>2. Delivery!PublishedMeansAnswered'
  <2> SUFFICES ASSUME NEW a \in Acks, outbox'[a] # None, outbox'[a].published, a \in owed'
               PROVE  FALSE
    BY DEF Delivery!PublishedMeansAnswered, Delivery!Stored
  <2>1. SameRow(a)
    OBVIOUS
  <2> QED
    BY <2>1 DEF SameRow, DeliveryInv, Delivery!PublishedMeansAnswered, Delivery!Stored
<1> QED
  BY <1>1, <1>2 DEF DeliveryInv

\* What is asked for is owed, and its row is held by nobody.
LEMMA DeliveryAsks ==
    ASSUME DeliveryInv, NEW a \in Acks, Delivery!Request(a)
    PROVE  DeliveryInv'
<1>1. /\ owed' = owed \cup {a} /\ UNCHANGED deliveries
      /\ outbox' = [outbox EXCEPT ![a] = Delivery!NewRow]
  BY DEF Delivery!Request, Delivery!upsert, Delivery!Renewed
<1>2. Delivery!NewRow \in Delivery!AckRow
      /\ Delivery!NewRow.leasedBy = None /\ Delivery!NewRow.published = FALSE
  BY DeliveryFacts DEF Delivery!NewRow, Delivery!AckRow
<1>3. /\ outbox' \in [Acks -> Delivery!AckRow \cup {None}] /\ outbox'[a] = Delivery!NewRow
      /\ \A b \in Acks : b # a => outbox'[b] = outbox[b]
  BY <1>1, <1>2 DEF DeliveryInv
<1>4. PublishedStands'
  BY <1>1, <1>2, <1>3, DeliveryFacts DEF DeliveryInv, PublishedStands, Delivery!Holds
<1>5. Delivery!PublishedMeansAnswered'
  BY <1>1, <1>2, <1>3 DEF DeliveryInv, Delivery!PublishedMeansAnswered, Delivery!Stored
<1>6. ClaimsStand'
  BY <1>1, <1>2, <1>3, DeliveryFacts DEF DeliveryInv, ClaimsStand
<1> QED
  BY <1>1, <1>3, <1>4, <1>5, <1>6 DEF DeliveryInv

LEMMA DeliveryClaims ==
    ASSUME DeliveryInv, NEW w \in Workers, Delivery!claimPending(w)
    PROVE  DeliveryInv'
<1> DEFINE C == Delivery!Claims
<1>1. /\ outbox' = [a \in Acks |->
                      IF a \in C THEN [outbox[a] EXCEPT !.leasedBy = w, !.leaseLeft = LeaseTicks]
                                 ELSE outbox[a]]
      /\ deliveries' = [deliveries EXCEPT ![w] = [Delivery!IdleWorker EXCEPT !.rest = C]]
      /\ owed' = owed
  BY DEF Delivery!claimPending, Delivery!Idle
<1>2. \A a \in C : a \in Acks /\ outbox[a] # None /\ ~outbox[a].published
  BY DEF Delivery!Claims, Delivery!Claimable, Delivery!Pending, Delivery!Stored
<1> HIDE DEF C
<1>3. [Delivery!IdleWorker EXCEPT !.rest = C] = [rest |-> C, current |-> None, reply |-> None]
  BY DEF Delivery!IdleWorker
<1>4. deliveries' \in [Workers -> Delivery!Delivery]
  BY <1>1, <1>2, <1>3 DEF DeliveryInv, Delivery!Delivery
<1>5. deliveries'[w].current = None
      /\ \A v \in Workers : v # w => deliveries'[v] = deliveries[v]
  BY <1>1, <1>3 DEF DeliveryInv
<1>6. ASSUME NEW a \in Acks
      PROVE  /\ outbox'[a] \in Delivery!AckRow \cup {None}
             /\ a \notin C => outbox'[a] = outbox[a]
             /\ a \in C => outbox'[a] # None /\ outbox'[a].leasedBy = w
                            /\ outbox'[a].published = FALSE
  <2>1. CASE a \in C
    <3>1. outbox[a] \in Delivery!AckRow
      BY <1>2, <2>1 DEF DeliveryInv
    <3>2. outbox'[a] = [outbox[a] EXCEPT !.leasedBy = w, !.leaseLeft = LeaseTicks]
      BY <1>1, <2>1
    <3>3. LeaseTicks \in 0..LeaseTicks
      BY DeliveryFacts
    <3>4. outbox'[a] \in Delivery!AckRow /\ outbox'[a].leasedBy = w
          /\ outbox'[a].published = outbox[a].published
      BY <3>1, <3>2, <3>3 DEF Delivery!AckRow
    <3>5. outbox[a].published \in BOOLEAN
      BY <3>1 DEF Delivery!AckRow
    <3> QED
      BY <1>2, <2>1, <3>4, <3>5, DeliveryFacts
  <2>2. CASE a \notin C
    BY <1>1, <2>2 DEF DeliveryInv
  <2> QED
    BY <2>1, <2>2
<1>7. outbox' \in [Acks -> Delivery!AckRow \cup {None}]
  BY <1>1, <1>6
<1>8. \A a \in Acks :
        \/ outbox'[a] = None \/ SameRow(a)
        \/ outbox'[a].published = FALSE /\ outbox'[a].leasedBy = w
  BY <1>6 DEF SameRow
<1>9. ClaimsStand'
  <2>1. deliveries'[w].rest = C
    BY <1>1, <1>3 DEF DeliveryInv
  <2>2. \A a \in Acks : outbox[a] # None => outbox'[a] # None
    BY <1>6
  <2>3. ASSUME NEW v \in Workers, NEW a \in Acks,
               a \in deliveries'[v].rest \/ a = deliveries'[v].current
        PROVE  outbox'[a] # None
    <3>1. CASE v = w
      BY <1>5, <1>6, <2>1, <2>3, <3>1, DeliveryFacts
    <3>2. CASE v # w
      BY <1>5, <2>2, <2>3, <3>2 DEF DeliveryInv, ClaimsStand
    <3> QED
      BY <3>1, <3>2
  <2> QED
    BY <2>3 DEF ClaimsStand
<1> QED
  BY <1>1, <1>4, <1>5, <1>7, <1>8, <1>9, DeliveryFacts, DeliveryKeeps

LEMMA DeliveryPublishes ==
    ASSUME DeliveryInv, NEW w \in Workers,
           Delivery!Publish(w) \/ Delivery!PublisherUnavailable(w)
    PROVE  DeliveryInv'
<1>1. PICK a \in deliveries[w].rest, r \in {"published", "unavailable"} :
        /\ deliveries' = [deliveries EXCEPT ![w] =
                            [rest |-> deliveries[w].rest \ {a}, current |-> a, reply |-> r]]
        /\ r = "published" => owed' = owed \ {a}
        /\ r = "unavailable" => owed' = owed
        /\ UNCHANGED outbox
  BY DEF Delivery!Publish, Delivery!PublisherUnavailable
<1>2. deliveries[w].rest \subseteq Acks
  BY DEF DeliveryInv, Delivery!Delivery
<1>3. [rest |-> deliveries[w].rest \ {a}, current |-> a, reply |-> r] \in Delivery!Delivery
  BY <1>2 DEF Delivery!Delivery
<1>4. /\ deliveries' \in [Workers -> Delivery!Delivery]
      /\ deliveries'[w].current = a /\ deliveries'[w].reply = r
      /\ \A v \in Workers : v # w => deliveries'[v] = deliveries[v]
  BY <1>1, <1>3 DEF DeliveryInv
<1>5. owed' \subseteq owed /\ (r = "published" => a \notin owed')
  BY <1>1
<1>6. outbox' \in [Acks -> Delivery!AckRow \cup {None}]
      /\ \A b \in Acks : outbox'[b] = None \/ SameRow(b)
  BY <1>1 DEF DeliveryInv, SameRow
<1>7. ClaimsStand'
  <2>1. deliveries'[w].rest \subseteq deliveries[w].rest
    BY <1>1, <1>3 DEF DeliveryInv
  <2> QED
    BY <1>1, <1>4, <2>1 DEF DeliveryInv, ClaimsStand
<1> QED
  BY <1>4, <1>5, <1>6, <1>7, DeliveryKeeps

\* A worker forgets a row, or all of them; no row is removed.
LEMMA DeliveryForgets ==
    ASSUME DeliveryInv, NEW w \in Workers, NEW d \in Delivery!Delivery,
           deliveries' = [deliveries EXCEPT ![w] = d], d.rest \subseteq deliveries[w].rest,
           d.current = None, \A a \in Acks : outbox[a] # None => outbox'[a] # None
    PROVE  /\ deliveries' \in [Workers -> Delivery!Delivery] /\ deliveries'[w] = d
           /\ \A v \in Workers : v # w => deliveries'[v] = deliveries[v]
           /\ ClaimsStand'
<1>1. /\ deliveries' \in [Workers -> Delivery!Delivery] /\ deliveries'[w] = d
      /\ \A v \in Workers : v # w => deliveries'[v] = deliveries[v]
  BY DEF DeliveryInv
<1>2. ClaimsStand'
  BY <1>1, DeliveryFacts DEF DeliveryInv, ClaimsStand
<1> QED
  BY <1>1, <1>2

\* A row is marked only by the worker that holds it and published it, and released only
\* by the one that holds it: in both cases nobody holds it afterwards.
LEMMA DeliverySettles ==
    ASSUME DeliveryInv, NEW w \in Workers,
           Delivery!markPublished(w) \/ Delivery!releaseForRetry(w)
    PROVE  DeliveryInv'
<1> DEFINE a == deliveries[w].current
<1>1. PICK d \in Delivery!Delivery :
        /\ deliveries' = [deliveries EXCEPT ![w] = d]
        /\ d.rest = deliveries[w].rest /\ d.current = None
  <2>1. PICK r \in Delivery!Delivery : r = deliveries[w]
    BY DEF DeliveryInv
  <2>2. deliveries' = [deliveries EXCEPT ![w] = [r EXCEPT !.current = None, !.reply = None]]
    BY <2>1 DEF Delivery!markPublished, Delivery!releaseForRetry, Delivery!Settled
  <2>3. PICK d : d = [r EXCEPT !.current = None, !.reply = None]
    OBVIOUS
  <2>4. d \in Delivery!Delivery /\ d.rest = r.rest /\ d.current = None
    BY <2>3 DEF Delivery!Delivery
  <2> QED
    BY <2>1, <2>2, <2>3, <2>4
<1>2. owed' = owed
  BY DEF Delivery!markPublished, Delivery!releaseForRetry
<1>3. /\ outbox' \in [Acks -> Delivery!AckRow \cup {None}]
      /\ \A b \in Acks : outbox[b] # None => outbox'[b] # None
      /\ \A b \in Acks : \/ outbox'[b] = None \/ SameRow(b)
                         \/ outbox'[b].published = FALSE /\ outbox'[b].leasedBy = None
                         \/ outbox'[b].leasedBy = None /\ b \notin owed
  <2>1. CASE a \in Acks
    <3>1. outbox[a] \in Delivery!AckRow /\ outbox[a] # None
      BY <2>1 DEF DeliveryInv, ClaimsStand
    <3>2. PICK e \in Delivery!AckRow :
            outbox' = [outbox EXCEPT ![a] = e] /\ e.leasedBy = None
            /\ (e.published => a \notin owed)
      <4>1. PICK r \in Delivery!AckRow : r = outbox[a]
        BY <3>1
      <4>2. 0 \in 0..LeaseTicks /\ RetryTicks \in 0..RetryTicks
        BY DeliveryFacts
      <4>3. CASE Delivery!markPublished(w)
        <5>1. a \notin owed
          BY <2>1, <3>1, <4>3
          DEF Delivery!markPublished, Delivery!CanMark, DeliveryInv, PublishedStands
        <5>2. PICK e : e = [r EXCEPT !.published = TRUE, !.leasedBy = None, !.leaseLeft = 0]
          OBVIOUS
        <5>3. outbox' = [outbox EXCEPT ![a] = e]
          BY <4>1, <4>3, <5>2 DEF Delivery!markPublished
        <5>4. e \in Delivery!AckRow /\ e.leasedBy = None
          BY <4>2, <5>2 DEF Delivery!AckRow
        <5> HIDE DEF a
        <5> QED
          BY <5>1, <5>3, <5>4
      <4>4. CASE Delivery!releaseForRetry(w)
        <5>1. r.published = FALSE
          BY <3>1, <4>1, <4>4 DEF Delivery!releaseForRetry, Delivery!Holds, Delivery!AckRow
        <5>2. PICK e : e = [r EXCEPT !.wait = RetryTicks, !.leasedBy = None, !.leaseLeft = 0]
          OBVIOUS
        <5>3. outbox' = [outbox EXCEPT ![a] = e]
          BY <4>1, <4>4, <5>2 DEF Delivery!releaseForRetry
        <5>4. e \in Delivery!AckRow /\ e.leasedBy = None /\ e.published = r.published
          BY <4>2, <5>2 DEF Delivery!AckRow
        <5> HIDE DEF a
        <5> QED
          BY <5>1, <5>3, <5>4
      <4> QED
        BY <4>3, <4>4
    <3>3. e.leasedBy = None /\ (e.published => a \notin owed) /\ e.published \in BOOLEAN
          /\ e # None
      BY <3>1, <3>2, DeliveryFacts DEF Delivery!AckRow
    <3> HIDE DEF a
    <3>4. /\ outbox' \in [Acks -> Delivery!AckRow \cup {None}] /\ outbox'[a] = e
          /\ \A b \in Acks : b # a => outbox'[b] = outbox[b]
      BY <2>1, <3>2 DEF DeliveryInv
    <3> QED
      BY <3>3, <3>4 DEF SameRow
  <2>2. CASE a \notin Acks
    <3>1. PICK e : outbox' = [outbox EXCEPT ![a] = e]
      BY DEF Delivery!markPublished, Delivery!releaseForRetry
    <3> HIDE DEF a
    <3>2. outbox' \in [Acks -> Delivery!AckRow \cup {None}]
          /\ \A b \in Acks : outbox'[b] = outbox[b]
      BY <2>2, <3>1 DEF DeliveryInv
    <3> QED
      BY <3>2 DEF SameRow
  <2> QED
    BY <2>1, <2>2
<1>4. /\ deliveries' \in [Workers -> Delivery!Delivery] /\ deliveries'[w] = d
      /\ \A v \in Workers : v # w => deliveries'[v] = deliveries[v]
      /\ ClaimsStand'
  BY <1>1, <1>3, DeliveryForgets
<1> QED
  BY <1>1, <1>2, <1>3, <1>4, DeliveryFacts, DeliveryKeeps

\* A worker ends its execution, or dies; the rest of its batch stays leased.
LEMMA DeliveryEnds ==
    ASSUME DeliveryInv, NEW w \in Workers,
           Delivery!LeaseConflict(w) \/ Delivery!DeliveryFails(w)
    PROVE  DeliveryInv'
<1>1. deliveries' = [deliveries EXCEPT ![w] = Delivery!IdleWorker] /\ UNCHANGED <<outbox, owed>>
  BY DEF Delivery!LeaseConflict, Delivery!DeliveryFails
<1>2. PICK d : d = Delivery!IdleWorker /\ d \in Delivery!Delivery
               /\ d.rest \subseteq deliveries[w].rest /\ d.current = None
  <2>1. /\ Delivery!IdleWorker \in Delivery!Delivery
        /\ Delivery!IdleWorker.rest = {} /\ Delivery!IdleWorker.current = None
    BY DEF Delivery!IdleWorker, Delivery!Delivery
  <2> QED
    BY <2>1
<1>3. /\ deliveries' \in [Workers -> Delivery!Delivery] /\ deliveries'[w] = d
      /\ \A v \in Workers : v # w => deliveries'[v] = deliveries[v]
      /\ ClaimsStand'
  BY <1>1, <1>2, DeliveryForgets
<1>4. outbox' \in [Acks -> Delivery!AckRow \cup {None}]
      /\ \A a \in Acks : outbox'[a] = None \/ SameRow(a)
  BY <1>1 DEF DeliveryInv, SameRow
<1> QED
  BY <1>1, <1>2, <1>3, <1>4, DeliveryFacts, DeliveryKeeps

\* Time passes: a row keeps its worker, though the lease may run out.
LEMMA DeliveryTicks ==
    ASSUME DeliveryInv, Delivery!OutboxTick
    PROVE  DeliveryInv'
<1>1. UNCHANGED <<deliveries, owed>>
  BY DEF Delivery!OutboxTick
<1>2. ASSUME NEW a \in Acks
      PROVE  /\ outbox'[a] \in Delivery!AckRow \cup {None}
             /\ outbox'[a] = None <=> outbox[a] = None
             /\ outbox'[a] = None \/ SameRow(a)
  <2>1. CASE outbox[a] = None
    BY <2>1 DEF Delivery!OutboxTick, Delivery!Stored
  <2>2. CASE outbox[a] # None
    <3>1. outbox[a] \in Delivery!AckRow
      BY <2>2 DEF DeliveryInv
    <3>2. PICK l \in 0..LeaseTicks : l = IF outbox[a].leaseLeft > 0
                                         THEN outbox[a].leaseLeft - 1 ELSE 0
      BY <3>1, DeliveryFacts DEF Delivery!AckRow
    <3>3. PICK n \in 0..RetryTicks : n = IF outbox[a].wait > 0 THEN outbox[a].wait - 1 ELSE 0
      BY <3>1, DeliveryFacts DEF Delivery!AckRow
    <3>4. outbox'[a] = [outbox[a] EXCEPT !.leaseLeft = l, !.wait = n]
      BY <2>2, <3>2, <3>3 DEF Delivery!OutboxTick, Delivery!Stored
    <3>5. outbox'[a] \in Delivery!AckRow
          /\ outbox'[a].leasedBy = outbox[a].leasedBy
          /\ outbox'[a].published = outbox[a].published
      BY <3>1, <3>4 DEF Delivery!AckRow
    <3> QED
      BY <2>2, <3>5, DeliveryFacts DEF SameRow
  <2> QED
    BY <2>1, <2>2
<1>3. outbox' \in [Acks -> Delivery!AckRow \cup {None}]
  BY <1>2 DEF Delivery!OutboxTick
<1>4. ClaimsStand' /\ deliveries' \in [Workers -> Delivery!Delivery]
  BY <1>1, <1>2 DEF DeliveryInv, ClaimsStand
<1> QED
  BY <1>1, <1>2, <1>3, <1>4, DeliveryKeeps

\* Every step of the delivery keeps its invariant.
LEMMA DeliveryNext == ASSUME DeliveryInv, Delivery!Next PROVE DeliveryInv'
<1>1. ASSUME NEW w \in Workers,
             Delivery!DeliveryStep(w) \/ Delivery!PublisherUnavailable(w)
             \/ Delivery!DeliveryFails(w)
      PROVE  DeliveryInv'
  BY <1>1, DeliveryClaims, DeliveryPublishes, DeliverySettles, DeliveryEnds
  DEF Delivery!DeliveryStep
<1> QED
  BY <1>1, DeliveryAsks, DeliveryTicks DEF Delivery!Next, Delivery!OutboxNext

(***************************************************************************)
(* Transactions over the session rows.                                     *)
(***************************************************************************)

\* Who holds the lock of the head, by the statement it is at: a transaction that has
\* passed its lock statement, or a completer that is about to clear the head.
HoldsHead(t) ==
    \/ t \in Openers /\ pc[t] \in {"fence", "insert"}
    \/ t \in Recorders /\ pc[t] \in {"lock-row", "commit"}
    \/ t \in Completers /\ pc[t] = "commit" /\ copy[t].write.state = "closed"
                        /\ current = copy[t].id

\* Who holds the lock of a session row.
HoldsRow(t, s) ==
    /\ copy[t].id = s
    /\ \/ t \in Openers /\ pc[t] = "insert"
       \/ t \in Beaters /\ pc[t] = "commit"
       \/ t \in Completers /\ pc[t] \in {"clear-head", "commit"}
       \/ t \in Recorders /\ pc[t] = "commit"

HeadLocked == \A t \in Rows!Transactions : headLock = t <=> HoldsHead(t)
RowsLocked ==
    \A t \in Rows!Transactions, s \in Sessions : rowLock[s] = t <=> HoldsRow(t, s)

\* A copy is of a live row, and the row went on from there: if its revision is still
\* the one that was read, so is its state.
CopyOfRow(c) ==
    /\ c.id \in Sessions /\ row[c.id] # None
    /\ c.read # None /\ c.read.state # "closed"
    /\ c.read.revision <= row[c.id].revision
    /\ c.read.revision = row[c.id].revision => c.read.state = row[c.id].state
    /\ c.write # None /\ c.write.revision = c.read.revision + 1

\* The row that was read is locked and is still as it was read.
Unmoved(c) == c.read.revision = row[c.id].revision

OpenerIsAt(t) ==
    /\ pc[t] \in {"start", "fence", "insert"} \cup Rows!Ends
    /\ pc[t] \in {"start", "fence"} => copy[t].id = None
    /\ pc[t] = "insert" =>
         /\ current = copy[t].id
         /\ current # None =>
              CopyOfRow(copy[t]) /\ Unmoved(copy[t]) /\ copy[t].write.state = "closed"

BeaterIsAt(t) ==
    /\ pc[t] \in {"start", "update-row", "commit"} \cup Rows!Ends
    /\ pc[t] \in {"update-row", "commit"} =>
         CopyOfRow(copy[t]) /\ copy[t].write.state = "active"
    /\ pc[t] = "commit" => Unmoved(copy[t])

CompleterIsAt(t) ==
    /\ pc[t] \in {"start", "update-row", "clear-head", "commit"} \cup Rows!Ends
    /\ pc[t] \in {"update-row", "clear-head", "commit"} => CopyOfRow(copy[t])
    /\ pc[t] \in {"clear-head", "commit"} => Unmoved(copy[t])
    /\ pc[t] = "clear-head" => copy[t].write.state = "closed"

RecorderIsAt(t) ==
    /\ pc[t] \in {"start", "lock-row", "commit"} \cup Rows!Ends
    /\ pc[t] \in {"lock-row", "commit"} => copy[t].id \in Sessions
    /\ pc[t] = "commit" => copy[t].read # None /\ copy[t].read.state = row[copy[t].id].state
                           /\ row[copy[t].id] # None

TransactionsAreAt ==
    /\ \A t \in Openers : OpenerIsAt(t)
    /\ \A t \in Beaters : BeaterIsAt(t)
    /\ \A t \in Completers : CompleterIsAt(t)
    /\ \A t \in Recorders : RecorderIsAt(t)

RowsInv ==
    /\ Rows!TypeOK /\ HeadLocked /\ RowsLocked /\ TransactionsAreAt
    /\ Rows!CommittedOneLive

IsAt(t) ==
    /\ t \in Openers => OpenerIsAt(t)
    /\ t \in Beaters => BeaterIsAt(t)
    /\ t \in Completers => CompleterIsAt(t)
    /\ t \in Recorders => RecorderIsAt(t)

\* The kinds of transactions are apart, and None is none of them.
LEMMA RowsKinds ==
    /\ None \notin Sessions /\ None \notin Rows!Transactions /\ None \notin Rows!Row
    /\ \A t \in Rows!Transactions :
         /\ t \in Openers \/ t \in Beaters \/ t \in Completers \/ t \in Recorders
         /\ t \in Openers => t \notin Beaters /\ t \notin Completers /\ t \notin Recorders
         /\ t \in Beaters => t \notin Openers /\ t \notin Completers /\ t \notin Recorders
         /\ t \in Completers => t \notin Openers /\ t \notin Beaters /\ t \notin Recorders
         /\ t \in Recorders => t \notin Openers /\ t \notin Beaters /\ t \notin Completers
    /\ \A t : t \in Openers \/ t \in Beaters \/ t \in Completers \/ t \in Recorders
                => t \in Rows!Transactions
BY WorkersAssumption DEF Rows!RowLocksAssumption, Rows!NoneIsNoRecord, Rows!Transactions

\* The invariant holds where no transaction has begun.
LEMMA RowsInit == ASSUME Rows!Init PROVE RowsInv
<1>1. Rows!TypeOK
  BY RowsKinds DEF Rows!Init, Rows!TypeOK, Rows!NoCopy, Rows!Copy, Rows!Statements
<1>2. HeadLocked /\ RowsLocked
  BY RowsKinds DEF Rows!Init, HeadLocked, RowsLocked, HoldsHead, HoldsRow
<1>3. TransactionsAreAt
  BY RowsKinds
  DEF Rows!Init, TransactionsAreAt, OpenerIsAt, BeaterIsAt, CompleterIsAt, RecorderIsAt,
      Rows!NoCopy
<1>4. Rows!CommittedOneLive
  BY DEF Rows!Init, Rows!CommittedOneLive, Rows!OneLive, Rows!NothingThrown, Rows!Live,
         Rows!Exists
<1> QED
  BY <1>1, <1>2, <1>3, <1>4 DEF RowsInv

\* The rows of a Gateway that are live are the one its head names.
LEMMA RowsLive ==
    ASSUME RowsInv
    PROVE  \A s \in Sessions : row[s] # None /\ row[s].state # "closed" <=> s = current
BY RowsKinds DEF RowsInv, Rows!CommittedOneLive, Rows!OneLive, Rows!Live, Rows!Exists

\* What a fence writes.
LEMMA RowClosed ==
    ASSUME NEW r \in Rows!Row
    PROVE  \E w \in Rows!Row : /\ w = [r EXCEPT !.state = "closed", !.revision = @ + 1]
                               /\ w.state = "closed" /\ w.revision = r.revision + 1
<1>1. PICK n \in Nat : n = r.revision + 1
  BY DEF Rows!Row
<1>2. [r EXCEPT !.state = "closed", !.revision = @ + 1]
        = [r EXCEPT !.state = "closed", !.revision = n]
  BY <1>1
<1>3. [r EXCEPT !.state = "closed", !.revision = n] \in Rows!Row
  BY DEF Rows!Row
<1> QED
  BY <1>1, <1>2, <1>3 DEF Rows!Row

\* The invariant is kept by a statement that leaves the other transactions where they
\* are, with their locks: it writes no row that another one has locked, and moves the
\* head only if no other one has locked it.
LEMMA RowsStep ==
    ASSUME RowsInv, NEW t \in Rows!Transactions, Rows!TypeOK',
           \A u \in Rows!Transactions : u # t =>
             /\ pc'[u] = pc[u] /\ copy'[u] = copy[u]
             /\ headLock' = u <=> headLock = u
             /\ \A s \in Sessions : rowLock'[s] = u <=> rowLock[s] = u
             /\ HoldsHead(u) => current' = current
             /\ HoldsHead(u)' => HoldsHead(u)
             /\ \A s \in Sessions : HoldsRow(u, s) => row'[s] = row[s],
           \A s \in Sessions : row[s] # None =>
             /\ row'[s] # None /\ row[s].revision <= row'[s].revision
             /\ row[s].revision = row'[s].revision => row[s].state = row'[s].state,
           pc'[t] # "threw", IsAt(t)',
           headLock' = t <=> HoldsHead(t)',
           \A s \in Sessions : rowLock'[s] = t <=> HoldsRow(t, s)',
           Rows!OneLive'
    PROVE  RowsInv'
<1>1. HeadLocked'
  BY DEF RowsInv, HeadLocked, HoldsHead
<1>2. RowsLocked'
  BY DEF RowsInv, RowsLocked, HoldsRow
<1>3. \A u \in Rows!Transactions : u # t /\ CopyOfRow(copy[u]) => CopyOfRow(copy[u])'
  <2> SUFFICES ASSUME NEW u \in Rows!Transactions, u # t, CopyOfRow(copy[u])
               PROVE  CopyOfRow(copy[u])'
    OBVIOUS
  <2> DEFINE s == copy[u].id
  <2>1. s \in Sessions /\ row[s] # None /\ row'[s] # None /\ copy'[u] = copy[u]
    BY DEF CopyOfRow
  <2>2. /\ copy[u].read.revision \in Nat /\ row[s].revision \in Nat
        /\ row'[s].revision \in Nat
    BY <2>1 DEF RowsInv, Rows!TypeOK, Rows!Copy, Rows!Row, CopyOfRow
  <2>3. /\ copy[u].read.revision <= row[s].revision
        /\ row[s].revision <= row'[s].revision
    BY <2>1 DEF CopyOfRow
  <2>4. copy[u].read.revision <= row'[s].revision
    BY <2>2, <2>3
  <2>5. copy[u].read.revision = row'[s].revision => row[s].revision = row'[s].revision
    BY <2>2, <2>3
  <2> QED
    BY <2>1, <2>4, <2>5 DEF CopyOfRow
<1>4. \A u \in Rows!Transactions, s \in Sessions :
        u # t /\ HoldsRow(u, s) /\ Unmoved(copy[u]) => Unmoved(copy[u])'
  BY DEF HoldsRow, Unmoved
<1>5. TransactionsAreAt'
  <2>1. ASSUME NEW u \in Openers, u # t PROVE OpenerIsAt(u)'
    <3>1. u \in Rows!Transactions /\ OpenerIsAt(u)
      BY RowsKinds DEF RowsInv, TransactionsAreAt
    <3>2. CASE pc[u] = "insert"
      <4>1. HoldsHead(u) /\ current' = current
        BY <2>1, <3>1, <3>2 DEF HoldsHead
      <4>2. CASE current = None
        BY <2>1, <3>1, <3>2, <4>1, <4>2 DEF OpenerIsAt, Rows!Ends
      <4>3. CASE current # None
        <5>1. current \in Sessions /\ HoldsRow(u, current)
          BY <3>1, <3>2, <4>3 DEF HoldsRow, OpenerIsAt, CopyOfRow
        <5>2. CopyOfRow(copy[u])' /\ Unmoved(copy[u])'
          BY <2>1, <3>1, <3>2, <4>3, <5>1, <1>3, <1>4 DEF OpenerIsAt
        <5> QED
          BY <2>1, <3>1, <3>2, <4>1, <4>3, <5>2 DEF OpenerIsAt, Rows!Ends
      <4> QED
        BY <4>2, <4>3
    <3> QED
      BY <2>1, <3>1, <3>2 DEF OpenerIsAt
  <2>2. ASSUME NEW u \in Beaters, u # t PROVE BeaterIsAt(u)'
    <3>1. u \in Rows!Transactions /\ BeaterIsAt(u)
      BY RowsKinds DEF RowsInv, TransactionsAreAt
    <3>2. pc[u] = "commit" => HoldsRow(u, copy[u].id) /\ copy[u].id \in Sessions
      BY <3>1 DEF HoldsRow, BeaterIsAt, CopyOfRow
    <3> QED
      BY <2>2, <3>1, <3>2, <1>3, <1>4 DEF BeaterIsAt
  <2>3. ASSUME NEW u \in Completers, u # t PROVE CompleterIsAt(u)'
    <3>1. u \in Rows!Transactions /\ CompleterIsAt(u)
      BY RowsKinds DEF RowsInv, TransactionsAreAt
    <3>2. pc[u] \in {"clear-head", "commit"} =>
            HoldsRow(u, copy[u].id) /\ copy[u].id \in Sessions
      BY <3>1 DEF HoldsRow, CompleterIsAt, CopyOfRow
    <3> QED
      BY <2>3, <3>1, <3>2, <1>3, <1>4 DEF CompleterIsAt
  <2>4. ASSUME NEW u \in Recorders, u # t PROVE RecorderIsAt(u)'
    <3>1. u \in Rows!Transactions /\ RecorderIsAt(u)
      BY RowsKinds DEF RowsInv, TransactionsAreAt
    <3>2. pc[u] = "commit" => HoldsRow(u, copy[u].id) /\ copy[u].id \in Sessions
      BY <3>1 DEF HoldsRow, RecorderIsAt
    <3> QED
      BY <2>4, <3>1, <3>2 DEF RecorderIsAt
  <2> QED
    BY <2>1, <2>2, <2>3, <2>4 DEF TransactionsAreAt, IsAt
<1>6. Rows!CommittedOneLive'
  BY DEF RowsInv, Rows!CommittedOneLive, Rows!NothingThrown
<1> QED
  BY <1>1, <1>2, <1>5, <1>6 DEF RowsInv

\* A statement that writes no row: it changes what its own transaction is at, what it
\* works on and what it has locked.
LEMMA RowsStatement ==
    ASSUME RowsInv, NEW t \in Rows!Transactions, UNCHANGED <<current, row>>, Rows!TypeOK',
           \A u \in Rows!Transactions : u # t =>
             /\ pc'[u] = pc[u] /\ copy'[u] = copy[u]
             /\ headLock' = u <=> headLock = u
             /\ \A s \in Sessions : rowLock'[s] = u <=> rowLock[s] = u,
           pc'[t] # "threw", IsAt(t)',
           headLock' = t <=> HoldsHead(t)',
           \A s \in Sessions : rowLock'[s] = t <=> HoldsRow(t, s)'
    PROVE  RowsInv'
<1>1. Rows!OneLive'
  BY DEF RowsInv, Rows!CommittedOneLive, Rows!OneLive, Rows!Live, Rows!Exists
<1>2. \A u \in Rows!Transactions : (u # t /\ HoldsHead(u)') => HoldsHead(u)
  BY DEF HoldsHead
<1>3. \A s \in Sessions : row[s] # None => row[s].revision <= row'[s].revision
  BY DEF RowsInv, Rows!TypeOK, Rows!Row
<1> QED
  BY <1>1, <1>2, <1>3, RowsStep

\* A transaction that is rolled back, for whatever reason, leaves nothing behind.
LEMMA RowsRollback ==
    ASSUME RowsInv, NEW t \in Rows!Transactions, NEW end \in Rows!Ends, end # "threw",
           Rows!Rollback(t, end)
    PROVE  RowsInv'
<1> USE DEF Rows!Rollback, Rows!Release, Rows!Goto
<1>1. Rows!TypeOK'
  BY RowsKinds DEF RowsInv, Rows!TypeOK
<1>2. pc'[t] = end /\ \A u \in Rows!Transactions : u # t => pc'[u] = pc[u]
  BY DEF RowsInv, Rows!TypeOK
<1>3. IsAt(t)'
  BY <1>2 DEF IsAt, OpenerIsAt, BeaterIsAt, CompleterIsAt, RecorderIsAt, Rows!Ends
<1>4. ~HoldsHead(t)' /\ \A s \in Sessions : ~HoldsRow(t, s)'
  BY <1>2 DEF HoldsHead, HoldsRow, Rows!Ends
<1>5. headLock' # t /\ \A s \in Sessions : rowLock'[s] # t
  BY RowsKinds
<1>6. \A u \in Rows!Transactions : u # t =>
        /\ headLock' = u <=> headLock = u
        /\ \A s \in Sessions : rowLock'[s] = u <=> rowLock[s] = u
  BY RowsKinds
<1> QED
  BY <1>1, <1>2, <1>3, <1>4, <1>5, <1>6, RowsStatement

\* Opening: the head is locked, and then the row it names.
LEMMA RowsOpenLocks ==
    ASSUME RowsInv, NEW t \in Openers,
           Rows!OpenLockHead(t) \/ Rows!OpenFence(t) \/ Rows!OpenWithoutCurrent(t)
    PROVE  RowsInv'
<1>0. t \in Rows!Transactions /\ OpenerIsAt(t)
  BY RowsKinds DEF RowsInv, TransactionsAreAt
<1> USE DEF Rows!Goto
<1>1. CASE Rows!OpenLockHead(t)
  <2>1. Rows!TypeOK'
    BY <1>0, <1>1 DEF Rows!OpenLockHead, RowsInv, Rows!TypeOK, Rows!Statements
  <2>2. pc'[t] = "fence" /\ \A u \in Rows!Transactions : u # t => pc'[u] = pc[u]
    BY <1>0, <1>1 DEF Rows!OpenLockHead, RowsInv, Rows!TypeOK
  <2>3. IsAt(t)' /\ HoldsHead(t)' /\ \A s \in Sessions : ~HoldsRow(t, s)'
    BY <1>0, <1>1, <2>2, RowsKinds
    DEF Rows!OpenLockHead, IsAt, OpenerIsAt, HoldsHead, HoldsRow
  <2>4. \A s \in Sessions : rowLock'[s] # t
    BY <1>0, <1>1, RowsKinds DEF Rows!OpenLockHead, RowsInv, RowsLocked, HoldsRow
  <2> QED
    BY <1>0, <1>1, <2>1, <2>2, <2>3, <2>4, RowsKinds, RowsStatement DEF Rows!OpenLockHead
<1>2. CASE Rows!OpenFence(t)
  <2>1. /\ pc[t] = "fence" /\ current \in Sessions /\ row[current] # None
        /\ row[current] \in Rows!Row /\ row[current].state # "closed"
        /\ rowLock[current] = None
    BY <1>2, RowsLive DEF Rows!OpenFence, RowsInv, Rows!TypeOK
  <2>3. PICK w \in Rows!Row :
          /\ w = [row[current] EXCEPT !.state = "closed", !.revision = @ + 1]
          /\ w.state = "closed" /\ w.revision = row[current].revision + 1
    BY <2>1, RowClosed
  <2>a. [id |-> current, read |-> row[current], write |-> w] \in Rows!Copy
    BY <2>1 DEF Rows!Copy
  <2>4. PICK c \in Rows!Copy :
          /\ c = [id |-> current, read |-> row[current], write |-> w]
          /\ c.id = current /\ c.read = row[current] /\ c.write = w
    BY <2>a
  <2>2. /\ rowLock' = [rowLock EXCEPT ![current] = t]
        /\ copy' = [copy EXCEPT ![t] = c]
        /\ pc' = [pc EXCEPT ![t] = "insert"]
        /\ UNCHANGED <<current, row, position, headLock>>
    BY <1>2, <2>1, <2>3, <2>4 DEF Rows!OpenFence
  <2>5. Rows!TypeOK'
    BY <1>0, <2>1, <2>2, <2>4 DEF RowsInv, Rows!TypeOK, Rows!Statements
  <2>6. pc'[t] = "insert" /\ copy'[t] = c /\ rowLock'[current] = t
        /\ \A s \in Sessions : s # current => rowLock'[s] = rowLock[s]
        /\ \A u \in Rows!Transactions : u # t => pc'[u] = pc[u] /\ copy'[u] = copy[u]
    BY <1>0, <2>1, <2>2 DEF RowsInv, Rows!TypeOK
  <2>b. row[current].revision \in Nat
    BY <2>1 DEF Rows!Row
  <2>7. CopyOfRow(c)' /\ Unmoved(c)'
    <3>1. row' = row /\ w # None
      BY <2>2, RowsKinds
    <3>a. c.id = current /\ c.read = row[current] /\ c.write = w
      BY <2>4
    <3>b. w.revision = row[current].revision + 1
      BY <2>3
    <3>2. CopyOfRow(c) /\ Unmoved(c)
      <4>1. c.id \in Sessions /\ row[c.id] # None
        BY <2>1, <3>a
      <4>2. c.read # None /\ c.read.state # "closed"
        BY <2>1, <3>a
      <4>3. c.read.revision <= row[c.id].revision
        BY <2>b, <3>a
      <4>4. c.read.state = row[c.id].state
        BY  <3>a
      <4>5. c.write # None /\ c.write.revision = c.read.revision + 1
        BY  <3>a, <3>b, <3>1
      <4> QED
        BY <4>1, <4>2, <4>3, <4>4, <4>5, <3>a DEF CopyOfRow, Unmoved
    <3> QED
      BY <3>1, <3>2 DEF CopyOfRow, Unmoved
  <2>8. IsAt(t)'
    BY <1>0, <2>2, <2>3, <2>4, <2>6, <2>7, RowsKinds DEF IsAt, OpenerIsAt
  <2>9. headLock = t /\ HoldsHead(t)'
    BY <1>0, <2>1, <2>6 DEF RowsInv, HeadLocked, HoldsHead
  <2>10. \A s \in Sessions : rowLock'[s] = t <=> HoldsRow(t, s)'
    <3>1. \A s \in Sessions : rowLock[s] # t
      BY <1>0, <2>1, RowsKinds DEF RowsInv, RowsLocked, HoldsRow
    <3> QED
      BY <1>0, <2>4, <2>6, <3>1, RowsKinds DEF HoldsRow
  <2>11. \A u \in Rows!Transactions : u # t =>
           /\ headLock' = u <=> headLock = u
           /\ \A s \in Sessions : rowLock'[s] = u <=> rowLock[s] = u
    BY <2>1, <2>2, <2>6, RowsKinds
  <2> QED
    BY <1>0, <2>2, <2>5, <2>6, <2>8, <2>9, <2>10, <2>11, RowsStatement
<1>3. CASE Rows!OpenWithoutCurrent(t)
  <2>1. Rows!TypeOK'
    BY <1>0, <1>3 DEF Rows!OpenWithoutCurrent, RowsInv, Rows!TypeOK, Rows!Statements
  <2>2. pc'[t] = "insert" /\ \A u \in Rows!Transactions : u # t => pc'[u] = pc[u]
    BY <1>0, <1>3 DEF Rows!OpenWithoutCurrent, RowsInv, Rows!TypeOK
  <2>3. IsAt(t)' /\ HoldsHead(t)' /\ \A s \in Sessions : ~HoldsRow(t, s)'
    BY <1>0, <1>3, <2>2, RowsKinds
    DEF Rows!OpenWithoutCurrent, IsAt, OpenerIsAt, HoldsHead, HoldsRow
  <2>4. headLock = t /\ \A s \in Sessions : rowLock'[s] # t
    BY <1>0, <1>3, RowsKinds
    DEF Rows!OpenWithoutCurrent, RowsInv, HeadLocked, HoldsHead, RowsLocked, HoldsRow
  <2> QED
    BY <1>0, <1>3, <2>1, <2>2, <2>3, <2>4, RowsStatement DEF Rows!OpenWithoutCurrent
<1> QED
  BY <1>1, <1>2, <1>3

\* What may be written over a live row.
LEMMA RowNext ==
    ASSUME NEW r \in Rows!Row, NEW x \in {"active", "suspect", "closed"}
    PROVE  \E w \in Rows!Row :
             /\ w = [state |-> x, revision |-> r.revision + 1, lease |-> None]
             /\ w.state = x /\ w.revision = r.revision + 1
<1>1. PICK n \in Nat : n = r.revision + 1
  BY DEF Rows!Row
<1>2. [state |-> x, revision |-> n, lease |-> None] \in Rows!Row
  BY DEF Rows!Row
<1> QED
  BY <1>1, <1>2

\* Heartbeats: the row is read, and later it is locked if it is as it was read.
LEMMA RowsBeats ==
    ASSUME RowsInv, NEW t \in Beaters,
           (\E s \in Sessions : Rows!BeatRead(t, s)) \/ Rows!BeatUpdate(t)
    PROVE  RowsInv'
<1>0. t \in Rows!Transactions /\ BeaterIsAt(t)
  BY RowsKinds DEF RowsInv, TransactionsAreAt
<1> USE DEF Rows!Goto
<1>1. CASE \E s \in Sessions : Rows!BeatRead(t, s)
  <2>0. PICK s \in Sessions : Rows!BeatRead(t, s)
    BY <1>1
  <2>1. /\ pc[t] = "start" /\ row[s] # None /\ row[s] \in Rows!Row
        /\ row[s].state # "closed" /\ row[s].revision \in Nat
    BY <2>0 DEF Rows!BeatRead, Rows!Live, Rows!Exists, RowsInv, Rows!TypeOK, Rows!Row
  <2>2. PICK w \in Rows!Row :
          /\ w = [state |-> "active", revision |-> row[s].revision + 1, lease |-> None]
          /\ w.state = "active" /\ w.revision = row[s].revision + 1
    BY <2>1, RowNext
  <2>3. [id |-> s, read |-> row[s], write |-> w] \in Rows!Copy
    BY <2>1 DEF Rows!Copy
  <2>4. PICK c \in Rows!Copy :
          /\ c = [id |-> s, read |-> row[s], write |-> w]
          /\ c.id = s /\ c.read = row[s] /\ c.write = w
    BY <2>3
  <2>5. /\ copy' = [copy EXCEPT ![t] = c]
        /\ pc' = [pc EXCEPT ![t] = "update-row"]
        /\ UNCHANGED <<current, row, position, headLock, rowLock>>
    BY <2>0, <2>2, <2>4 DEF Rows!BeatRead
  <2>6. Rows!TypeOK'
    BY <1>0, <2>5 DEF RowsInv, Rows!TypeOK, Rows!Statements
  <2>7. /\ pc'[t] = "update-row" /\ copy'[t] = c
        /\ \A u \in Rows!Transactions : u # t => pc'[u] = pc[u] /\ copy'[u] = copy[u]
    BY <1>0, <2>5 DEF RowsInv, Rows!TypeOK
  <2>8. CopyOfRow(c)'
    <3>1. c.id = s /\ c.read = row[s] /\ c.write = w /\ w # None
      BY <2>4, RowsKinds
    <3>2. w.revision = row[s].revision + 1
      BY <2>2
    <3> QED
      BY <2>1, <2>5, <3>1, <3>2 DEF CopyOfRow
  <2>9. c.write.state = "active"
    BY <2>2, <2>4
  <2>10. IsAt(t)'
    BY <1>0, <2>7, <2>8, <2>9, RowsKinds DEF IsAt, BeaterIsAt
  <2>11. /\ ~HoldsHead(t)' /\ headLock' # t
         /\ \A x \in Sessions : ~HoldsRow(t, x)' /\ rowLock'[x] # t
    BY <1>0, <2>1, <2>5, <2>7, RowsKinds
    DEF RowsInv, HeadLocked, RowsLocked, HoldsHead, HoldsRow
  <2> QED
    BY <1>0, <2>5, <2>6, <2>7, <2>10, <2>11, RowsStatement
<1>2. CASE Rows!BeatUpdate(t)
  <2> DEFINE s == copy[t].id
  <2>1. /\ pc[t] = "update-row" /\ s \in Sessions /\ rowLock[s] = None
        /\ CopyOfRow(copy[t]) /\ copy[t].write.state = "active" /\ Unmoved(copy[t])
    BY <1>0, <1>2 DEF Rows!BeatUpdate, BeaterIsAt, CopyOfRow, Unmoved
  <2>2. /\ rowLock' = [rowLock EXCEPT ![s] = t]
        /\ pc' = [pc EXCEPT ![t] = "commit"]
        /\ UNCHANGED <<current, row, position, headLock, copy>>
    BY <1>2 DEF Rows!BeatUpdate
  <2>3. Rows!TypeOK'
    BY <1>0, <2>1, <2>2 DEF RowsInv, Rows!TypeOK, Rows!Statements
  <2>4. /\ pc'[t] = "commit" /\ rowLock'[s] = t
        /\ \A x \in Sessions : x # s => rowLock'[x] = rowLock[x]
        /\ \A u \in Rows!Transactions : u # t => pc'[u] = pc[u]
    BY <1>0, <2>1, <2>2 DEF RowsInv, Rows!TypeOK
  <2>5. IsAt(t)'
    BY <1>0, <2>1, <2>2, <2>4, RowsKinds DEF IsAt, BeaterIsAt, CopyOfRow, Unmoved
  <2>6. ~HoldsHead(t)' /\ headLock' # t
    BY <1>0, <2>2, RowsKinds DEF RowsInv, HeadLocked, HoldsHead
  <2>7. \A x \in Sessions : rowLock'[x] = t <=> HoldsRow(t, x)'
    <3>1. \A x \in Sessions : rowLock[x] # t
      BY <1>0, <2>1, RowsKinds DEF RowsInv, RowsLocked, HoldsRow
    <3> QED
      BY <1>0, <2>2, <2>4, <3>1 DEF HoldsRow
  <2>8. \A u \in Rows!Transactions, x \in Sessions :
          u # t => (rowLock'[x] = u <=> rowLock[x] = u)
    BY <2>1, <2>4, RowsKinds
  <2> QED
    BY <1>0, <2>2, <2>3, <2>4, <2>5, <2>6, <2>7, <2>8, RowsStatement
<1> QED
  BY <1>1, <1>2

\* A health worker that has leased the row locks it if it still has the lease, and then
\* the head if it is to be cleared.
LEMMA RowsCompleterLocks ==
    ASSUME RowsInv, NEW t \in Completers,
           Rows!CompleteUpdate(t) \/ Rows!CompleteClearHead(t)
    PROVE  RowsInv'
<1>0. t \in Rows!Transactions /\ CompleterIsAt(t)
  BY RowsKinds DEF RowsInv, TransactionsAreAt
<1> USE DEF Rows!Goto
<1> DEFINE s == copy[t].id
<1>1. CASE Rows!CompleteUpdate(t)
  <2>1. /\ pc[t] = "update-row" /\ s \in Sessions /\ rowLock[s] = None
        /\ CopyOfRow(copy[t]) /\ Unmoved(copy[t])
    BY <1>0, <1>1 DEF Rows!CompleteUpdate, Rows!StillLeased, CompleterIsAt, CopyOfRow, Unmoved
  <2>2. PICK next \in {"clear-head", "commit"} :
          /\ pc' = [pc EXCEPT ![t] = next]
          /\ next = "clear-head" <=> copy[t].write.state = "closed"
    BY <1>1 DEF Rows!CompleteUpdate
  <2>3. /\ rowLock' = [rowLock EXCEPT ![s] = t]
        /\ UNCHANGED <<current, row, position, headLock, copy>>
    BY <1>1 DEF Rows!CompleteUpdate
  <2>4. Rows!TypeOK'
    BY <1>0, <2>1, <2>2, <2>3 DEF RowsInv, Rows!TypeOK, Rows!Statements
  <2>5. /\ pc'[t] = next /\ rowLock'[s] = t
        /\ \A x \in Sessions : x # s => rowLock'[x] = rowLock[x]
        /\ \A u \in Rows!Transactions : u # t => pc'[u] = pc[u]
    BY <1>0, <2>1, <2>2, <2>3 DEF RowsInv, Rows!TypeOK
  <2>6. IsAt(t)'
    BY <1>0, <2>1, <2>2, <2>3, <2>5, RowsKinds DEF IsAt, CompleterIsAt, CopyOfRow, Unmoved
  <2>7. ~HoldsHead(t)' /\ headLock' # t
    BY <1>0, <2>1, <2>2, <2>3, <2>5, RowsKinds DEF RowsInv, HeadLocked, HoldsHead
  <2>8. \A x \in Sessions : rowLock'[x] = t <=> HoldsRow(t, x)'
    <3>1. \A x \in Sessions : rowLock[x] # t
      BY <1>0, <2>1, RowsKinds DEF RowsInv, RowsLocked, HoldsRow
    <3> QED
      BY <1>0, <2>2, <2>3, <2>5, <3>1 DEF HoldsRow
  <2>9. \A u \in Rows!Transactions, x \in Sessions :
          u # t => (rowLock'[x] = u <=> rowLock[x] = u)
    BY <2>1, <2>5, RowsKinds
  <2> QED
    BY <1>0, <2>2, <2>3, <2>4, <2>5, <2>6, <2>7, <2>8, <2>9, RowsStatement
<1>2. CASE Rows!CompleteClearHead(t)
  <2>1. /\ pc[t] = "clear-head" /\ CopyOfRow(copy[t]) /\ Unmoved(copy[t])
        /\ copy[t].write.state = "closed"
    BY <1>0, <1>2 DEF Rows!CompleteClearHead, CompleterIsAt
  <2>2. /\ pc' = [pc EXCEPT ![t] = "commit"]
        /\ UNCHANGED <<current, row, position, rowLock, copy>>
        /\ current = s => headLock = None /\ headLock' = t
        /\ current # s => headLock' = headLock
    BY <1>2 DEF Rows!CompleteClearHead
  <2>3. headLock' \in {headLock, t}
    BY <2>2
  <2>4. Rows!TypeOK'
    BY <1>0, <2>2, <2>3 DEF RowsInv, Rows!TypeOK, Rows!Statements
  <2>5. /\ pc'[t] = "commit"
        /\ \A u \in Rows!Transactions : u # t => pc'[u] = pc[u]
    BY <1>0, <2>2 DEF RowsInv, Rows!TypeOK
  <2>6. IsAt(t)'
    BY <1>0, <2>1, <2>2, <2>5, RowsKinds DEF IsAt, CompleterIsAt, CopyOfRow, Unmoved
  <2>7. headLock' = t <=> HoldsHead(t)'
    <3>1. headLock # t
      BY <1>0, <2>1, RowsKinds DEF RowsInv, HeadLocked, HoldsHead
    <3> QED
      BY <1>0, <2>1, <2>2, <2>5, <3>1, RowsKinds DEF HoldsHead
  <2>8. \A x \in Sessions : rowLock'[x] = t <=> HoldsRow(t, x)'
    BY <1>0, <2>1, <2>2, <2>5, RowsKinds DEF RowsInv, RowsLocked, HoldsRow
  <2>9. \A u \in Rows!Transactions : u # t => (headLock' = u <=> headLock = u)
    BY <2>2, RowsKinds
  <2> QED
    BY <1>0, <2>2, <2>4, <2>5, <2>6, <2>7, <2>8, <2>9, RowsStatement
<1> QED
  BY <1>1, <1>2

\* A recorder locks the head, and then the row of its session.
LEMMA RowsRecorderLocks ==
    ASSUME RowsInv, NEW t \in Recorders,
           (\E s \in Sessions : Rows!RecordLockHead(t, s)) \/ Rows!RecordLockRow(t)
    PROVE  RowsInv'
<1>0. t \in Rows!Transactions /\ RecorderIsAt(t)
  BY RowsKinds DEF RowsInv, TransactionsAreAt
<1> USE DEF Rows!Goto
<1>1. CASE \E s \in Sessions : Rows!RecordLockHead(t, s)
  <2>0. PICK s \in Sessions : Rows!RecordLockHead(t, s)
    BY <1>1
  <2>1. [Rows!NoCopy EXCEPT !.id = s] \in Rows!Copy /\ [Rows!NoCopy EXCEPT !.id = s].id = s
    BY DEF Rows!Copy, Rows!NoCopy
  <2>2. PICK c \in Rows!Copy : c = [Rows!NoCopy EXCEPT !.id = s] /\ c.id = s
    BY <2>1
  <2>3. /\ pc[t] = "start" /\ headLock = None /\ headLock' = t
        /\ copy' = [copy EXCEPT ![t] = c]
        /\ pc' = [pc EXCEPT ![t] = "lock-row"]
        /\ UNCHANGED <<current, row, position, rowLock>>
    BY <2>0, <2>2 DEF Rows!RecordLockHead
  <2>4. Rows!TypeOK'
    BY <1>0, <2>3 DEF RowsInv, Rows!TypeOK, Rows!Statements
  <2>5. /\ pc'[t] = "lock-row" /\ copy'[t] = c
        /\ \A u \in Rows!Transactions : u # t => pc'[u] = pc[u] /\ copy'[u] = copy[u]
    BY <1>0, <2>3 DEF RowsInv, Rows!TypeOK
  <2>6. IsAt(t)' /\ HoldsHead(t)'
    BY <1>0, <2>2, <2>5, RowsKinds DEF IsAt, RecorderIsAt, HoldsHead
  <2>7. \A x \in Sessions : rowLock'[x] # t /\ ~HoldsRow(t, x)'
    BY <1>0, <2>3, <2>5, RowsKinds DEF RowsInv, RowsLocked, HoldsRow
  <2>8. \A u \in Rows!Transactions : u # t => (headLock' = u <=> headLock = u)
    BY <2>3, RowsKinds
  <2> QED
    BY <1>0, <2>3, <2>4, <2>5, <2>6, <2>7, <2>8, RowsStatement
<1>2. CASE Rows!RecordLockRow(t)
  <2> DEFINE s == copy[t].id
  <2>1. /\ pc[t] = "lock-row" /\ s \in Sessions /\ row[s] # None /\ rowLock[s] = None
    BY <1>0, <1>2 DEF Rows!RecordLockRow, Rows!Exists, RecorderIsAt
  <2>2. /\ [copy[t] EXCEPT !.read = row[s]] \in Rows!Copy
        /\ [copy[t] EXCEPT !.read = row[s]].id = s
        /\ [copy[t] EXCEPT !.read = row[s]].read = row[s]
    BY <1>0, <2>1 DEF RowsInv, Rows!TypeOK, Rows!Copy
  <2>3. PICK c \in Rows!Copy :
          c = [copy[t] EXCEPT !.read = row[s]] /\ c.id = s /\ c.read = row[s]
    BY <2>2
  <2>4. /\ rowLock' = [rowLock EXCEPT ![s] = t]
        /\ copy' = [copy EXCEPT ![t] = c]
        /\ pc' = [pc EXCEPT ![t] = "commit"]
        /\ UNCHANGED <<current, row, position, headLock>>
    BY <1>2, <2>3 DEF Rows!RecordLockRow
  <2>5. Rows!TypeOK'
    BY <1>0, <2>1, <2>4 DEF RowsInv, Rows!TypeOK, Rows!Statements
  <2>6. /\ pc'[t] = "commit" /\ copy'[t] = c /\ rowLock'[s] = t
        /\ \A x \in Sessions : x # s => rowLock'[x] = rowLock[x]
        /\ \A u \in Rows!Transactions : u # t => pc'[u] = pc[u] /\ copy'[u] = copy[u]
    BY <1>0, <2>1, <2>4 DEF RowsInv, Rows!TypeOK
  <2>7. IsAt(t)' /\ HoldsHead(t)'
    BY <1>0, <2>1, <2>3, <2>4, <2>6, RowsKinds DEF IsAt, RecorderIsAt, HoldsHead
  <2>8. headLock' = t
    BY <1>0, <2>1, <2>4 DEF RowsInv, HeadLocked, HoldsHead
  <2>9. \A x \in Sessions : rowLock'[x] = t <=> HoldsRow(t, x)'
    <3>1. \A x \in Sessions : rowLock[x] # t
      BY <1>0, <2>1, RowsKinds DEF RowsInv, RowsLocked, HoldsRow
    <3> QED
      BY <1>0, <2>3, <2>6, <3>1 DEF HoldsRow
  <2>10. \A u \in Rows!Transactions, x \in Sessions :
          u # t => (rowLock'[x] = u <=> rowLock[x] = u)
    BY <2>1, <2>6, RowsKinds
  <2> QED
    BY <1>0, <2>4, <2>5, <2>6, <2>7, <2>8, <2>9, <2>10, RowsStatement
<1> QED
  BY <1>1, <1>2

\* A lease is written by a transaction that waits for nobody and keeps no lock.
LEMMA RowsLease ==
    ASSUME RowsInv, NEW t \in Completers, NEW s \in Sessions, Rows!Lease(t, s)
    PROVE  RowsInv' /\ Rows!WritesFollow
<1>0. t \in Rows!Transactions
  BY RowsKinds
<1>1. /\ pc[t] = "start" /\ row[s] # None /\ row[s] \in Rows!Row /\ rowLock[s] = None
      /\ row[s].state # "closed" /\ row[s].revision \in Nat
  BY DEF Rows!Lease, Rows!Live, Rows!Exists, RowsInv, Rows!TypeOK, Rows!Row
<1>2. PICK r \in Rows!Row :
        /\ r = [row[s] EXCEPT !.lease = t]
        /\ r.state = row[s].state /\ r.revision = row[s].revision
  <2>1. [row[s] EXCEPT !.lease = t] \in Rows!Row
    BY <1>1 DEF Rows!Row
  <2> QED
    BY <1>1, <2>1 DEF Rows!Row
<1>3. /\ row' = [row EXCEPT ![s] = r] /\ UNCHANGED <<current, position, headLock, rowLock>>
      /\ pc' = [pc EXCEPT ![t] = "update-row"]
  BY <1>2 DEF Rows!Lease, Rows!Goto
<1>4. row'[s] = r /\ \A x \in Sessions : x # s => row'[x] = row[x]
  BY <1>3 DEF RowsInv, Rows!TypeOK
<1>5. Rows!NextState(s) \in {"active", "suspect", "closed"}
  BY DEF Rows!NextState
<1>6. PICK w \in Rows!Row :
        /\ w = [state |-> Rows!NextState(s), revision |-> row[s].revision + 1,
                lease |-> None]
        /\ w.revision = row[s].revision + 1
  BY <1>1, <1>5, RowNext
<1>7. [id |-> s, read |-> r, write |-> w] \in Rows!Copy
  BY DEF Rows!Copy
<1>8. PICK c \in Rows!Copy :
        c = [id |-> s, read |-> r, write |-> w] /\ c.id = s /\ c.read = r /\ c.write = w
  BY <1>7
<1>9. copy' = [copy EXCEPT ![t] = c]
  BY <1>4, <1>6, <1>8 DEF Rows!Lease
<1>10. Rows!TypeOK'
  BY <1>0, <1>3, <1>9 DEF RowsInv, Rows!TypeOK, Rows!Statements
<1>11. /\ pc'[t] = "update-row" /\ copy'[t] = c
       /\ \A u \in Rows!Transactions : u # t => pc'[u] = pc[u] /\ copy'[u] = copy[u]
  BY <1>0, <1>3, <1>9 DEF RowsInv, Rows!TypeOK
<1>12. CopyOfRow(c)'
  <2>1. c.id = s /\ c.read = r /\ c.write = w /\ w # None /\ r # None
    BY <1>8, RowsKinds
  <2>2. w.revision = row[s].revision + 1 /\ r.revision = row[s].revision
        /\ r.state = row[s].state
    BY <1>2, <1>6
  <2> QED
    BY <1>1, <1>4, <2>1, <2>2 DEF CopyOfRow
<1>13. IsAt(t)'
  BY <1>0, <1>11, <1>12, RowsKinds DEF IsAt, CompleterIsAt
<1>14. /\ ~HoldsHead(t)' /\ headLock' # t
       /\ \A x \in Sessions : ~HoldsRow(t, x)' /\ rowLock'[x] # t
  BY <1>0, <1>1, <1>3, <1>11, RowsKinds
  DEF RowsInv, HeadLocked, RowsLocked, HoldsHead, HoldsRow
<1>15. \A x \in Sessions : row[x] # None =>
         /\ row'[x] # None /\ row[x].revision <= row'[x].revision
         /\ row[x].revision = row'[x].revision => row[x].state = row'[x].state
  <2>1. \A x \in Sessions : row[x] # None => row[x].revision \in Nat
    BY DEF RowsInv, Rows!TypeOK, Rows!Row
  <2>2. r # None /\ r.revision = row[s].revision /\ r.state = row[s].state
    BY <1>2, RowsKinds
  <2> QED
    BY <1>4, <2>1, <2>2
<1>16. \A u \in Rows!Transactions, x \in Sessions :
         u # t /\ HoldsRow(u, x) => row'[x] = row[x]
  BY <1>1, <1>4, RowsKinds DEF RowsInv, RowsLocked
<1>17. Rows!OneLive'
  <2>1. \A x \in Sessions : Rows!Live(x)' <=> Rows!Live(x)
    BY <1>1, <1>2, <1>4, RowsKinds DEF Rows!Live, Rows!Exists
  <2> QED
    BY <1>3, <2>1 DEF RowsInv, Rows!CommittedOneLive, Rows!OneLive
<1>18. \A u \in Rows!Transactions : u # t => (HoldsHead(u)' => HoldsHead(u))
  BY <1>3, <1>11 DEF HoldsHead
<1>19. Rows!WritesFollow
  <2>1. Rows!RowFollows(s)
    BY <1>1, <1>2, <1>4 DEF Rows!RowFollows
  <2> QED
    BY <1>3, <1>4, <2>1 DEF Rows!WritesFollow, Rows!RowFollows
<1> QED
  BY <1>0, <1>3, <1>10, <1>11, <1>13, <1>14, <1>15, <1>16, <1>17, <1>18, <1>19,
     RowsStep

\* COMMIT: the transaction ends and gives back its locks, after it has written a row
\* that it had locked, a new row, or none.
LEMMA RowsCommit ==
    ASSUME RowsInv, NEW t \in Rows!Transactions, Rows!Release(t), Rows!Goto(t, "committed"),
           UNCHANGED copy,
           row' \in [Sessions -> Rows!Row \cup {None}], current' \in Sessions \cup {None},
           position' \in Nat,
           \A s \in Sessions : row[s] # None =>
             \/ row'[s] = row[s]
             \/ /\ row'[s] # None /\ HoldsRow(t, s)
                /\ row'[s].revision = row[s].revision + 1 /\ row[s].state # "closed",
           current' = current \/ (HoldsHead(t) /\ (current' = None \/ row[current'] = None)),
           position' # position => Rows!PositionUnderCurrent,
           Rows!OneLive'
    PROVE  RowsInv' /\ Rows!WritesFollow
<1> USE DEF Rows!Release, Rows!Goto
<1>1. Rows!TypeOK'
  BY RowsKinds DEF RowsInv, Rows!TypeOK, Rows!Ends
<1>2. pc'[t] = "committed" /\ \A u \in Rows!Transactions : u # t => pc'[u] = pc[u]
  BY DEF RowsInv, Rows!TypeOK
<1>3. IsAt(t)' /\ ~HoldsHead(t)' /\ \A s \in Sessions : ~HoldsRow(t, s)'
  BY <1>2
  DEF IsAt, OpenerIsAt, BeaterIsAt, CompleterIsAt, RecorderIsAt, Rows!Ends, HoldsHead, HoldsRow
<1>4. headLock' # t /\ \A s \in Sessions : rowLock'[s] # t
  BY RowsKinds
<1>5. \A u \in Rows!Transactions : u # t =>
        /\ headLock' = u <=> headLock = u
        /\ \A s \in Sessions : rowLock'[s] = u <=> rowLock[s] = u
  BY RowsKinds
<1>6. \A u \in Rows!Transactions, s \in Sessions :
        u # t /\ HoldsRow(u, s) => row'[s] = row[s]
  <2> SUFFICES ASSUME NEW u \in Rows!Transactions, NEW s \in Sessions, u # t, HoldsRow(u, s)
               PROVE  row'[s] = row[s]
    OBVIOUS
  <2>1. ~HoldsRow(t, s)
    BY DEF RowsInv, RowsLocked
  <2>2. row[s] # None
    <3>1. IsAt(u)
      BY DEF RowsInv, TransactionsAreAt, IsAt
    <3>2. CASE u \in Openers
      BY <3>1, <3>2, RowsKinds DEF IsAt, OpenerIsAt, HoldsRow, CopyOfRow
    <3>3. CASE u \in Beaters
      BY <3>1, <3>3, RowsKinds DEF IsAt, BeaterIsAt, HoldsRow, CopyOfRow
    <3>4. CASE u \in Completers
      BY <3>1, <3>4, RowsKinds DEF IsAt, CompleterIsAt, HoldsRow, CopyOfRow
    <3>5. CASE u \in Recorders
      BY <3>1, <3>5, RowsKinds DEF IsAt, RecorderIsAt, HoldsRow
    <3> QED
      BY <3>2, <3>3, <3>4, <3>5, RowsKinds
  <2> QED
    BY <2>1, <2>2
<1>7. \A u \in Rows!Transactions : u # t /\ HoldsHead(u) => current' = current
  BY DEF RowsInv, HeadLocked
<1>8. \A u \in Rows!Transactions : u # t /\ HoldsHead(u)' => HoldsHead(u)
  <2> SUFFICES ASSUME NEW u \in Rows!Transactions, u # t, HoldsHead(u)'
               PROVE  HoldsHead(u)
    OBVIOUS
  <2>1. CASE u \in Completers
    <3>1. pc[u] = "commit" /\ CopyOfRow(copy[u]) /\ copy[u].write.state = "closed"
          /\ current' = copy[u].id
      BY <1>2, <2>1, RowsKinds
      DEF HoldsHead, RowsInv, TransactionsAreAt, CompleterIsAt
    <3>2. current' \in Sessions /\ row[current'] # None
      BY <3>1 DEF CopyOfRow
    <3>3. current' = current
      BY <3>2, RowsKinds
    <3> QED
      BY <2>1, <3>1, <3>3 DEF HoldsHead
  <2>2. CASE u \notin Completers
    BY <1>2, <2>2 DEF HoldsHead
  <2> QED
    BY <2>1, <2>2
<1>9. \A s \in Sessions : row[s] # None =>
        /\ row'[s] # None /\ row[s].revision <= row'[s].revision
        /\ row[s].revision = row'[s].revision => row[s].state = row'[s].state
  <2> SUFFICES ASSUME NEW s \in Sessions, row[s] # None
               PROVE  /\ row'[s] # None /\ row[s].revision <= row'[s].revision
                      /\ row[s].revision = row'[s].revision => row[s].state = row'[s].state
    OBVIOUS
  <2>1. row[s].revision \in Nat
    BY DEF RowsInv, Rows!TypeOK, Rows!Row
  <2>2. CASE row'[s] = row[s]
    BY <2>1, <2>2
  <2>3. CASE row'[s] # None /\ row'[s].revision = row[s].revision + 1
    BY <2>1, <2>3
  <2> QED
    BY <2>2, <2>3
<1>10. Rows!WritesFollow
  <2> SUFFICES ASSUME NEW s \in Sessions, row[s] # None
               PROVE  Rows!RowFollows(s)
    BY DEF Rows!WritesFollow, Rows!Exists
  <2>1. row[s].revision \in Nat
    BY DEF RowsInv, Rows!TypeOK, Rows!Row
  <2> QED
    BY <2>1 DEF Rows!RowFollows
<1> QED
  BY <1>1, <1>2, <1>3, <1>4, <1>5, <1>6, <1>7, <1>8, <1>9, <1>10, RowsStep

\* What a transaction that writes over its row commits.
LEMMA RowsWriteOver ==
    ASSUME RowsInv, NEW t \in Rows!Transactions, CopyOfRow(copy[t]), Unmoved(copy[t])
    PROVE  /\ copy[t].id \in Sessions /\ row[copy[t].id] # None
           /\ copy[t].id = current /\ row[copy[t].id].state # "closed"
           /\ copy[t].write \in Rows!Row
           /\ copy[t].write.revision = row[copy[t].id].revision + 1
<1>1. copy[t].id \in Sessions /\ row[copy[t].id] # None
  BY DEF CopyOfRow
<1>2. row[copy[t].id].state # "closed"
  BY DEF CopyOfRow, Unmoved
<1>3. copy[t].write \in Rows!Row
  BY DEF RowsInv, Rows!TypeOK, Rows!Copy, CopyOfRow
<1>4. copy[t].write.revision = row[copy[t].id].revision + 1
  BY DEF CopyOfRow, Unmoved
<1> QED
  BY <1>1, <1>2, <1>3, <1>4, RowsLive

\* The opener closes what was current and makes the new row current.
LEMMA RowsOpenCommit ==
    ASSUME RowsInv, NEW t \in Openers, Rows!OpenCommit(t)
    PROVE  RowsInv' /\ Rows!WritesFollow
<1>0. t \in Rows!Transactions /\ OpenerIsAt(t) /\ pc[t] = "insert"
  BY RowsKinds DEF RowsInv, TransactionsAreAt, Rows!OpenCommit
<1>1. ~Rows!ViolatesOneCurrent(t)
  BY <1>0, RowsLive DEF Rows!ViolatesOneCurrent, Rows!Live, Rows!Exists, OpenerIsAt
<1>2. PICK s \in Sessions :
        /\ row[s] = None
        /\ row' = [x \in Sessions |->
                     IF x = s THEN [state |-> "active", revision |-> 3, lease |-> None]
                     ELSE IF x = copy[t].id THEN copy[t].write
                     ELSE row[x]]
        /\ current' = s
  BY <1>1 DEF Rows!OpenCommit, Rows!Exists
<1>3. Rows!Release(t) /\ Rows!Goto(t, "committed") /\ UNCHANGED <<position, copy>>
  BY <1>1 DEF Rows!OpenCommit
<1>4. PICK new \in Rows!Row :
        new = [state |-> "active", revision |-> 3, lease |-> None] /\ new.state = "active"
  <2>1. [state |-> "active", revision |-> 3, lease |-> None] \in Rows!Row
    BY DEF Rows!Row
  <2> QED
    BY <2>1
<1>5. row'[s] = new /\ new # None
  BY <1>2, <1>4, RowsKinds
<1>6. current # None =>
        /\ copy[t].id = current /\ current \in Sessions /\ row[current] # None /\ current # s
        /\ row'[current] = copy[t].write /\ copy[t].write \in Rows!Row
        /\ copy[t].write # None /\ copy[t].write.state = "closed"
        /\ copy[t].write.revision = row[current].revision + 1
        /\ HoldsRow(t, current)
  BY <1>0, <1>2, RowsWriteOver, RowsKinds DEF OpenerIsAt, HoldsRow
<1>7. \A x \in Sessions : x # s /\ x # current => row'[x] = row[x]
  BY <1>0, <1>2 DEF OpenerIsAt
<1>8. row' \in [Sessions -> Rows!Row \cup {None}]
  <2>1. \A x \in Sessions : row'[x] \in Rows!Row \cup {None}
    BY <1>5, <1>6, <1>7, RowsKinds DEF RowsInv, Rows!TypeOK
  <2> QED
    BY <1>2, <2>1
<1>9. \A x \in Sessions : row[x] # None =>
        \/ row'[x] = row[x]
        \/ /\ row'[x] # None /\ HoldsRow(t, x)
           /\ row'[x].revision = row[x].revision + 1 /\ row[x].state # "closed"
  <2> SUFFICES ASSUME NEW x \in Sessions, row[x] # None
               PROVE  \/ row'[x] = row[x]
                      \/ /\ row'[x] # None /\ HoldsRow(t, x)
                         /\ row'[x].revision = row[x].revision + 1
                         /\ row[x].state # "closed"
    OBVIOUS
  <2>1. CASE x = current
    <3>1. row'[x] = copy[t].write /\ copy[t].write # None /\ HoldsRow(t, x)
          /\ copy[t].write.revision = row[x].revision + 1 /\ row[x].state # "closed"
      BY <1>6, <2>1, RowsKinds, RowsLive
    <3> QED
      BY <3>1
  <2>2. CASE x # current
    BY <1>2, <1>7, <2>2
  <2> QED
    BY <2>1, <2>2
<1>10. Rows!OneLive'
  <2>1. \A x \in Sessions : Rows!Live(x)' <=> x = s
    BY <1>4, <1>5, <1>6, <1>7, RowsLive, RowsKinds DEF Rows!Live, Rows!Exists
  <2> QED
    BY <1>2, <2>1, RowsKinds DEF Rows!OneLive
<1>11. HoldsHead(t) /\ row[current'] = None /\ current' \in Sessions
  BY <1>0, <1>2 DEF HoldsHead
<1>12. position' \in Nat
  BY <1>3 DEF RowsInv, Rows!TypeOK
<1> QED
  BY <1>0, <1>3, <1>8, <1>9, <1>10, <1>11, <1>12, RowsCommit

\* A heartbeat, or a change of health, is written over the row; a session that is closed
\* is taken from the head.
LEMMA RowsWriteCommit ==
    ASSUME RowsInv, NEW t \in Rows!Transactions,
           \/ t \in Beaters /\ Rows!BeatCommit(t)
           \/ t \in Completers /\ Rows!CompleteCommit(t)
    PROVE  RowsInv' /\ Rows!WritesFollow
<1> DEFINE s == copy[t].id
<1>1. /\ pc[t] = "commit" /\ CopyOfRow(copy[t]) /\ Unmoved(copy[t]) /\ HoldsRow(t, s)
      /\ t \in Beaters => copy[t].write.state = "active"
  BY RowsKinds
  DEF RowsInv, TransactionsAreAt, BeaterIsAt, CompleterIsAt, Rows!BeatCommit,
      Rows!CompleteCommit, HoldsRow
<1>2. /\ row' = [row EXCEPT ![s] = copy[t].write]
      /\ Rows!Release(t) /\ Rows!Goto(t, "committed") /\ UNCHANGED <<position, copy>>
  BY DEF Rows!BeatCommit, Rows!CompleteCommit
<1>3. /\ s \in Sessions /\ row[s] # None /\ s = current
      /\ copy[t].write \in Rows!Row /\ copy[t].write # None
      /\ copy[t].write.revision = row[s].revision + 1 /\ row[s].state # "closed"
  BY <1>1, RowsWriteOver, RowsKinds
<1>4. row'[s] = copy[t].write /\ \A x \in Sessions : x # s => row'[x] = row[x]
  BY <1>2, <1>3 DEF RowsInv, Rows!TypeOK
<1>5. row' \in [Sessions -> Rows!Row \cup {None}]
  BY <1>2, <1>3 DEF RowsInv, Rows!TypeOK
<1>6. HoldsHead(t) <=> copy[t].write.state = "closed"
  BY <1>1, <1>3, RowsKinds DEF HoldsHead, Rows!BeatCommit, Rows!CompleteCommit
<1>7. headLock = t <=> HoldsHead(t)
  BY DEF RowsInv, HeadLocked
<1>8. current' = IF HoldsHead(t) THEN None ELSE current
  <2>1. CASE t \in Beaters
    BY <1>1, <1>6, <2>1, RowsKinds DEF Rows!BeatCommit
  <2>2. CASE t \in Completers
    BY <1>7, <2>2, RowsKinds DEF Rows!CompleteCommit
  <2> QED
    BY <2>1, <2>2
<1>9. Rows!OneLive'
  <2>1. \A x \in Sessions : Rows!Live(x)' <=> x = current'
    BY <1>3, <1>4, <1>6, <1>8, RowsLive, RowsKinds DEF Rows!Live, Rows!Exists
  <2> QED
    BY <1>3, <1>8, <2>1, RowsKinds DEF Rows!OneLive
<1>10. position' \in Nat /\ current' \in Sessions \cup {None}
  BY <1>2, <1>3, <1>8 DEF RowsInv, Rows!TypeOK
<1>11. \A x \in Sessions : row[x] # None =>
        \/ row'[x] = row[x]
        \/ /\ row'[x] # None /\ HoldsRow(t, x)
           /\ row'[x].revision = row[x].revision + 1 /\ row[x].state # "closed"
  BY <1>1, <1>3, <1>4
<1> QED
  BY <1>2, <1>5, <1>8, <1>9, <1>10, <1>11, RowsCommit

\* A position is recorded beside the rows.
LEMMA RowsRecordCommit ==
    ASSUME RowsInv, NEW t \in Recorders, Rows!RecordCommit(t)
    PROVE  RowsInv' /\ Rows!WritesFollow
<1>1. t \in Rows!Transactions /\ UNCHANGED <<current, row, copy>>
  BY RowsKinds DEF Rows!RecordCommit
<1>2. Rows!Release(t) /\ Rows!Goto(t, "committed") /\ position' = position + 1
  BY DEF Rows!RecordCommit
<1>3. Rows!OneLive'
  BY <1>1 DEF RowsInv, Rows!CommittedOneLive, Rows!OneLive, Rows!Live, Rows!Exists
<1>4. position' \in Nat
  BY <1>2 DEF RowsInv, Rows!TypeOK
<1>5. Rows!PositionUnderCurrent
  <2>1. RecorderIsAt(t) /\ pc[t] = "commit" /\ copy[t].read.state = "active"
    BY DEF RowsInv, TransactionsAreAt, Rows!RecordCommit
  <2>2. /\ copy[t].id \in Sessions /\ row[copy[t].id] # None
        /\ row[copy[t].id].state = "active"
    BY <2>1 DEF RecorderIsAt
  <2> QED
    BY <2>2, RowsLive, RowsKinds DEF Rows!PositionUnderCurrent
<1> QED
  BY <1>1, <1>2, <1>3, <1>4, <1>5, RowsCommit DEF RowsInv, Rows!TypeOK

\* Each statement keeps the invariant, and what it commits follows on what was there.
LEMMA RowsNext == ASSUME RowsInv, Rows!Next PROVE RowsInv' /\ Rows!WritesFollow
<1>1. PICK t \in Rows!Transactions : Rows!Step(t)
  BY DEF Rows!Next
<1>2. ASSUME UNCHANGED <<row, position>> PROVE Rows!WritesFollow
  BY <1>2 DEF Rows!WritesFollow, Rows!RowFollows
<1>3. ASSUME NEW end \in Rows!Ends, end # "threw", Rows!Rollback(t, end)
      PROVE  RowsInv' /\ Rows!WritesFollow
  BY <1>2, <1>3, RowsRollback DEF Rows!Rollback
<1>4. CASE Rows!AbortVictim(t)
  BY <1>3, <1>4 DEF Rows!AbortVictim, Rows!Ends
<1>5. CASE t \in Openers /\ Rows!OpenStep(t)
  <2>1. CASE Rows!OpenLockHead(t) \/ Rows!OpenFence(t) \/ Rows!OpenWithoutCurrent(t)
    <3>1. UNCHANGED <<row, position>>
      BY <2>1
      DEF Rows!OpenLockHead, Rows!OpenFence, Rows!OpenWithoutCurrent, Rows!Rollback
    <3> QED
      BY <1>2, <1>5, <2>1, <3>1, RowsOpenLocks
  <2>2. CASE Rows!OpenCommit(t)
    BY <1>5, <2>2, RowsOpenCommit
  <2> QED
    BY <1>5, <2>1, <2>2 DEF Rows!OpenStep
<1>6. CASE t \in Beaters /\ Rows!BeatStep(t)
  <2>1. CASE Rows!BeatConflict(t)
    BY <1>3, <2>1 DEF Rows!BeatConflict, Rows!Ends
  <2>2. CASE Rows!BeatCommit(t)
    BY <1>6, <2>2, RowsWriteCommit
  <2>3. CASE (\E s \in Sessions : Rows!BeatRead(t, s)) \/ Rows!BeatUpdate(t)
    <3>1. UNCHANGED <<row, position>>
      BY <2>3 DEF Rows!BeatRead, Rows!BeatUpdate
    <3> QED
      BY <1>2, <1>6, <2>3, <3>1, RowsBeats
  <2> QED
    BY <1>6, <2>1, <2>2, <2>3 DEF Rows!BeatStep
<1>7. CASE t \in Completers /\ Rows!CompleteStep(t)
  <2>1. CASE Rows!CompleteLeaseLost(t)
    BY <1>3, <2>1 DEF Rows!CompleteLeaseLost, Rows!Ends
  <2>2. CASE Rows!CompleteCommit(t)
    BY <1>7, <2>2, RowsWriteCommit
  <2>3. CASE \E s \in Sessions : Rows!Lease(t, s)
    BY <1>7, <2>3, RowsLease
  <2>4. CASE Rows!CompleteUpdate(t) \/ Rows!CompleteClearHead(t)
    <3>1. UNCHANGED <<row, position>>
      BY <2>4 DEF Rows!CompleteUpdate, Rows!CompleteClearHead
    <3> QED
      BY <1>2, <1>7, <2>4, <3>1, RowsCompleterLocks
  <2> QED
    BY <1>7, <2>1, <2>2, <2>3, <2>4 DEF Rows!CompleteStep
<1>8. CASE t \in Recorders /\ Rows!RecordStep(t)
  <2>1. CASE Rows!RecordNotFound(t) \/ Rows!RecordStale(t)
    BY <1>3, <2>1 DEF Rows!RecordNotFound, Rows!RecordStale, Rows!Ends
  <2>2. CASE Rows!RecordCommit(t)
    BY <1>8, <2>2, RowsRecordCommit
  <2>3. CASE (\E s \in Sessions : Rows!RecordLockHead(t, s)) \/ Rows!RecordLockRow(t)
    <3>1. UNCHANGED <<row, position>>
      BY <2>3 DEF Rows!RecordLockHead, Rows!RecordLockRow
    <3> QED
      BY <1>2, <1>8, <2>3, <3>1, RowsRecorderLocks
  <2> QED
    BY <1>8, <2>1, <2>2, <2>3 DEF Rows!RecordStep
<1> QED
  BY <1>1, <1>4, <1>5, <1>6, <1>7, <1>8 DEF Rows!Step

(***************************************************************************)
(* The ingress process from its start to its exit.                         *)
(***************************************************************************)

\* Every uplink that is done was begun, and every one that was begun was received.
UplinksInOrder ==
    \A g \in Gateways : uplinks[g].done <= uplinks[g].begun
                        /\ uplinks[g].begun <= uplinks[g].received

\* How far the start and the close may be apart, and what the one leaves to the other:
\* close() goes past the start only when that has settled, a start that has come to
\* nothing has no connection, and what was started is drained before its connection
\* is closed.
StartAndClose ==
    /\ start = "connect" => transport = "none"
    /\ start \in {"failed", "closed-early"} => transport # "open"
    /\ start = "hand-off" => draining
    /\ start = "closed-early" => ~Ingress!InFlight
    /\ start = "started" => close # "start" /\ (close # "none" => draining)
    /\ close \notin {"none", "start"} => start \in Ingress!Settled
    /\ close \in {"drain", "transport"} => start = "started"
    /\ close \notin {"none", "start", "drain"} /\ start = "started" => ~Ingress!InFlight
    /\ close \in {"end-pool", "closed"} => transport # "open"
    /\ pool = "ended" <=> close \in {"closed", "failed"}

IngressInv == Ingress!TypeOK /\ UplinksInOrder /\ StartAndClose

\* The invariant holds when the process starts.
LEMMA IngressInit == ASSUME Ingress!Init PROVE IngressInv
<1>0. MaxUplinks \in Nat
  BY WorkersAssumption DEF Ingress!IngressAssumption
<1>1. [received |-> 0, begun |-> 0, done |-> 0]
        \in [received : 0..MaxUplinks, begun : 0..MaxUplinks, done : 0..MaxUplinks]
  BY <1>0
<1>2. Ingress!TypeOK
  BY <1>1 DEF Ingress!Init, Ingress!TypeOK, Ingress!Awaited
<1>3. UplinksInOrder
  BY DEF Ingress!Init, UplinksInOrder
<1>4. StartAndClose
  BY DEF Ingress!Init, StartAndClose, Ingress!InFlight
<1> QED
  BY <1>2, <1>3, <1>4 DEF IngressInv

\* An uplink that is received was not asked for by a process that drains; one that is
\* begun or done was in flight.
LEMMA IngressHandles ==
    ASSUME IngressInv, Ingress!Handle
    PROVE  IngressInv'
<1>0. MaxUplinks \in Nat
  BY WorkersAssumption DEF Ingress!IngressAssumption
<1>1. PICK g \in Gateways : Ingress!Receive(g) \/ Ingress!Begin(g) \/ Ingress!Done(g)
  BY DEF Ingress!Handle
<1> DEFINE Uplinks == [received : 0..MaxUplinks, begun : 0..MaxUplinks, done : 0..MaxUplinks]
<1>2. PICK u \in Uplinks :
        /\ uplinks' = [uplinks EXCEPT ![g] = u]
        /\ u.done <= u.begun /\ u.begun <= u.received
  <2>1. PICK r \in 0..MaxUplinks, b \in 0..MaxUplinks, d \in 0..MaxUplinks :
          uplinks[g] = [received |-> r, begun |-> b, done |-> d] /\ d <= b /\ b <= r
    BY <1>1 DEF IngressInv, Ingress!TypeOK, UplinksInOrder
  <2>2. CASE Ingress!Receive(g)
    <3>1. r + 1 \in 0..MaxUplinks /\ b <= r + 1
      BY <1>0, <2>1, <2>2 DEF Ingress!Receive
    <3>2. uplinks' = [uplinks EXCEPT ![g] = [uplinks[g] EXCEPT !.received = r + 1]]
      <4>1. uplinks[g].received = r
        BY <2>1
      <4> QED
        BY <2>2, <4>1 DEF Ingress!Receive
    <3>3. [uplinks[g] EXCEPT !.received = r + 1] = [received |-> r + 1, begun |-> b, done |-> d]
      BY <2>1
    <3>4. [received |-> r + 1, begun |-> b, done |-> d] \in Uplinks
      BY <3>1
    <3> QED
      BY <2>1, <3>1, <3>2, <3>3, <3>4
  <2>3. CASE Ingress!Begin(g)
    <3>1. b + 1 \in 0..MaxUplinks /\ d <= b + 1 /\ b + 1 <= r
      BY <1>0, <2>1, <2>3 DEF Ingress!Begin
    <3>2. uplinks' = [uplinks EXCEPT ![g] = [uplinks[g] EXCEPT !.begun = b + 1]]
      <4>1. uplinks[g].begun = b
        BY <2>1
      <4> QED
        BY <2>3, <4>1 DEF Ingress!Begin
    <3>3. [uplinks[g] EXCEPT !.begun = b + 1] = [received |-> r, begun |-> b + 1, done |-> d]
      BY <2>1
    <3>4. [received |-> r, begun |-> b + 1, done |-> d] \in Uplinks
      BY <3>1
    <3> QED
      BY <2>1, <3>1, <3>2, <3>3, <3>4
  <2>4. CASE Ingress!Done(g)
    <3>1. d + 1 \in 0..MaxUplinks /\ d + 1 <= b
      BY <1>0, <2>1, <2>4 DEF Ingress!Done
    <3>2. uplinks' = [uplinks EXCEPT ![g] = [uplinks[g] EXCEPT !.done = d + 1]]
      <4>1. uplinks[g].done = d
        BY <2>1
      <4> QED
        BY <2>4, <4>1 DEF Ingress!Done
    <3>3. [uplinks[g] EXCEPT !.done = d + 1] = [received |-> r, begun |-> b, done |-> d + 1]
      BY <2>1
    <3>4. [received |-> r, begun |-> b, done |-> d + 1] \in Uplinks
      BY <3>1
    <3> QED
      BY <2>1, <3>1, <3>2, <3>3, <3>4
  <2> QED
    BY <1>1, <2>2, <2>3, <2>4
<1>3. UNCHANGED <<start, transport, draining, close, pool, process>>
  BY <1>1 DEF Ingress!Receive, Ingress!Begin, Ingress!Done
<1>4. Ingress!TypeOK'
  BY <1>2, <1>3 DEF IngressInv, Ingress!TypeOK
<1>5. UplinksInOrder'
  BY <1>2 DEF IngressInv, Ingress!TypeOK, UplinksInOrder
<1>6. Ingress!InFlight \/ (transport = "open" /\ start # "connect" /\ ~draining)
  <2>1. CASE Ingress!Receive(g)
    BY <2>1 DEF Ingress!Receive
  <2>2. CASE Ingress!Begin(g) \/ Ingress!Done(g)
    <3>1. /\ uplinks[g].received \in Nat /\ uplinks[g].begun \in Nat
          /\ uplinks[g].done \in Nat /\ uplinks[g].begun <= uplinks[g].received
      BY DEF IngressInv, Ingress!TypeOK, UplinksInOrder
    <3>2. uplinks[g].done < uplinks[g].received
      BY <2>2, <3>1 DEF Ingress!Begin, Ingress!Done
    <3> QED
      BY <3>2 DEF Ingress!InFlight
  <2> QED
    BY <1>1, <2>1, <2>2
<1>7. StartAndClose'
  BY <1>3, <1>6 DEF IngressInv, StartAndClose
<1> QED
  BY <1>4, <1>5, <1>7 DEF IngressInv

\* Every other step leaves the uplinks.
LEMMA IngressNext == ASSUME IngressInv, Ingress!Next PROVE IngressInv'
<1>1. CASE Ingress!Handle
  BY <1>1, IngressHandles
<1>2. CASE ~Ingress!Handle
  <2>1. UNCHANGED uplinks
    BY <1>2
    DEF Ingress!Next, Ingress!Connect, Ingress!ConnectFails, Ingress!Subscribe,
        Ingress!SubscribeFails, Ingress!GiveUp, Ingress!HandOff, Ingress!CloseTransport,
        Ingress!Signal, Ingress!StartFailed, Ingress!Shutdown, Ingress!Close,
        Ingress!CloseAwaitsStart, Ingress!CloseDrained, Ingress!CloseClosesTransport,
        Ingress!CloseEndsPool, Ingress!Exit, Ingress!Deadline
  <2>2. UplinksInOrder' /\ (Ingress!InFlight' <=> Ingress!InFlight)
    BY <2>1 DEF IngressInv, UplinksInOrder, Ingress!InFlight
  <2> HIDE DEF Ingress!InFlight
  <2>3. CASE Ingress!Connect \/ Ingress!ConnectFails \/ Ingress!Subscribe
             \/ Ingress!SubscribeFails
    <3>1. Ingress!TypeOK'
      BY <2>1, <2>3
      DEF IngressInv, Ingress!TypeOK, Ingress!Connect, Ingress!ConnectFails,
          Ingress!Subscribe, Ingress!subscribed, Ingress!SubscribeFails, Ingress!Awaited,
          Ingress!Settled
    <3>2. StartAndClose'
      BY <2>2, <2>3
      DEF IngressInv, Ingress!TypeOK, StartAndClose, Ingress!Connect, Ingress!ConnectFails,
          Ingress!Subscribe, Ingress!subscribed, Ingress!SubscribeFails, Ingress!Settled
    <3> QED
      BY <2>2, <3>1, <3>2 DEF IngressInv
  <2>4. CASE Ingress!GiveUp \/ Ingress!HandOff
    <3>1. Ingress!TypeOK'
      BY <2>1, <2>4
      DEF IngressInv, Ingress!TypeOK, Ingress!GiveUp, Ingress!HandOff,
          Ingress!CloseTransport, Ingress!Settled
    <3>2. StartAndClose'
      BY <2>2, <2>4
      DEF IngressInv, Ingress!TypeOK, StartAndClose, Ingress!GiveUp, Ingress!HandOff,
          Ingress!CloseTransport, Ingress!Settled
    <3> QED
      BY <2>2, <3>1, <3>2 DEF IngressInv
  <2>5. CASE Ingress!Signal \/ Ingress!StartFailed
    <3>1. Ingress!TypeOK'
      BY <2>1, <2>5
      DEF IngressInv, Ingress!TypeOK, Ingress!Signal, Ingress!StartFailed, Ingress!Shutdown
    <3>2. StartAndClose'
      BY <2>2, <2>5
      DEF IngressInv, Ingress!TypeOK, StartAndClose, Ingress!Signal, Ingress!StartFailed,
          Ingress!Shutdown, Ingress!Settled, Ingress!Awaited
    <3> QED
      BY <2>2, <3>1, <3>2 DEF IngressInv
  <2>6. CASE Ingress!Close
    <3>1. Ingress!TypeOK'
      BY <2>1, <2>6
      DEF IngressInv, Ingress!TypeOK, Ingress!Close, Ingress!CloseAwaitsStart,
          Ingress!CloseDrained, Ingress!CloseClosesTransport, Ingress!CloseTransport,
          Ingress!CloseEndsPool, Ingress!Exit, Ingress!Ended
    <3>2. StartAndClose'
      <4>1. CASE Ingress!CloseAwaitsStart \/ Ingress!Exit
        BY <2>2, <4>1
        DEF IngressInv, StartAndClose, Ingress!CloseAwaitsStart, Ingress!Exit,
            Ingress!Settled
      <4>2. CASE Ingress!CloseDrained
        BY <2>2, <4>2
        DEF IngressInv, StartAndClose, Ingress!CloseDrained, Ingress!drained,
            Ingress!Settled
      <4>3. CASE Ingress!CloseClosesTransport
        BY <2>2, <4>3
        DEF IngressInv, StartAndClose, Ingress!CloseClosesTransport,
            Ingress!CloseTransport, Ingress!Settled
      <4>4. CASE Ingress!CloseEndsPool
        BY <2>2, <4>4
        DEF IngressInv, StartAndClose, Ingress!CloseEndsPool, Ingress!Settled
      <4> QED
        BY <2>6, <4>1, <4>2, <4>3, <4>4 DEF Ingress!Close
    <3> QED
      BY <2>2, <3>1, <3>2 DEF IngressInv
  <2>7. CASE Ingress!Deadline
    BY <2>2, <2>7
    DEF IngressInv, Ingress!TypeOK, StartAndClose, Ingress!Deadline, Ingress!closeOrExit,
        Ingress!Ended
  <2> QED
    BY <1>2, <2>3, <2>4, <2>5, <2>6, <2>7 DEF Ingress!Next
<1> QED
  BY <1>1, <1>2

LEMMA IngressCloses == ASSUME IngressInv PROVE Ingress!CleanClose
BY DEF IngressInv, Ingress!TypeOK, StartAndClose, Ingress!CleanClose, Ingress!Settled

(***************************************************************************)
(* The API process from its start to its exit.                             *)
(***************************************************************************)

\* How far a close has come, what it has stopped by then, and whom the pools still
\* serve.
ApiClosing ==
    /\ apiScheduler = "running" => pools["health"] = "open"
    /\ stop \in {"scheduler", "pools", "closed"} =>
         listening # "up" /\ apiScheduler # "running"
    /\ stop \in {"pools", "closed"} => ~apiSweep

ApiInv == Api!TypeOK /\ ApiClosing /\ Api!ApiClosesCleanly

\* The invariant holds when the process starts.
LEMMA ApiInit == ASSUME Api!Init PROVE ApiInv
<1>1. Api!TypeOK
  <2>1. pools \in [Api!Pools -> {"none", "open", "ending", "ended"}]
    BY DEF Api!Init
  <2> QED
    BY <2>1 DEF Api!Init, Api!TypeOK
<1>2. ApiClosing /\ (apiSweep => pools["health"] = "open")
  BY DEF Api!Init, ApiClosing
<1>3. \A h \in Handlers : handlers[h] \notin Api!Read
  BY WorkersAssumption DEF Api!Init, Api!ApiAssumption
<1> QED
  BY <1>1, <1>2, <1>3 DEF Api!Init, ApiInv, Api!ApiClosesCleanly

\* Every step of the API process keeps its invariant.
LEMMA ApiNext == ASSUME ApiInv, Api!Next PROVE ApiInv'
<1> USE DEF Api!Alive, Api!Ended, Api!Pools, Api!Read
<1>1. CASE Api!Listen
  BY <1>1 DEF ApiInv, Api!TypeOK, ApiClosing, Api!ApiClosesCleanly, Api!Listen
<1>2. CASE Api!Serve
  <2>1. PICK h \in Handlers :
          Api!Arrives(h) \/ Api!Queries(h) \/ Api!Released(h) \/ Api!Answered(h)
    BY <1>2 DEF Api!Serve
  <2>2. PICK at \in {None, "authenticating"} \cup Api!Read :
          /\ handlers' = [handlers EXCEPT ![h] = at]
          /\ at \in Api!Read => pools[at] = "open"
    BY <2>1, WorkersAssumption
    DEF Api!ApiAssumption, Api!Arrives, Api!Queries, Api!Released, Api!Answered
  <2>3. UNCHANGED <<listening, apiScheduler, apiSweep, stop, pools, api>>
    BY <2>1 DEF Api!Arrives, Api!Queries, Api!Released, Api!Answered
  <2>4. Api!TypeOK'
    BY <2>2, <2>3 DEF ApiInv, Api!TypeOK
  <2>5. \A k \in Handlers :
        handlers'[k] \in Api!Read => pools[handlers'[k]] \in {"open", "ending"}
    BY <2>2 DEF ApiInv, Api!TypeOK, Api!ApiClosesCleanly
  <2> QED
    BY <2>3, <2>4, <2>5 DEF ApiInv, ApiClosing, Api!ApiClosesCleanly
<1>3. CASE Api!Sweep \/ Api!Swept
  BY <1>3 DEF ApiInv, Api!TypeOK, ApiClosing, Api!ApiClosesCleanly, Api!Sweep, Api!Swept
<1>4. CASE Api!Signal \/ Api!ListenFailed
  BY <1>4
  DEF ApiInv, Api!TypeOK, ApiClosing, Api!ApiClosesCleanly, Api!Signal, Api!ListenFailed,
      Api!closeOrExit
<1>5. CASE Api!AppCloses \/ Api!AppCloseFails
  BY <1>5
  DEF ApiInv, Api!TypeOK, ApiClosing, Api!ApiClosesCleanly, Api!AppCloses,
      Api!AppCloseFails
<1>6. CASE Api!SchedulerCloses
  BY <1>6
  DEF ApiInv, Api!TypeOK, ApiClosing, Api!ApiClosesCleanly, Api!SchedulerCloses,
      Api!isSwept
<1>7. CASE Api!PoolsEnd
  BY <1>7 DEF ApiInv, Api!TypeOK, ApiClosing, Api!ApiClosesCleanly, Api!PoolsEnd
<1>8. CASE \E p \in Api!Pools : Api!PoolEnds(p)
  BY <1>8 DEF ApiInv, Api!TypeOK, ApiClosing, Api!ApiClosesCleanly, Api!PoolEnds
<1>9. CASE Api!Exit \/ Api!ExitFailed \/ Api!Deadline
  BY <1>9
  DEF ApiInv, Api!TypeOK, ApiClosing, Api!ApiClosesCleanly, Api!Exit, Api!exitsAs,
      Api!ExitFailed, Api!Deadline
<1> QED
  BY <1>1, <1>2, <1>3, <1>4, <1>5, <1>6, <1>7, <1>8, <1>9 DEF Api!Next, Api!Close

(***************************************************************************)
(* The bridge of one Gateway.                                              *)
(***************************************************************************)

\* Since the process began, a manifest was reported that declares the integrations.
Declared ==
    \E p \in Bridge!Positions : IF history[p] = None THEN FALSE ELSE history[p].integration

\* A report has been recorded: its generation is known with its content.
Recorded(m) ==
    /\ history[m.position] # None /\ history[m.position].digest = m.digest
    /\ latest >= m.position

\* A session the bridge may serve: the one it served last, or, if uplinks are signed, one
\* that is newer.
MayServe(e) == e >= served /\ (~signed => e = served)

\* What is being handled came under a session the bridge may serve, with an assertion that
\* allows no more than was declared; what it has done so far is done.
HandlingStands ==
    handling # None =>
      /\ handling.epoch <= epoch /\ handling.epoch >= served
      /\ handling.kind # "hello" =>
           /\ MayServe(handling.epoch)
           /\ handling.assertion.integration => Declared
      /\ handling.kind = "uplink" => handling.assertion.integration
      /\ handling.kind \in {"cursor", "answer"} => Recorded(handling.report)
      /\ handling.kind = "answer" => cursor[handling.report.stream] >= handling.report.position

\* With trusted uplinks only the session that was served last has an assertion.
AssertionsStand ==
    \A e \in Bridge!Epochs : sessions[e] # None =>
      /\ ~signed => e = served
      /\ sessions[e].integration => Declared

BridgeInv ==
    /\ Bridge!TypeOK
    /\ served <= epoch /\ (live => epoch # 0)
    /\ latest # 0 => history[latest] # None
    /\ HandlingStands /\ AssertionsStand
    /\ \A m \in acks : history[m.position] # None
    /\ Bridge!FailsClosed

\* What is assumed of the constants of the bridge.
LEMMA BridgeFacts ==
    /\ MaxEpoch \in Nat
    /\ Manifests \subseteq [stream : STRING, position : Nat \ {0}, digest : Nat,
                            integration : BOOLEAN]
    /\ \A m, n \in Manifests : m.digest = n.digest => m.integration = n.integration
    /\ None \notin Manifests /\ None \notin Bindings /\ None \notin Bridge!Assertion
    /\ None \notin Bridge!Hello /\ None \notin Bridge!Report /\ None \notin Bridge!Uplink
    /\ Bridge!Positions \subseteq Nat \ {0}
    /\ \A m \in Manifests : m.position \in Bridge!Positions /\ m.stream \in Bridge!ManifestStreams
BY WorkersAssumption
DEF Bridge!BridgeAssumption, Bridge!NoneIsNoRecord, Bridge!Positions, Bridge!ManifestStreams

\* The invariant holds before the first session.
LEMMA BridgeInit == ASSUME Bridge!Init PROVE BridgeInv
<1>1. Bridge!TypeOK
  <2>1. 0 \in 0..MaxEpoch
    BY BridgeFacts
  <2>2. /\ history \in [Bridge!Positions -> Manifests \cup {None}]
        /\ sessions \in [Bridge!Epochs -> Bridge!Assertion \cup {None}]
        /\ cursor \in [Bridge!ManifestStreams -> Bridge!Positions \cup {0}]
    BY DEF Bridge!Init, Bridge!NoHistory, Bridge!NoSessions
  <2> QED
    BY <2>1, <2>2 DEF Bridge!Init, Bridge!TypeOK
<1> QED
  BY <1>1, BridgeFacts
  DEF Bridge!Init, BridgeInv, HandlingStands, AssertionsStand, Bridge!FailsClosed,
      Bridge!NoSessions

\* What a message may be, by its kind.
LEMMA BridgeKinds ==
    ASSUME BridgeInv, handling # None
    PROVE  /\ handling.kind \in {"hello", "record", "cursor", "answer", "uplink"}
           /\ handling.epoch \in Bridge!Epochs
           /\ handling.kind = "hello" => handling \in Bridge!Hello
           /\ handling.kind \in {"record", "cursor", "answer"} => handling \in Bridge!Report
           /\ handling.kind = "uplink" => handling \in Bridge!Uplink
BY DEF BridgeInv, Bridge!TypeOK, Bridge!Hello, Bridge!Report, Bridge!Uplink

\* A restored assertion declares what the latest manifest does.
LEMMA BridgeRestores ==
    ASSUME BridgeInv
    PROVE  /\ Bridge!NewAssertion \in Bridge!Assertion
           /\ Bridge!NewAssertion.integration => Declared
<1>1. Bridge!restoreDeclaredRuntimeProtocols \in BOOLEAN
  BY BridgeFacts DEF BridgeInv, Bridge!TypeOK, Bridge!restoreDeclaredRuntimeProtocols
<1>2. [s \in Streams |-> None] \in [Streams -> Bindings \cup {None}]
  OBVIOUS
<1>3. Bridge!NewAssertion \in Bridge!Assertion
  BY <1>1, <1>2 DEF Bridge!NewAssertion, Bridge!Assertion
<1>4. Bridge!restoreDeclaredRuntimeProtocols => Declared
  BY DEF BridgeInv, Bridge!TypeOK, Bridge!restoreDeclaredRuntimeProtocols, Declared
<1> QED
  BY <1>3, <1>4 DEF Bridge!NewAssertion

\* A cursor is at a position of the stream, or before the first.
LEMMA BridgeCursor ==
    ASSUME BridgeInv, NEW s \in Bridge!ManifestStreams
    PROVE  cursor[s] \in Bridge!Positions \cup {0} /\ cursor[s] \in Nat
<1>1. cursor[s] \in Bridge!Positions \cup {0}
  BY DEF BridgeInv, Bridge!TypeOK
<1>2. ASSUME NEW n, n \in Bridge!Positions \cup {0} PROVE n \in Nat
  <2>1. CASE n = 0
    BY <2>1
  <2>2. CASE n \in Bridge!Positions
    BY <2>2, BridgeFacts
  <2> QED
    BY <1>2, <2>1, <2>2
<1>3. cursor[s] \in Nat
  BY <1>1, <1>2
<1> QED
  BY <1>1, <1>3

\* A session is opened, or a hello answered once more; then what the bridge knew of other
\* sessions is dropped.
LEMMA BridgeOpens ==
    ASSUME BridgeInv, Bridge!OpenSession \/ Bridge!AcceptSession, UNCHANGED signed
    PROVE  BridgeInv'
<1>0. epoch \in 0..MaxEpoch /\ served \in 0..MaxEpoch /\ served <= epoch /\ MaxEpoch \in Nat
  BY BridgeFacts DEF BridgeInv, Bridge!TypeOK
<1>1. CASE Bridge!OpenSession
  <2>1. epoch' \in Bridge!Epochs /\ epoch' \in 0..MaxEpoch /\ epoch' >= epoch
        /\ epoch' # 0 /\ live' \in BOOLEAN /\ cursor' = cursor
    <3>1. CASE Bridge!Open
      BY <1>0, <3>1 DEF Bridge!Open, Bridge!Epochs
    <3>2. CASE Bridge!Replay
      BY <1>0, <3>2 DEF Bridge!Replay, Bridge!database, Bridge!Epochs, BridgeInv, Bridge!TypeOK
    <3> QED
      BY <1>1, <3>1, <3>2 DEF Bridge!OpenSession
  <2>2. [kind |-> "hello", epoch |-> epoch'] \in Bridge!Hello
    BY <2>1 DEF Bridge!Hello
  <2>3. handling' = [kind |-> "hello", epoch |-> epoch']
    BY <1>1 DEF Bridge!OpenSession
  <2>4. UNCHANGED <<history, latest, sessions, served, acks, handedOn>>
    BY <1>1 DEF Bridge!OpenSession, Bridge!manifests, Bridge!assertions
  <2>5. Bridge!TypeOK'
    BY <2>1, <2>2, <2>3, <2>4 DEF BridgeInv, Bridge!TypeOK
  <2>6. handling' # None /\ handling'.kind = "hello" /\ handling'.epoch = epoch'
    BY <2>2, <2>3, BridgeFacts
  <2>7. (Declared' <=> Declared) /\ served' <= epoch'
    BY <1>0, <2>1, <2>4 DEF Declared
  <2>8. HandlingStands' /\ AssertionsStand'
    BY <1>0, <2>1, <2>4, <2>6, <2>7 DEF BridgeInv, HandlingStands, AssertionsStand
  <2> QED
    BY <2>1, <2>4, <2>5, <2>7, <2>8 DEF BridgeInv, Bridge!FailsClosed
<1>2. CASE Bridge!AcceptSession
  <2>1. /\ handling # None /\ handling.kind = "hello" /\ handling' = None
        /\ served' = handling.epoch
        /\ UNCHANGED <<epoch, live, cursor, history, latest, acks, handedOn>>
        /\ handling.epoch \in Bridge!Epochs /\ handling.epoch <= epoch
    BY <1>2, BridgeKinds
    DEF Bridge!AcceptSession, Bridge!database, Bridge!manifests, BridgeInv, HandlingStands
  <2>2. PICK a \in Bridge!Assertion \cup {None} :
          /\ sessions' = [Bridge!NoSessions EXCEPT ![handling.epoch] = a]
          /\ a # None => (a.integration => Declared)
    <3>1. CASE sessions' = Bridge!withoutOthers
      <4>1. sessions' = [Bridge!NoSessions EXCEPT ![handling.epoch] = None]
        BY <2>1, <3>1 DEF Bridge!withoutOthers, Bridge!NoSessions
      <4> QED
        BY <4>1
    <3>2. CASE sessions' = [Bridge!withoutOthers EXCEPT ![handling.epoch] = Bridge!NewAssertion]
      BY <2>1, <3>2, BridgeRestores DEF Bridge!withoutOthers
    <3> QED
      BY <1>2, <3>1, <3>2 DEF Bridge!AcceptSession
  <2>3. /\ sessions' \in [Bridge!Epochs -> Bridge!Assertion \cup {None}]
        /\ sessions'[handling.epoch] = a
        /\ \A e \in Bridge!Epochs : e # handling.epoch => sessions'[e] = None
    BY <2>1, <2>2 DEF Bridge!NoSessions
  <2>4. Bridge!TypeOK'
    <3>1. served' \in 0..MaxEpoch
      BY <1>0, <2>1 DEF Bridge!Epochs
    <3> QED
      BY <2>1, <2>3, <3>1 DEF BridgeInv, Bridge!TypeOK
  <2>5. Declared' <=> Declared
    BY <2>1 DEF Declared
  <2>6. HandlingStands' /\ AssertionsStand' /\ served' <= epoch'
    BY <2>1, <2>2, <2>3, <2>5 DEF HandlingStands, AssertionsStand
  <2> QED
    BY <2>1, <2>4, <2>6 DEF BridgeInv, Bridge!FailsClosed
<1> QED
  BY <1>1, <1>2

\* What another process does for the Gateway opens newer sessions, or moves a cursor on.
LEMMA BridgeElsewhere ==
    ASSUME BridgeInv, Bridge!Elsewhere, UNCHANGED signed
    PROVE  BridgeInv'
<1>0. epoch \in 0..MaxEpoch /\ served \in 0..MaxEpoch /\ served <= epoch /\ MaxEpoch \in Nat
  BY BridgeFacts DEF BridgeInv, Bridge!TypeOK
<1>1. UNCHANGED <<history, latest, sessions, served, handling, acks, handedOn>>
  BY DEF Bridge!Elsewhere, Bridge!manifests, Bridge!assertions
<1>2. /\ epoch' \in 0..MaxEpoch /\ epoch' >= epoch /\ live' \in BOOLEAN
      /\ cursor' \in [Bridge!ManifestStreams -> Bridge!Positions \cup {0}]
      /\ live' => epoch' # 0
      /\ \A s \in Bridge!ManifestStreams, n \in Nat : cursor[s] >= n => cursor'[s] >= n
  <2>1. CASE Bridge!Open
    BY <1>0, <2>1 DEF Bridge!Open, BridgeInv, Bridge!TypeOK
  <2>2. CASE /\ UNCHANGED <<epoch, live>>
             /\ \E s \in Bridge!ManifestStreams : \E p \in Bridge!Positions :
                  p = cursor[s] + 1 /\ cursor' = [cursor EXCEPT ![s] = p]
    <3>1. PICK s \in Bridge!ManifestStreams, p \in Bridge!Positions :
            p = cursor[s] + 1 /\ cursor' = [cursor EXCEPT ![s] = p]
      BY <2>2
    <3>2. /\ cursor' \in [Bridge!ManifestStreams -> Bridge!Positions \cup {0}]
          /\ cursor'[s] = p /\ \A x \in Bridge!ManifestStreams : x # s => cursor'[x] = cursor[x]
      BY <3>1 DEF BridgeInv, Bridge!TypeOK
    <3>3. cursor[s] \in Nat /\ p = cursor[s] + 1
      BY <3>1, BridgeCursor
    <3>4. ASSUME NEW x \in Bridge!ManifestStreams, NEW n \in Nat, cursor[x] >= n
          PROVE  cursor'[x] >= n
      <4>1. CASE x = s
        BY <3>2, <3>3, <3>4, <4>1
      <4>2. CASE x # s
        BY <3>2, <3>4, <4>2
      <4> QED
        BY <4>1, <4>2
    <3>5. epoch' = epoch /\ live' \in BOOLEAN /\ (live' => epoch' # 0)
      BY <2>2 DEF BridgeInv, Bridge!TypeOK
    <3> QED
      BY <1>0, <3>2, <3>4, <3>5
  <2> QED
    BY <2>1, <2>2 DEF Bridge!Elsewhere
<1>3. Bridge!TypeOK'
  BY <1>1, <1>2 DEF BridgeInv, Bridge!TypeOK
<1>4. (Declared' <=> Declared) /\ served' <= epoch'
  BY <1>0, <1>1, <1>2 DEF Declared
<1>5. HandlingStands'
  <2> SUFFICES ASSUME handling # None PROVE HandlingStands'
    BY <1>1 DEF HandlingStands
  <2>1. handling.epoch \in Nat /\ handling.epoch <= epoch
    BY BridgeKinds, BridgeFacts DEF Bridge!Epochs, BridgeInv, HandlingStands
  <2>2. handling'.epoch <= epoch'
    BY <1>0, <1>1, <1>2, <2>1
  <2>3. ASSUME handling.kind = "answer"
        PROVE  cursor'[handling.report.stream] >= handling.report.position
    <3>1. /\ handling.report.stream \in Bridge!ManifestStreams /\ handling.report.position \in Nat
          /\ cursor[handling.report.stream] >= handling.report.position
      BY <2>3, BridgeKinds, BridgeFacts DEF Bridge!Report, BridgeInv, HandlingStands
    <3> QED
      BY <1>2, <3>1
  <2> QED
    BY <1>1, <1>4, <2>2, <2>3 DEF BridgeInv, HandlingStands, MayServe, Recorded
<1>6. AssertionsStand'
  BY <1>1, <1>4 DEF BridgeInv, AssertionsStand
<1>7. Bridge!FailsClosed'
  <2>1. ASSUME NEW m \in acks PROVE cursor'[m.stream] >= m.position
    <3>1. m.stream \in Bridge!ManifestStreams /\ m.position \in Nat
          /\ cursor[m.stream] >= m.position
      BY BridgeFacts DEF BridgeInv, Bridge!TypeOK, Bridge!FailsClosed
    <3> QED
      BY <1>2, <3>1
  <2> QED
    BY <1>1, <2>1 DEF BridgeInv, Bridge!FailsClosed
<1> QED
  BY <1>1, <1>2, <1>3, <1>4, <1>5, <1>6, <1>7 DEF BridgeInv

\* A message is received with an assertion that is kept, or restored.
LEMMA BridgeReceives ==
    ASSUME BridgeInv, NEW e \in 1..epoch, Bridge!Receive(e), UNCHANGED signed,
           handling' # None,
           \/ handling' \in Bridge!Report /\ handling'.kind = "record"
           \/ handling' \in Bridge!Uplink,
           handling'.epoch = e, handling'.assertion = Bridge!AssertionFor(e),
           handling'.kind = "uplink" => handling'.assertion.integration
    PROVE  BridgeInv'
<1>1. e \in Bridge!Epochs /\ handling = None
  BY BridgeFacts DEF BridgeInv, Bridge!TypeOK, Bridge!Epochs, Bridge!Receive
<1>2. PICK a \in Bridge!Assertion : /\ a = Bridge!AssertionFor(e)
                                    /\ MayServe(e) /\ (a.integration => Declared)
  <2>1. /\ Bridge!AssertionFor(e) \in Bridge!Assertion
        /\ Bridge!AssertionFor(e).integration => Declared
    <3>1. CASE Bridge!AssertionFor(e) = sessions[e]
      BY <1>1, <3>1 DEF Bridge!Receive, BridgeInv, Bridge!TypeOK, AssertionsStand
    <3>2. CASE Bridge!AssertionFor(e) = Bridge!NewAssertion
      BY <3>2, BridgeRestores
    <3> QED
      BY <3>1, <3>2 DEF Bridge!Receive, Bridge!AssertionFor
  <2>2. e >= served /\ (~signed => e = served)
    <3>1. CASE signed
      <4>1. e = epoch
        BY <3>1
        DEF Bridge!Receive, Bridge!AssertionFor, Bridge!authenticateGatewaySignedUplink
      <4> QED
        BY <3>1, <4>1, BridgeFacts DEF BridgeInv, Bridge!TypeOK
    <3>2. CASE ~signed
      <4>1. e = served
        BY <1>1, <3>2 DEF Bridge!Receive, Bridge!AssertionFor, BridgeInv, AssertionsStand
      <4> QED
        BY <4>1, BridgeFacts DEF BridgeInv, Bridge!TypeOK
    <3> QED
      BY <3>1, <3>2
  <2> QED
    BY <2>1, <2>2 DEF MayServe
<1>3. /\ sessions' = [sessions EXCEPT ![e] = a]
      /\ UNCHANGED <<epoch, live, cursor, history, latest, served, acks, handedOn>>
  BY <1>2 DEF Bridge!Receive, Bridge!database, Bridge!manifests
<1>4. sessions' \in [Bridge!Epochs -> Bridge!Assertion \cup {None}]
      /\ sessions'[e] = a /\ \A d \in Bridge!Epochs : d # e => sessions'[d] = sessions[d]
  BY <1>1, <1>3 DEF BridgeInv, Bridge!TypeOK
<1>5. Bridge!TypeOK'
  BY <1>3, <1>4 DEF BridgeInv, Bridge!TypeOK
<1>6. Declared' <=> Declared
  BY <1>3 DEF Declared
<1>7. HandlingStands'
  <2>1. e <= epoch /\ e >= served /\ (MayServe(e))'
    BY <1>2, <1>3, BridgeFacts DEF MayServe, BridgeInv, Bridge!TypeOK
  <2> QED
    BY <1>2, <1>3, <1>6, <2>1 DEF HandlingStands, MayServe, Bridge!Uplink
<1>8. AssertionsStand'
  BY <1>1, <1>2, <1>3, <1>4, <1>6 DEF BridgeInv, AssertionsStand, MayServe
<1> QED
  BY <1>3, <1>5, <1>7, <1>8 DEF BridgeInv, Bridge!FailsClosed

LEMMA BridgeDelivers ==
    ASSUME BridgeInv, NEW e \in 1..epoch, Bridge!Deliver(e), UNCHANGED signed
    PROVE  BridgeInv'
<1>1. e \in Bridge!Epochs
  BY BridgeFacts DEF BridgeInv, Bridge!TypeOK, Bridge!Epochs
<1>2. ASSUME Bridge!Receive(e) PROVE Bridge!AssertionFor(e) \in Bridge!Assertion
  BY <1>1, <1>2, BridgeRestores
  DEF Bridge!Receive, Bridge!AssertionFor, BridgeInv, Bridge!TypeOK
<1>3. ASSUME NEW m \in Manifests, Bridge!ReportManifest(e, m) PROVE BridgeInv'
  <2>1. Bridge!Receive(e)
    BY <1>3 DEF Bridge!ReportManifest
  <2>2. [kind |-> "record", epoch |-> e, report |-> m, assertion |-> Bridge!AssertionFor(e)]
          \in Bridge!Report
    BY <1>1, <1>2, <2>1 DEF Bridge!Report
  <2>3. handling' = [kind |-> "record", epoch |-> e, report |-> m,
                     assertion |-> Bridge!AssertionFor(e)]
    BY <1>3 DEF Bridge!ReportManifest
  <2>4. /\ handling' \in Bridge!Report /\ handling' # None /\ handling'.kind = "record"
        /\ handling'.epoch = e /\ handling'.assertion = Bridge!AssertionFor(e)
    BY <2>2, <2>3, BridgeFacts
  <2> QED
    BY <2>1, <2>4, BridgeReceives
<1>4. ASSUME NEW s \in Streams, NEW b \in Bindings, Bridge!ReportIntegration(e, s, b)
      PROVE  BridgeInv'
  <2>1. Bridge!Receive(e)
    BY <1>4 DEF Bridge!ReportIntegration
  <2>2. [kind |-> "uplink", epoch |-> e, stream |-> s, binding |-> b,
         assertion |-> Bridge!AssertionFor(e)] \in Bridge!Uplink
    BY <1>1, <1>2, <2>1 DEF Bridge!Uplink
  <2>3. handling' = [kind |-> "uplink", epoch |-> e, stream |-> s, binding |-> b,
                     assertion |-> Bridge!AssertionFor(e)]
    BY <1>4 DEF Bridge!ReportIntegration
  <2>4. /\ handling' \in Bridge!Uplink /\ handling' # None
        /\ handling'.epoch = e /\ handling'.assertion = Bridge!AssertionFor(e)
    BY <2>2, <2>3, BridgeFacts
  <2>5. handling'.assertion.integration
    BY <1>4, <2>4 DEF Bridge!ReportIntegration, Bridge!integrationPreflight
  <2> QED
    BY <2>1, <2>4, <2>5, BridgeReceives
<1> QED
  BY <1>3, <1>4 DEF Bridge!Deliver

\* A manifest goes into the history, where no generation ever changes.
LEMMA BridgeRecords ==
    ASSUME BridgeInv, Bridge!RecordManifest, UNCHANGED signed
    PROVE  BridgeInv'
<1> DEFINE m == handling.report
<1>1. /\ handling # None /\ handling.kind = "record" /\ handling \in Bridge!Report
      /\ m \in Manifests /\ m.position \in Bridge!Positions
      /\ history[m.position] # None => history[m.position].digest = m.digest
  BY BridgeKinds, BridgeFacts DEF Bridge!RecordManifest, Bridge!conflicts, Bridge!Report
<1>2. /\ history' = [history EXCEPT ![m.position] = IF history[m.position] = None THEN m
                                                    ELSE history[m.position]]
      /\ latest' = (IF m.position > latest THEN m.position ELSE latest)
      /\ handling' = [handling EXCEPT !.kind = "cursor"]
      /\ UNCHANGED <<epoch, live, cursor, sessions, served, acks, handedOn>>
  BY DEF Bridge!RecordManifest, Bridge!database, Bridge!assertions
<1>3. /\ handling' \in Bridge!Report /\ handling' # None /\ handling'.kind = "cursor"
      /\ handling'.epoch = handling.epoch /\ handling'.report = m
      /\ handling'.assertion = handling.assertion
  <2>1. PICK x \in Bridge!Epochs, r \in Manifests, a \in Bridge!Assertion :
          handling = [kind |-> "record", epoch |-> x, report |-> r, assertion |-> a]
    BY <1>1 DEF Bridge!Report
  <2>2. handling' = [kind |-> "cursor", epoch |-> x, report |-> r, assertion |-> a]
    BY <1>2, <2>1
  <2>3. [kind |-> "cursor", epoch |-> x, report |-> r, assertion |-> a] \in Bridge!Report
    BY DEF Bridge!Report
  <2> QED
    BY <2>1, <2>2, <2>3, BridgeFacts
<1>4. /\ history'[m.position] # None /\ history'[m.position].digest = m.digest
      /\ \A p \in Bridge!Positions : history[p] # None => history'[p] = history[p]
  BY <1>1, <1>2, BridgeFacts DEF BridgeInv, Bridge!TypeOK
<1>5. latest \in Nat /\ latest' \in Nat /\ latest' >= latest /\ latest' >= m.position
      /\ latest' \in {latest, m.position}
  BY <1>1, <1>2, BridgeFacts DEF BridgeInv, Bridge!TypeOK
<1>6. Bridge!TypeOK'
  <2>1. history' \in [Bridge!Positions -> Manifests \cup {None}]
    BY <1>1, <1>2 DEF BridgeInv, Bridge!TypeOK
  <2> QED
    BY <1>1, <1>2, <1>3, <1>5, <2>1 DEF BridgeInv, Bridge!TypeOK
<1>7. Declared => Declared'
  BY <1>4 DEF Declared
<1>8. HandlingStands'
  BY <1>1, <1>2, <1>3, <1>4, <1>5, <1>7 DEF BridgeInv, HandlingStands, MayServe, Recorded
<1>9. AssertionsStand'
  BY <1>1, <1>2, <1>3, <1>7 DEF BridgeInv, AssertionsStand
<1>10. latest' # 0 => history'[latest'] # None
  BY <1>4, <1>5 DEF BridgeInv, Bridge!TypeOK
<1>11. (\A n \in acks' : history'[n.position] # None) /\ Bridge!FailsClosed'
  <2>1. ASSUME NEW n \in acks
        PROVE  /\ history'[n.position] = history[n.position] /\ history[n.position] # None
               /\ latest' >= n.position
    <3>1. n.position \in Bridge!Positions /\ n.position \in Nat /\ latest >= n.position
      BY BridgeFacts DEF BridgeInv, Bridge!TypeOK, Bridge!FailsClosed
    <3> QED
      BY <1>4, <1>5, <3>1 DEF BridgeInv
  <2> QED
    BY <1>2, <2>1 DEF BridgeInv, Bridge!FailsClosed
<1> QED
  BY <1>2, <1>6, <1>8, <1>9, <1>10, <1>11 DEF BridgeInv

\* The position of a report that was recorded is recorded too, and the session then
\* allows what it declares.
LEMMA BridgeRecordsCursor ==
    ASSUME BridgeInv, Bridge!RecordCursor, UNCHANGED signed
    PROVE  BridgeInv'
<1> DEFINE m == handling.report
           s == m.stream
<1>1. /\ handling # None /\ handling.kind = "cursor" /\ handling \in Bridge!Report
      /\ m \in Manifests /\ m.position \in Bridge!Positions /\ m.position \in Nat
      /\ s \in Bridge!ManifestStreams /\ handling.epoch = epoch /\ epoch \in Bridge!Epochs
      /\ handling.assertion \in Bridge!Assertion /\ m.integration \in BOOLEAN
  BY BridgeKinds, BridgeFacts DEF Bridge!RecordCursor, Bridge!Report
<1>2. PICK c \in Bridge!Positions \cup {0} :
        /\ cursor' = [cursor EXCEPT ![s] = c] /\ c >= m.position /\ c >= cursor[s]
  <2>1. cursor[s] \in Bridge!Positions \cup {0} /\ cursor[s] \in Nat
    BY <1>1, BridgeCursor
  <2>2. cursor' = [cursor EXCEPT ![s] = IF m.position > cursor[s] THEN m.position
                                        ELSE cursor[s]]
    BY DEF Bridge!RecordCursor
  <2>3. CASE m.position > cursor[s]
    <3>1. cursor' = [cursor EXCEPT ![s] = m.position]
      BY <2>2, <2>3
    <3>2. PICK c \in Bridge!Positions \cup {0} : c = m.position
      BY <1>1
    <3>3. c >= m.position /\ c >= cursor[s]
      BY <1>1, <2>1, <2>3, <3>2
    <3> QED
      BY <3>1, <3>2, <3>3
  <2>4. CASE ~(m.position > cursor[s])
    <3>1. cursor' = [cursor EXCEPT ![s] = cursor[s]]
      BY <2>2, <2>4
    <3>2. PICK c \in Bridge!Positions \cup {0} : c = cursor[s]
      BY <2>1
    <3>3. c >= m.position /\ c >= cursor[s]
      BY <1>1, <2>1, <2>4, <3>2
    <3> QED
      BY <3>1, <3>2, <3>3
  <2> QED
    BY <2>3, <2>4
<1>3. PICK a \in Bridge!Assertion :
        /\ sessions' = [sessions EXCEPT ![epoch] = a] /\ a.integration = m.integration
  <2>1. [handling.assertion EXCEPT !.integration = m.integration] \in Bridge!Assertion
        /\ [handling.assertion EXCEPT !.integration = m.integration].integration = m.integration
    BY <1>1 DEF Bridge!Assertion
  <2> QED
    BY <1>1, <2>1 DEF Bridge!RecordCursor
<1>4. /\ handling' = [handling EXCEPT !.kind = "answer"]
      /\ UNCHANGED <<epoch, live, history, latest, served, acks, handedOn>>
  BY DEF Bridge!RecordCursor, Bridge!manifests
<1>5. /\ handling' \in Bridge!Report /\ handling' # None /\ handling'.kind = "answer"
      /\ handling'.epoch = epoch /\ handling'.report = m
      /\ handling'.assertion = handling.assertion
  <2>1. PICK x \in Bridge!Epochs, r \in Manifests, b \in Bridge!Assertion :
          handling = [kind |-> "cursor", epoch |-> x, report |-> r, assertion |-> b]
    BY <1>1 DEF Bridge!Report
  <2>2. handling' = [kind |-> "answer", epoch |-> x, report |-> r, assertion |-> b]
    BY <1>4, <2>1
  <2>3. [kind |-> "answer", epoch |-> x, report |-> r, assertion |-> b] \in Bridge!Report
    BY DEF Bridge!Report
  <2> QED
    BY <1>1, <2>1, <2>2, <2>3, BridgeFacts
<1>6. /\ cursor' \in [Bridge!ManifestStreams -> Bridge!Positions \cup {0}]
      /\ cursor'[s] = c /\ \A x \in Bridge!ManifestStreams : x # s => cursor'[x] = cursor[x]
  BY <1>1, <1>2 DEF BridgeInv, Bridge!TypeOK
<1>7. /\ sessions' \in [Bridge!Epochs -> Bridge!Assertion \cup {None}]
      /\ sessions'[epoch] = a
      /\ \A e \in Bridge!Epochs : e # epoch => sessions'[e] = sessions[e]
  BY <1>1, <1>3 DEF BridgeInv, Bridge!TypeOK
<1>8. Bridge!TypeOK'
  BY <1>4, <1>5, <1>6, <1>7 DEF BridgeInv, Bridge!TypeOK
<1>9. Recorded(m) /\ (m.integration => Declared)
  <2>1. Recorded(m)
    BY <1>1 DEF BridgeInv, HandlingStands
  <2>2. history[m.position] \in Manifests
    BY <1>1, <2>1 DEF BridgeInv, Bridge!TypeOK, Recorded
  <2>3. history[m.position].integration = m.integration
    BY <1>1, <2>1, <2>2, BridgeFacts DEF Recorded
  <2> QED
    BY <1>1, <2>1, <2>3 DEF Recorded, Declared
<1>10. Declared' <=> Declared
  BY <1>4 DEF Declared
<1>11. HandlingStands'
  BY <1>1, <1>2, <1>4, <1>5, <1>6, <1>9, <1>10
  DEF BridgeInv, HandlingStands, MayServe, Recorded
<1>12. AssertionsStand'
  <2>1. ~signed => epoch = served
    BY <1>1 DEF BridgeInv, HandlingStands, MayServe
  <2> QED
    BY <1>1, <1>3, <1>4, <1>5, <1>7, <1>9, <1>10, <2>1 DEF BridgeInv, AssertionsStand
<1>13. \A n \in acks : cursor'[n.stream] >= n.position
  <2> SUFFICES ASSUME NEW n \in acks PROVE cursor'[n.stream] >= n.position
    OBVIOUS
  <2>1. n.stream \in Bridge!ManifestStreams /\ n.position \in Nat
        /\ cursor[n.stream] \in Nat /\ cursor[n.stream] >= n.position
    <3>1. n \in Manifests /\ cursor[n.stream] >= n.position
      BY DEF BridgeInv, Bridge!TypeOK, Bridge!FailsClosed
    <3>2. n.stream \in Bridge!ManifestStreams /\ n.position \in Nat
      BY <3>1, BridgeFacts
    <3>3. cursor[n.stream] \in Nat
      BY <3>2, BridgeCursor
    <3> QED
      BY <3>1, <3>2, <3>3
  <2>2. CASE n.stream = s
    <3>1. c \in Nat /\ c >= cursor[n.stream]
      BY <1>2, <2>2, BridgeFacts
    <3> QED
      BY <1>6, <2>1, <2>2, <3>1
  <2>3. CASE n.stream # s
    BY <1>6, <2>1, <2>3
  <2> QED
    BY <2>2, <2>3
<1> QED
  BY <1>4, <1>8, <1>11, <1>12, <1>13 DEF BridgeInv, Bridge!FailsClosed

\* An uplink is handed on as it was let through, and binds its stream if it is stored.
LEMMA BridgeHandsOn ==
    ASSUME BridgeInv, Bridge!HandOn, UNCHANGED signed
    PROVE  BridgeInv'
<1>1. /\ handling # None /\ handling.kind = "uplink" /\ handling \in Bridge!Uplink
      /\ handling.epoch \in Bridge!Epochs /\ MayServe(handling.epoch) /\ Declared
      /\ handling.assertion \in Bridge!Assertion /\ handling.stream \in Streams
      /\ handling.binding \in Bindings
  BY BridgeKinds DEF Bridge!HandOn, Bridge!Uplink, BridgeInv, HandlingStands
<1>2. /\ handedOn' = {[epoch |-> handling.epoch, served |-> served, declared |-> Declared]}
      /\ handling' = None
      /\ UNCHANGED <<epoch, live, cursor, history, latest, served, acks>>
  BY <1>1 DEF Bridge!HandOn, Bridge!database, Bridge!manifests, Declared
<1>3. PICK a \in Bridge!Assertion \cup {None} :
        /\ sessions' = [sessions EXCEPT ![handling.epoch] = a]
        /\ a # None => (a.integration => Declared) /\ (~signed => handling.epoch = served)
  <2>1. PICK i \in BOOLEAN, f \in [Streams -> Bindings \cup {None}] :
          handling.assertion = [integration |-> i, bound |-> f]
    BY <1>1 DEF Bridge!Assertion
  <2>2. PICK g \in [Streams -> Bindings \cup {None}] :
          g = [f EXCEPT ![handling.stream] = handling.binding]
    BY <1>1
  <2>3. [handling.assertion EXCEPT !.bound[handling.stream] = handling.binding]
          = [integration |-> i, bound |-> g]
    BY <2>1, <2>2
  <2>4. [integration |-> i, bound |-> g] \in Bridge!Assertion
    BY DEF Bridge!Assertion
  <2>5. CASE sessions' = [sessions EXCEPT ![handling.epoch] =
          [handling.assertion EXCEPT !.bound[handling.stream] = handling.binding]]
    BY <1>1, <2>3, <2>4, <2>5 DEF MayServe
  <2>6. CASE UNCHANGED sessions
    <3>1. sessions' = [sessions EXCEPT ![handling.epoch] = sessions[handling.epoch]]
          /\ sessions[handling.epoch] \in Bridge!Assertion \cup {None}
      BY <1>1, <2>6 DEF BridgeInv, Bridge!TypeOK
    <3> QED
      BY <1>1, <3>1 DEF MayServe
  <2> QED
    BY <2>5, <2>6 DEF Bridge!HandOn
<1>4. /\ sessions' \in [Bridge!Epochs -> Bridge!Assertion \cup {None}]
      /\ sessions'[handling.epoch] = a
      /\ \A e \in Bridge!Epochs : e # handling.epoch => sessions'[e] = sessions[e]
  BY <1>1, <1>3 DEF BridgeInv, Bridge!TypeOK
<1>5. PICK u : /\ u = [epoch |-> handling.epoch, served |-> served, declared |-> Declared]
               /\ u \in [epoch : Bridge!Epochs, served : 0..MaxEpoch, declared : BOOLEAN]
               /\ u.declared /\ u.epoch >= u.served /\ (~signed => u.epoch = u.served)
  <2>1. /\ handling.epoch \in Bridge!Epochs /\ served \in 0..MaxEpoch /\ Declared
        /\ handling.epoch >= served /\ (~signed => handling.epoch = served)
    BY <1>1 DEF MayServe, BridgeInv, Bridge!TypeOK
  <2>2. PICK e \in Bridge!Epochs, v \in 0..MaxEpoch : e = handling.epoch /\ v = served
    BY <2>1
  <2>3. [epoch |-> handling.epoch, served |-> served, declared |-> Declared]
          = [epoch |-> e, served |-> v, declared |-> TRUE]
    BY <2>1, <2>2
  <2>4. e >= v /\ (~signed => e = v)
    BY <2>1, <2>2
  <2>5. [epoch |-> e, served |-> v, declared |-> TRUE]
          \in [epoch : Bridge!Epochs, served : 0..MaxEpoch, declared : BOOLEAN]
    OBVIOUS
  <2> DEFINE w == [epoch |-> e, served |-> v, declared |-> TRUE]
  <2>6. w.declared /\ w.epoch = e /\ w.served = v
    OBVIOUS
  <2> QED
    BY <2>3, <2>4, <2>5, <2>6
<1>6. handedOn' = {u}
  BY <1>2, <1>5
<1>7. Bridge!TypeOK'
  BY <1>2, <1>4, <1>5, <1>6 DEF BridgeInv, Bridge!TypeOK
<1>8. Declared'
  BY <1>1, <1>2 DEF Declared
<1>9. HandlingStands' /\ AssertionsStand'
  BY <1>1, <1>2, <1>3, <1>4, <1>8 DEF BridgeInv, HandlingStands, AssertionsStand
<1> QED
  BY <1>2, <1>5, <1>6, <1>7, <1>9 DEF BridgeInv, Bridge!FailsClosed

\* The steps that forget, or only tell.
LEMMA BridgeEnds ==
    ASSUME BridgeInv, UNCHANGED signed,
           \/ Bridge!CloseSilent \/ Bridge!PublishDurableAck
           \/ Bridge!Fail \/ Bridge!Restart
    PROVE  BridgeInv'
<1>1. CASE Bridge!CloseSilent
  <2>1. live' = FALSE
        /\ UNCHANGED <<epoch, cursor, history, latest, sessions, served, handling, acks,
                       handedOn>>
    BY <1>1 DEF Bridge!CloseSilent, Bridge!manifests, Bridge!assertions
  <2>2. Bridge!TypeOK'
    BY <2>1 DEF BridgeInv, Bridge!TypeOK
  <2>3. (Declared' <=> Declared) /\ \A m : Recorded(m)' <=> Recorded(m)
    BY <2>1 DEF Declared, Recorded
  <2>4. HandlingStands' /\ AssertionsStand'
    BY <2>1, <2>3 DEF BridgeInv, HandlingStands, AssertionsStand, MayServe, Recorded
  <2> QED
    BY <2>1, <2>2, <2>4 DEF BridgeInv, Bridge!FailsClosed
<1>2. CASE Bridge!PublishDurableAck
  <2>1. /\ handling # None /\ handling.kind = "answer" /\ handling.report \in Manifests
        /\ handling' = None /\ acks' = acks \cup {handling.report}
        /\ UNCHANGED <<epoch, live, cursor, history, latest, sessions, served, handedOn>>
    BY <1>2, BridgeKinds
    DEF Bridge!PublishDurableAck, Bridge!database, Bridge!manifests, Bridge!assertions,
        Bridge!Report
  <2>2. Recorded(handling.report)
        /\ cursor[handling.report.stream] >= handling.report.position
    BY <2>1 DEF BridgeInv, HandlingStands
  <2>3. Bridge!TypeOK'
    BY <2>1 DEF BridgeInv, Bridge!TypeOK
  <2>4. HandlingStands' /\ AssertionsStand'
    BY <2>1 DEF BridgeInv, HandlingStands, AssertionsStand, Declared
  <2> QED
    BY <2>1, <2>2, <2>3, <2>4 DEF BridgeInv, Recorded, Bridge!FailsClosed
<1>3. CASE Bridge!Fail
  <2>1. handling' = None
        /\ UNCHANGED <<epoch, live, cursor, history, latest, sessions, served, acks, handedOn>>
    BY <1>3 DEF Bridge!Fail, Bridge!database, Bridge!manifests, Bridge!assertions
  <2> QED
    BY <2>1
    DEF BridgeInv, Bridge!TypeOK, HandlingStands, AssertionsStand, Declared,
        Bridge!FailsClosed
<1>4. CASE Bridge!Restart
  <2>1. /\ handling' = None /\ acks' = {} /\ handedOn' = {} /\ latest' = 0
        /\ history' = Bridge!NoHistory /\ sessions' = Bridge!NoSessions
        /\ UNCHANGED <<epoch, live, cursor, served>>
    BY <1>4 DEF Bridge!Restart, Bridge!database
  <2>2. /\ history' \in [Bridge!Positions -> Manifests \cup {None}]
        /\ sessions' \in [Bridge!Epochs -> Bridge!Assertion \cup {None}]
        /\ \A e \in Bridge!Epochs : sessions'[e] = None
    BY <2>1 DEF Bridge!NoHistory, Bridge!NoSessions
  <2>3. Bridge!TypeOK'
    BY <2>1, <2>2 DEF BridgeInv, Bridge!TypeOK
  <2> QED
    BY <2>1, <2>2, <2>3 DEF BridgeInv, HandlingStands, AssertionsStand, Bridge!FailsClosed
<1> QED
  BY <1>1, <1>2, <1>3, <1>4

\* Every step of the bridge keeps its invariant.
LEMMA BridgeNext == ASSUME BridgeInv, Bridge!Next PROVE BridgeInv'
<1>1. UNCHANGED signed
  BY DEF Bridge!Next
<1>2. CASE Bridge!OpenSession \/ Bridge!AcceptSession
  BY <1>1, <1>2, BridgeOpens
<1>3. CASE \E e \in 1..epoch : Bridge!Deliver(e)
  BY <1>1, <1>3, BridgeDelivers
<1>4. CASE Bridge!RecordManifest
  BY <1>1, <1>4, BridgeRecords
<1>5. CASE Bridge!RecordCursor
  BY <1>1, <1>5, BridgeRecordsCursor
<1>6. CASE Bridge!HandOn
  BY <1>1, <1>6, BridgeHandsOn
<1>7. CASE Bridge!Elsewhere
  BY <1>1, <1>7, BridgeElsewhere
<1>8. CASE Bridge!CloseSilent \/ Bridge!PublishDurableAck \/ Bridge!Fail \/ Bridge!Restart
  BY <1>1, <1>8, BridgeEnds
<1> QED
  BY <1>2, <1>3, <1>4, <1>5, <1>6, <1>7, <1>8 DEF Bridge!Next

(***************************************************************************)
(* The planning of deployment stacks.                                      *)
(***************************************************************************)

Outside == {"idle", "lookup", "stack", "workspace"}
Inside == {"module", "topology", "lock", "init", "validate", "plan", "saved", "show", "store",
           "release", "cleanup"}
UnderLease == {"init", "validate", "plan", "saved", "show", "store", "release"}
Afterwards == {"policy", "insert", "raced"}

\* What the stage of a plan says about its workspace, its lease, its process, its
\* artifact and its result.
PlanIsAt(p) ==
    LET e == executions[p]
        holds == holder[e.command.stack] = p
    IN
    /\ e.stage # "idle" => e.command \in PlanCommands
    /\ \A s \in Planning!Stacks : holder[s] = p =>
         s = e.command.stack /\ e.stage \in UnderLease \cup {"cleanup", "answered"}
    /\ e.stage \in Outside => p \notin directories
    /\ e.stage \in Inside => p \in directories
    /\ e.stage \in UnderLease => holds
    /\ child[p] # "none" => e.stage \in Planning!Processes
    /\ e.stage \in {"release", "cleanup", "answered"} => e.result \in Planning!Answers
    /\ e.stage \in {"release", "cleanup"} /\ e.result.ok => p \in artifacts
    /\ e.stage = "cleanup" /\ holds =>
         ~e.result.ok /\ e.result.code = "state-lock-release-failed"
    /\ e.stage \in Afterwards => p \notin directories /\ p \in artifacts
    /\ e.stage = "raced" => records[e.command.request] # None

\* What is left behind is told, and who is answered with a plan is answered with the one
\* that is recorded.
AnswerStands(p) ==
    LET e == executions[p]
        told == e.result
        record == records[e.command.request]
    IN
    e.stage = "answered" =>
      /\ p \in directories =>
           ~told.ok /\ told.code \in {"workspace-creation-failed", "workspace-cleanup-failed"}
      /\ holder[e.command.stack] = p =>
           ~told.ok /\ told.code \in {"state-lock-release-failed", "workspace-cleanup-failed"}
      /\ told.ok => record # None /\ record.plan = told.plan /\ record.command = e.command

RecordsStand ==
    \A r \in PlanRequests : records[r] # None =>
      LET q == records[r].plan IN
      /\ executions[q].stage = "answered"
      /\ q \in artifacts /\ q \notin directories /\ \A s \in Planning!Stacks : holder[s] # q

PlanningInv ==
    /\ Planning!TypeOK
    /\ \A p \in Plans : PlanIsAt(p) /\ AnswerStands(p)
    /\ RecordsStand

\* What is assumed of the constants of the planning.
LEMMA PlanningFacts ==
    /\ None \notin Plans /\ None \notin Planning!Record
    /\ \A c \in PlanCommands : c.request \in PlanRequests /\ c.stack \in Planning!Stacks
BY WorkersAssumption
DEF Planning!PlanningAssumption, Planning!NoneIsNoRecord, Planning!Stacks

\* The invariant of the planning holds when it begins.
LEMMA PlanningInit == ASSUME Planning!Init PROVE PlanningInv
<1>1. Planning!Idle \in Planning!Execution
  BY DEF Planning!Idle, Planning!Execution, Planning!Stages
<1>2. Planning!TypeOK
  BY <1>1 DEF Planning!Init, Planning!TypeOK
<1>3. ASSUME NEW p \in Plans PROVE PlanIsAt(p) /\ AnswerStands(p)
  <2>1. /\ executions[p].stage = "idle" /\ directories = {} /\ child[p] = "none"
        /\ \A s \in Planning!Stacks : holder[s] # p
    BY PlanningFacts DEF Planning!Init, Planning!Idle
  <2> QED
    BY <2>1 DEF PlanIsAt, AnswerStands, Outside, Inside, UnderLease, Afterwards
<1>4. RecordsStand
  BY DEF Planning!Init, RecordsStand
<1> QED
  BY <1>2, <1>3, <1>4 DEF PlanningInv

----------------------------------------------------------------------------
(* What a step of a plan leaves alone.                                     *)

\* It takes and gives back its own lease, workspace and process only.
LeavesOthers(p) ==
    /\ \A q \in Plans : q # p =>
         /\ \A s \in Planning!Stacks : holder'[s] = q <=> holder[s] = q
         /\ q \in directories' <=> q \in directories
         /\ q \in artifacts' <=> q \in artifacts
         /\ child'[q] = child[q]
    /\ holder' \in [Planning!Stacks -> Plans \cup {None}]
    /\ directories' \subseteq Plans /\ artifacts' \subseteq Plans
    /\ child' \in [Plans -> {"none", "running"} \cup Planning!Terminations]

\* No record is changed, and a new one is of the plan that is answered with it.
RecordsGrow(p) ==
    /\ records' \in [PlanRequests -> Planning!Record \cup {None}]
    /\ \A r \in PlanRequests :
         \/ records'[r] = records[r]
         \/ /\ records[r] = None /\ records'[r].plan = p
            /\ executions'[p].stage = "answered"
            /\ p \in artifacts' /\ p \notin directories'
            /\ \A s \in Planning!Stacks : holder'[s] # p

LEMMA PlanningSteps ==
    ASSUME PlanningInv, NEW p \in Plans, NEW x \in Planning!Execution,
           executions[p].stage # "answered",
           executions' = [executions EXCEPT ![p] = x], LeavesOthers(p), RecordsGrow(p),
           PlanIsAt(p)', AnswerStands(p)'
    PROVE  PlanningInv'
<1>1. /\ executions' \in [Plans -> Planning!Execution]
      /\ \A q \in Plans : q # p => executions'[q] = executions[q]
  BY DEF PlanningInv, Planning!TypeOK
<1>2. Planning!TypeOK'
  BY <1>1 DEF LeavesOthers, RecordsGrow, Planning!TypeOK
<1>3. ASSUME NEW q \in Plans, q # p PROVE PlanIsAt(q)' /\ AnswerStands(q)'
  <2>1. PlanIsAt(q) /\ AnswerStands(q) /\ executions'[q] = executions[q]
    BY <1>1, <1>3 DEF PlanningInv
  <2>2. executions[q].stage \in
          {"idle"} \cup Outside \cup Inside \cup Afterwards \cup {"answered"}
    BY DEF PlanningInv, Planning!TypeOK, Planning!Execution, Planning!Stages,
           Planning!Processes, Outside, Inside, Afterwards
  <2>3. executions[q].stage # "idle" =>
          executions[q].command.stack \in Planning!Stacks
          /\ executions[q].command.request \in PlanRequests
    BY <2>1, PlanningFacts DEF PlanIsAt
  <2>4. \A r \in PlanRequests : records[r] # None => records'[r] = records[r]
    BY DEF RecordsGrow
  <2>5. /\ \A s \in Planning!Stacks : holder'[s] = q <=> holder[s] = q
        /\ q \in directories' <=> q \in directories
        /\ q \in artifacts' <=> q \in artifacts
        /\ child'[q] = child[q]
    BY <1>3 DEF LeavesOthers
  <2>6. PlanIsAt(q)'
    BY <2>1, <2>3, <2>4, <2>5 DEF PlanIsAt, UnderLease, Afterwards
  <2>7. AnswerStands(q)'
    BY <2>1, <2>3, <2>4, <2>5 DEF AnswerStands
  <2> QED
    BY <2>6, <2>7
<1>4. RecordsStand'
  <2> SUFFICES ASSUME NEW r \in PlanRequests, records'[r] # None
               PROVE  LET q == records'[r].plan IN
                      /\ executions'[q].stage = "answered"
                      /\ q \in artifacts' /\ q \notin directories'
                      /\ \A s \in Planning!Stacks : holder'[s] # q
    BY DEF RecordsStand
  <2>1. CASE records[r] # None
    <3>1. records'[r] = records[r]
      BY <2>1 DEF RecordsGrow
    <3>2. PICK q \in Plans : q = records[r].plan
      BY <2>1 DEF PlanningInv, Planning!TypeOK, Planning!Record
    <3>3. /\ executions[q].stage = "answered" /\ q \in artifacts /\ q \notin directories
          /\ \A s \in Planning!Stacks : holder[s] # q
      BY <2>1, <3>2 DEF PlanningInv, RecordsStand
    <3>4. q # p
      BY <3>3
    <3> QED
      BY <1>1, <3>1, <3>2, <3>3, <3>4 DEF LeavesOthers
  <2>2. CASE records[r] = None
    BY <2>2 DEF RecordsGrow
  <2> QED
    BY <2>1, <2>2
<1> QED
  BY <1>2, <1>3, <1>4 DEF PlanningInv

\* The three ways to go on.
LEMMA PlanningGo ==
    ASSUME PlanningInv, NEW p \in Plans, NEW stage \in Planning!Stages, Planning!Go(p, stage)
    PROVE  \E x \in Planning!Execution :
             /\ executions' = [executions EXCEPT ![p] = x]
             /\ x.stage = stage /\ x.command = executions[p].command
             /\ x.result = executions[p].result
<1>1. PICK e \in Planning!Execution : e = executions[p]
  BY DEF PlanningInv, Planning!TypeOK
<1>2. PICK x : x = [e EXCEPT !.stage = stage]
  OBVIOUS
<1>3. x \in Planning!Execution /\ x.stage = stage /\ x.command = e.command
      /\ x.result = e.result
  BY <1>2 DEF Planning!Execution
<1>4. executions' = [executions EXCEPT ![p] = x]
  BY <1>1, <1>2 DEF Planning!Go
<1> QED
  BY <1>1, <1>3, <1>4

LEMMA PlanningAnswer ==
    ASSUME PlanningInv, NEW p \in Plans, NEW result \in Planning!Answers,
           Planning!Answer(p, result)
    PROVE  \E x \in Planning!Execution :
             /\ executions' = [executions EXCEPT ![p] = x]
             /\ x.stage = "answered" /\ x.command = executions[p].command /\ x.result = result
<1>1. PICK e \in Planning!Execution : e = executions[p]
  BY DEF PlanningInv, Planning!TypeOK
<1>2. PICK x : x = [e EXCEPT !.stage = "answered", !.result = result]
  OBVIOUS
<1>3. x \in Planning!Execution /\ x.stage = "answered" /\ x.command = e.command
      /\ x.result = result
  BY <1>2 DEF Planning!Execution, Planning!Stages
<1>4. executions' = [executions EXCEPT ![p] = x]
  BY <1>1, <1>2 DEF Planning!Answer
<1> QED
  BY <1>1, <1>3, <1>4

PlanLeaves(p, stage, result) ==
    executions' = [executions EXCEPT ![p].stage = stage, ![p].result = result]

LEMMA PlanningLeave ==
    ASSUME PlanningInv, NEW p \in Plans, NEW result \in Planning!Answers,
           NEW stage \in {"release", "cleanup"}, PlanLeaves(p, stage, result)
    PROVE  \E x \in Planning!Execution :
             /\ executions' = [executions EXCEPT ![p] = x]
             /\ x.stage = stage /\ x.command = executions[p].command /\ x.result = result
<1>1. PICK e \in Planning!Execution : e = executions[p]
  BY DEF PlanningInv, Planning!TypeOK
<1>2. PICK x : x = [e EXCEPT !.stage = stage, !.result = result]
  OBVIOUS
<1>3. x \in Planning!Execution /\ x.stage = stage /\ x.command = e.command
      /\ x.result = result
  BY <1>2 DEF Planning!Execution, Planning!Stages
<1>4. executions' = [executions EXCEPT ![p] = x]
  BY <1>1, <1>2 DEF PlanLeaves
<1> QED
  BY <1>1, <1>3, <1>4

\* A failure is an answer.
LEMMA PlanningFailure ==
    ASSUME NEW code \in Planning!Codes
    PROVE  /\ Planning!Failure(code) \in Planning!Answers
           /\ ~Planning!Failure(code).ok /\ Planning!Failure(code).code = code
BY DEF Planning!Failure, Planning!Answers

\* What is known of an execution.
LEMMA PlanningAt ==
    ASSUME PlanningInv, NEW p \in Plans
    PROVE  /\ executions[p] \in Planning!Execution /\ PlanIsAt(p) /\ AnswerStands(p)
           /\ executions[p].stage # "idle" =>
                /\ executions[p].command.stack \in Planning!Stacks
                /\ executions[p].command.request \in PlanRequests
BY PlanningFacts DEF PlanningInv, Planning!TypeOK, PlanIsAt

\* A step that leaves everything but the execution and its process.
LEMMA PlanningFrame ==
    ASSUME PlanningInv, NEW p \in Plans, UNCHANGED <<records, holder, directories, artifacts>>,
           child' \in [Plans -> {"none", "running"} \cup Planning!Terminations],
           \A q \in Plans : q # p => child'[q] = child[q]
    PROVE  LeavesOthers(p) /\ RecordsGrow(p)
BY DEF PlanningInv, Planning!TypeOK, LeavesOthers, RecordsGrow

----------------------------------------------------------------------------
\* From one stage to another of the same kind.
SameKind(a, b) ==
    \/ a \in Outside \ {"idle"} /\ b \in Outside \ {"idle"}
    \/ a \in {"module", "topology", "lock"} /\ b \in {"module", "topology", "lock"}
    \/ a \in UnderLease \ {"release"} /\ b \in UnderLease \ {"release"}
    \/ a = "policy" /\ b = "insert"

LEMMA PlanningGoes ==
    ASSUME PlanningInv, NEW p \in Plans, NEW stage, SameKind(executions[p].stage, stage),
           Planning!Go(p, stage), UNCHANGED <<records, holder, directories, artifacts>>,
           child' \in [Plans -> {"none", "running"} \cup Planning!Terminations],
           \A q \in Plans : q # p => child'[q] = child[q], child'[p] = "none"
    PROVE  PlanningInv'
<1>1. stage \in Planning!Stages
  BY DEF SameKind, Outside, UnderLease, Planning!Stages, Planning!Processes
<1>2. PICK x \in Planning!Execution :
        /\ executions' = [executions EXCEPT ![p] = x]
        /\ x.stage = stage /\ x.command = executions[p].command
  BY <1>1, PlanningGo
<1>3. executions'[p] = x
  BY <1>2 DEF PlanningInv, Planning!TypeOK
<1>4. PlanIsAt(p)
  BY PlanningAt
<1>5. PlanIsAt(p)'
  BY <1>2, <1>3, <1>4
  DEF PlanIsAt, SameKind, Outside, Inside, UnderLease, Afterwards
<1>6. AnswerStands(p)' /\ executions[p].stage # "answered"
  BY <1>2, <1>3 DEF AnswerStands, SameKind, Outside, UnderLease
<1> QED
  BY <1>2, <1>5, <1>6, PlanningFrame, PlanningSteps

\* Out of the engine, with a result: to the release of the lease, if it is held.
LEMMA PlanningLeaves ==
    ASSUME PlanningInv, NEW p \in Plans, NEW result \in Planning!Answers,
           Planning!Leave(p, result), executions[p].stage \in Inside \ {"release", "cleanup"},
           UNCHANGED <<records, holder, directories>>,
           artifacts' \in {artifacts, artifacts \cup {p}}, result.ok => p \in artifacts',
           child' \in [Plans -> {"none", "running"} \cup Planning!Terminations],
           \A q \in Plans : q # p => child'[q] = child[q], child'[p] = "none"
    PROVE  PlanningInv'
<1>1. PICK stage \in {"release", "cleanup"} :
        stage = IF Planning!Holds(p) THEN "release" ELSE "cleanup"
  OBVIOUS
<1>0. PlanLeaves(p, stage, result)
  BY <1>1 DEF Planning!Leave, PlanLeaves
<1>2. PICK x \in Planning!Execution :
        /\ executions' = [executions EXCEPT ![p] = x]
        /\ x.stage = stage /\ x.command = executions[p].command /\ x.result = result
  BY <1>0, PlanningLeave
<1>3. executions'[p] = x
  BY <1>2 DEF PlanningInv, Planning!TypeOK
<1>4. PlanIsAt(p)
  BY PlanningAt
<1>5. executions[p].stage # "idle" /\ executions[p].stage # "answered"
      /\ p \in directories /\ executions[p].command \in PlanCommands
      /\ executions[p].stage \notin {"cleanup", "release"}
  BY <1>4 DEF PlanIsAt, Inside
<1>6. holder[x.command.stack] = p <=> stage = "release"
  BY <1>1, <1>2 DEF Planning!Holds, Planning!StackOf
<1>7. PlanIsAt(p)'
  BY <1>2, <1>3, <1>4, <1>5, <1>6
  DEF PlanIsAt, Outside, Inside, UnderLease, Afterwards
<1>8. AnswerStands(p)'
  BY <1>2, <1>3 DEF AnswerStands
<1>9. LeavesOthers(p) /\ RecordsGrow(p)
  BY DEF PlanningInv, Planning!TypeOK, LeavesOthers, RecordsGrow
<1> QED
  BY <1>2, <1>5, <1>7, <1>8, <1>9, PlanningSteps

LEMMA PlanningFails ==
    ASSUME PlanningInv, NEW p \in Plans, NEW code \in Planning!Codes,
           Planning!Fails(p, code), executions[p].stage \in Inside \ {"release", "cleanup"},
           UNCHANGED <<records, holder, directories>>,
           artifacts' \in {artifacts, artifacts \cup {p}},
           child' \in [Plans -> {"none", "running"} \cup Planning!Terminations],
           \A q \in Plans : q # p => child'[q] = child[q], child'[p] = "none"
    PROVE  PlanningInv'
BY PlanningFailure, PlanningLeaves DEF Planning!Fails

\* An answer without a lease, a process or a workspace.
LEMMA PlanningAnswers ==
    ASSUME PlanningInv, NEW p \in Plans, NEW result \in Planning!Answers,
           Planning!Answer(p, result),
           executions[p].stage \in {"lookup", "stack"} \cup Afterwards,
           UNCHANGED <<holder, directories, artifacts, child>>, RecordsGrow(p),
           LET record == records'[executions[p].command.request] IN
           result.ok => record # None /\ record.plan = result.plan
                        /\ record.command = executions[p].command
    PROVE  PlanningInv'
<1>1. PICK x \in Planning!Execution :
        /\ executions' = [executions EXCEPT ![p] = x]
        /\ x.stage = "answered" /\ x.command = executions[p].command /\ x.result = result
  BY PlanningAnswer
<1>2. executions'[p] = x
  BY <1>1 DEF PlanningInv, Planning!TypeOK
<1>3. PlanIsAt(p)
  BY PlanningAt
<1>4. /\ p \notin directories /\ child[p] = "none" /\ executions[p].command \in PlanCommands
      /\ \A s \in Planning!Stacks : holder[s] # p
      /\ executions[p].command.stack \in Planning!Stacks
      /\ executions[p].stage # "answered"
  BY <1>3, PlanningAt
  DEF PlanIsAt, Outside, UnderLease, Afterwards, Planning!Processes
<1>5. PlanIsAt(p)'
  BY <1>1, <1>2, <1>4 DEF PlanIsAt, Outside, Inside, UnderLease, Afterwards
<1>6. AnswerStands(p)'
  BY <1>1, <1>2, <1>4 DEF AnswerStands
<1>7. LeavesOthers(p)
  BY DEF PlanningInv, Planning!TypeOK, LeavesOthers
<1> QED
  BY <1>1, <1>4, <1>5, <1>6, <1>7, PlanningSteps

----------------------------------------------------------------------------
(* The operations.                                                         *)

LEMMA PlanningTypes ==
    ASSUME PlanningInv
    PROVE  Planning!TypeOK
BY DEF PlanningInv

\* A new execution of a command.
LEMMA PlanningRequest ==
    ASSUME PlanningInv, NEW p \in Plans, NEW command \in PlanCommands,
           Planning!Request(p, command)
    PROVE  PlanningInv'
<1>1. PICK e \in Planning!Execution : e = executions[p]
  BY PlanningAt
<1>2. PICK x : x = [e EXCEPT !.stage = "lookup", !.command = command]
  OBVIOUS
<1>3. x \in Planning!Execution /\ x.stage = "lookup" /\ x.command = command
  BY <1>2 DEF Planning!Execution, Planning!Stages
<1>4. executions' = [executions EXCEPT ![p] = x]
  BY <1>1, <1>2 DEF Planning!Request
<1>5. executions'[p] = x
  BY <1>4 DEF PlanningInv, Planning!TypeOK
<1>6. PlanIsAt(p) /\ executions[p].stage = "idle"
  BY PlanningAt DEF Planning!Request, Planning!At
<1>7. /\ p \notin directories /\ child[p] = "none"
      /\ \A s \in Planning!Stacks : holder[s] # p
  BY <1>6 DEF PlanIsAt, Outside, UnderLease, Planning!Processes
<1>8. UNCHANGED <<records, holder, directories, artifacts, child>>
  BY DEF Planning!Request
<1>9. PlanIsAt(p)'
  BY <1>3, <1>5, <1>7, <1>8 DEF PlanIsAt, Outside, Inside, UnderLease, Afterwards
<1>10. AnswerStands(p)'
  BY <1>3, <1>5 DEF AnswerStands
<1>11. LeavesOthers(p) /\ RecordsGrow(p)
  BY <1>8 DEF PlanningInv, Planning!TypeOK, LeavesOthers, RecordsGrow
<1> QED
  BY <1>3, <1>4, <1>6, <1>9, <1>10, <1>11, PlanningSteps

\* An answer that follows a record, or refuses for what it says.
FollowsRecord(p, code) ==
    LET record == records[executions[p].command.request] IN
    /\ record # None
    /\ IF Planning!sameRequest(record, p)
       THEN Planning!Answer(p, [ok |-> TRUE, plan |-> record.plan])
       ELSE Planning!Answer(p, Planning!Failure(code))

LEMMA PlanningFollows ==
    ASSUME PlanningInv, NEW p \in Plans, executions[p].stage \in {"lookup", "raced"},
           NEW code \in Planning!Codes, FollowsRecord(p, code),
           UNCHANGED <<records, holder, directories, artifacts, child>>
    PROVE  PlanningInv'
<1>1. executions[p].command.request \in PlanRequests
  BY PlanningAt
<1>2. PICK record \in Planning!Record : record = records[executions[p].command.request]
  BY <1>1 DEF PlanningInv, Planning!TypeOK, FollowsRecord
<1>3. RecordsGrow(p)
  BY DEF PlanningInv, Planning!TypeOK, RecordsGrow
<1>4. CASE Planning!sameRequest(record, p)
  <2>0. [ok |-> TRUE, plan |-> record.plan] \in Planning!Answers
    BY DEF Planning!Answers, Planning!Record
  <2>1. PICK result \in Planning!Answers :
          result = [ok |-> TRUE, plan |-> record.plan] /\ result.plan = record.plan
    BY <2>0
  <2>2. Planning!Answer(p, result)
    BY <1>2, <1>4, <2>1 DEF FollowsRecord
  <2> QED
    BY <1>2, <1>3, <1>4, <2>1, <2>2, PlanningAnswers
    DEF Planning!sameRequest, Afterwards, FollowsRecord
<1>5. CASE ~Planning!sameRequest(record, p)
  <2>1. Planning!Answer(p, Planning!Failure(code))
    BY <1>2, <1>5 DEF FollowsRecord
  <2> QED
    BY <1>3, <2>1, PlanningAnswers, PlanningFailure DEF Afterwards
<1> QED
  BY <1>4, <1>5

\* A refusal before the engine is at work, or after it.
LEMMA PlanningRefuses ==
    ASSUME PlanningInv, NEW p \in Plans, NEW code \in Planning!Codes,
           Planning!Answer(p, Planning!Failure(code)),
           executions[p].stage \in {"lookup", "stack"} \cup Afterwards,
           UNCHANGED <<records, holder, directories, artifacts, child>>
    PROVE  PlanningInv'
<1>1. RecordsGrow(p)
  BY DEF PlanningInv, Planning!TypeOK, RecordsGrow
<1> QED
  BY <1>1, PlanningAnswers, PlanningFailure

\* A step to another stage of the same kind that has no process.
LEMMA PlanningProceeds ==
    ASSUME PlanningInv, NEW p \in Plans, NEW stage, SameKind(executions[p].stage, stage),
           Planning!Go(p, stage), executions[p].stage \notin Planning!Processes,
           UNCHANGED <<records, holder, directories, artifacts, child>>
    PROVE  PlanningInv'
<1>1. PlanIsAt(p)
  BY PlanningAt
<1>2. child[p] = "none" /\ child' \in [Plans -> {"none", "running"} \cup Planning!Terminations]
  BY <1>1 DEF PlanIsAt, PlanningInv, Planning!TypeOK
<1> QED
  BY <1>2, PlanningGoes

LEMMA PlanningGivesUp ==
    ASSUME PlanningInv, NEW p \in Plans, NEW code \in Planning!Codes, Planning!Fails(p, code),
           executions[p].stage \in Inside \ {"release", "cleanup"},
           executions[p].stage \notin Planning!Processes \/ child[p] = "none",
           UNCHANGED <<records, holder, directories, child>>,
           artifacts' \in {artifacts, artifacts \cup {p}}
    PROVE  PlanningInv'
<1>1. PlanIsAt(p)
  BY PlanningAt
<1>2. child[p] = "none" /\ child' \in [Plans -> {"none", "running"} \cup Planning!Terminations]
  BY <1>1 DEF PlanIsAt, PlanningInv, Planning!TypeOK
<1> QED
  BY <1>2, PlanningFails

LEMMA PlanningFindByRequest ==
    ASSUME PlanningInv, NEW p \in Plans, Planning!FindByRequest(p)
    PROVE  PlanningInv'
<1>1. executions[p].stage = "lookup"
      /\ UNCHANGED <<records, holder, directories, artifacts, child>>
  BY DEF Planning!FindByRequest, Planning!At
<1>2. CASE records[executions[p].command.request] = None
  <2>1. Planning!Go(p, "stack")
    BY <1>2 DEF Planning!FindByRequest
  <2> QED
    BY <1>1, <2>1, PlanningProceeds DEF SameKind, Outside, Planning!Processes
<1>3. CASE records[executions[p].command.request] # None
  <2>1. "idempotency-conflict" \in Planning!Codes /\ FollowsRecord(p, "idempotency-conflict")
    BY <1>3 DEF Planning!FindByRequest, Planning!AnswerExisting, FollowsRecord, Planning!Codes
  <2> QED
    BY <1>1, <2>1, PlanningFollows
<1> QED
  BY <1>2, <1>3

LEMMA PlanningFindStack ==
    ASSUME PlanningInv, NEW p \in Plans, Planning!FindStack(p)
    PROVE  PlanningInv'
<1>1. executions[p].stage = "stack"
      /\ UNCHANGED <<records, holder, directories, artifacts, child>>
  BY DEF Planning!FindStack, Planning!At
<1>2. ASSUME NEW code \in Planning!Codes, Planning!Answer(p, Planning!Failure(code))
      PROVE  PlanningInv'
  BY <1>1, <1>2, PlanningRefuses
<1>3. ASSUME Planning!Go(p, "workspace") PROVE PlanningInv'
  BY <1>1, <1>3, PlanningProceeds DEF SameKind, Outside, Planning!Processes
<1> QED
  BY <1>2, <1>3 DEF Planning!FindStack, Planning!Codes

LEMMA PlanningAnswerRaced ==
    ASSUME PlanningInv, NEW p \in Plans, Planning!AnswerRaced(p)
    PROVE  PlanningInv'
<1>1. executions[p].stage = "raced"
      /\ UNCHANGED <<records, holder, directories, artifacts, child>>
  BY DEF Planning!AnswerRaced, Planning!At
<1>2. records[executions[p].command.request] # None
  BY <1>1, PlanningAt DEF PlanIsAt
<1>3. "concurrent-modification" \in Planning!Codes /\ FollowsRecord(p, "concurrent-modification")
  BY <1>2 DEF Planning!AnswerRaced, FollowsRecord, Planning!Codes
<1> QED
  BY <1>1, <1>3, PlanningFollows

LEMMA PlanningEvaluate ==
    ASSUME PlanningInv, NEW p \in Plans, Planning!Evaluate(p)
    PROVE  PlanningInv'
<1>1. executions[p].stage = "policy"
      /\ UNCHANGED <<records, holder, directories, artifacts, child>>
  BY DEF Planning!Evaluate, Planning!At
<1>2. ASSUME NEW code \in Planning!Refusals, Planning!Answer(p, Planning!Failure(code))
      PROVE  PlanningInv'
  <2>1. code \in Planning!Codes
    BY DEF Planning!Refusals, Planning!Codes
  <2> QED
    BY <1>1, <1>2, <2>1, PlanningRefuses DEF Afterwards
<1>3. ASSUME Planning!Go(p, "insert") PROVE PlanningInv'
  BY <1>1, <1>3, PlanningProceeds DEF SameKind, Planning!Processes
<1> QED
  BY <1>2, <1>3 DEF Planning!Evaluate

LEMMA PlanningMaterialize ==
    ASSUME PlanningInv, NEW p \in Plans, Planning!Materialize(p)
    PROVE  PlanningInv'
<1>1. executions[p].stage \in {"module", "topology"}
      /\ UNCHANGED <<records, holder, directories, artifacts, child>>
  BY DEF Planning!Materialize, Planning!At
<1>2. ASSUME NEW code \in Planning!Codes, Planning!Fails(p, code) PROVE PlanningInv'
  BY <1>1, <1>2, PlanningGivesUp DEF Inside, Planning!Processes
<1>3. ASSUME NEW stage \in {"topology", "lock"}, Planning!Go(p, stage) PROVE PlanningInv'
  BY <1>1, <1>3, PlanningProceeds DEF SameKind, Planning!Processes
<1> QED
  BY <1>2, <1>3 DEF Planning!Materialize, Planning!GoUnlessAborted, Planning!Codes

LEMMA PlanningAcquireLockFails ==
    ASSUME PlanningInv, NEW p \in Plans, Planning!AcquireLockFails(p)
    PROVE  PlanningInv'
<1>1. executions[p].stage = "lock"
      /\ UNCHANGED <<records, holder, directories, artifacts, child>>
  BY DEF Planning!AcquireLockFails, Planning!At
<1>2. ASSUME NEW code \in Planning!Codes, Planning!Fails(p, code) PROVE PlanningInv'
  BY <1>1, <1>2, PlanningGivesUp DEF Inside, Planning!Processes
<1> QED
  BY <1>2 DEF Planning!AcquireLockFails, Planning!Codes

LEMMA PlanningReadSavedPlan ==
    ASSUME PlanningInv, NEW p \in Plans, Planning!ReadSavedPlan(p)
    PROVE  PlanningInv'
<1>1. executions[p].stage = "saved"
      /\ UNCHANGED <<records, holder, directories, artifacts, child>>
  BY DEF Planning!ReadSavedPlan, Planning!At
<1>2. ASSUME NEW code \in Planning!Codes, Planning!Fails(p, code) PROVE PlanningInv'
  BY <1>1, <1>2, PlanningGivesUp DEF Inside, Planning!Processes
<1>3. ASSUME Planning!Go(p, "show") PROVE PlanningInv'
  BY <1>1, <1>3, PlanningProceeds DEF SameKind, UnderLease, Planning!Processes
<1> QED
  BY <1>2, <1>3 DEF Planning!ReadSavedPlan, Planning!Codes

LEMMA PlanningStoreArtifact ==
    ASSUME PlanningInv, NEW p \in Plans, Planning!StoreArtifact(p)
    PROVE  PlanningInv'
<1>1. executions[p].stage = "store" /\ UNCHANGED <<records, holder, directories, child>>
      /\ artifacts' \in {artifacts, artifacts \cup {p}}
  BY DEF Planning!StoreArtifact, Planning!At
<1>2. ASSUME NEW code \in Planning!Codes, Planning!Fails(p, code) PROVE PlanningInv'
  BY <1>1, <1>2, PlanningGivesUp DEF Inside, Planning!Processes
<1>3. ASSUME Planning!Leave(p, [ok |-> TRUE, plan |-> p]), p \in artifacts' PROVE PlanningInv'
  <2>1. [ok |-> TRUE, plan |-> p] \in Planning!Answers
    BY DEF Planning!Answers
  <2>2. child[p] = "none"
        /\ child' \in [Plans -> {"none", "running"} \cup Planning!Terminations]
    BY <1>1, PlanningAt DEF PlanIsAt, PlanningInv, Planning!TypeOK, Planning!Processes
  <2> QED
    BY <1>1, <1>3, <2>1, <2>2, PlanningLeaves DEF Inside
<1> QED
  BY <1>2, <1>3 DEF Planning!StoreArtifact, Planning!Codes

\* The workspace is made, or not.
LEMMA PlanningCreateWorkspace ==
    ASSUME PlanningInv, NEW p \in Plans,
           Planning!CreateWorkspace(p) \/ Planning!CreateWorkspaceFails(p)
    PROVE  PlanningInv'
<1>1. /\ executions[p].stage = "workspace" /\ directories' \in {directories, directories \cup {p}}
      /\ UNCHANGED <<records, holder, artifacts, child>>
  BY DEF Planning!CreateWorkspace, Planning!CreateWorkspaceFails, Planning!At
<1>2. PlanIsAt(p) /\ executions[p].stage # "idle" /\ executions[p].stage # "answered"
  BY <1>1, PlanningAt
<1>3. /\ executions[p].command \in PlanCommands /\ child[p] = "none"
      /\ \A s \in Planning!Stacks : holder[s] # p
      /\ executions[p].command.stack \in Planning!Stacks
  BY <1>1, <1>2, PlanningAt DEF PlanIsAt, Planning!Processes, UnderLease
<1>4. LeavesOthers(p) /\ RecordsGrow(p)
  BY <1>1 DEF PlanningInv, Planning!TypeOK, LeavesOthers, RecordsGrow
<1>5. ASSUME Planning!Go(p, "module"), p \in directories' PROVE PlanningInv'
  <2>1. "module" \in Planning!Stages
    BY DEF Planning!Stages
  <2>2. PICK x \in Planning!Execution :
          /\ executions' = [executions EXCEPT ![p] = x]
          /\ x.stage = "module" /\ x.command = executions[p].command
    BY <1>5, <2>1, PlanningGo
  <2>3. executions'[p] = x
    BY <2>2 DEF PlanningInv, Planning!TypeOK
  <2>4. PlanIsAt(p)' /\ AnswerStands(p)'
    BY <1>1, <1>3, <1>5, <2>2, <2>3
    DEF PlanIsAt, AnswerStands, Outside, Inside, UnderLease, Afterwards
  <2> QED
    BY <1>2, <1>4, <2>2, <2>4, PlanningSteps
<1>6. ASSUME Planning!Fails(p, "engine-cancelled"), p \in directories' PROVE PlanningInv'
  <2>1. "engine-cancelled" \in Planning!Codes
    BY DEF Planning!Codes
  <2>2. PlanLeaves(p, "cleanup", Planning!Failure("engine-cancelled"))
    BY <1>3, <1>6 DEF PlanLeaves, Planning!Fails, Planning!Leave, Planning!Holds, Planning!StackOf
  <2>3. PICK x \in Planning!Execution :
          /\ executions' = [executions EXCEPT ![p] = x] /\ x.stage = "cleanup"
          /\ x.command = executions[p].command
          /\ x.result = Planning!Failure("engine-cancelled")
    BY <2>1, <2>2, PlanningLeave, PlanningFailure
  <2>4. executions'[p] = x
    BY <2>3 DEF PlanningInv, Planning!TypeOK
  <2>5. x.result \in Planning!Answers /\ ~x.result.ok
    BY <2>1, <2>3, PlanningFailure
  <2>6. PlanIsAt(p)' /\ AnswerStands(p)'
    BY <1>1, <1>3, <1>6, <2>3, <2>4, <2>5
    DEF PlanIsAt, AnswerStands, Outside, Inside, UnderLease, Afterwards
  <2> QED
    BY <1>2, <1>4, <2>3, <2>6, PlanningSteps
<1>7. ASSUME Planning!Answer(p, Planning!Failure("workspace-creation-failed")) PROVE PlanningInv'
  <2>1. "workspace-creation-failed" \in Planning!Codes
    BY DEF Planning!Codes
  <2>2. PICK x \in Planning!Execution :
          /\ executions' = [executions EXCEPT ![p] = x] /\ x.stage = "answered"
          /\ x.command = executions[p].command
          /\ x.result = Planning!Failure("workspace-creation-failed")
    BY <1>7, <2>1, PlanningAnswer, PlanningFailure
  <2>3. executions'[p] = x
    BY <2>2 DEF PlanningInv, Planning!TypeOK
  <2>4. /\ x.result \in Planning!Answers /\ ~x.result.ok
        /\ x.result.code = "workspace-creation-failed"
    BY <2>1, <2>2, PlanningFailure
  <2>5. PlanIsAt(p)' /\ AnswerStands(p)'
    BY <1>1, <1>3, <2>2, <2>3, <2>4
    DEF PlanIsAt, AnswerStands, Outside, Inside, UnderLease, Afterwards
  <2> QED
    BY <1>2, <1>4, <2>2, <2>5, PlanningSteps
<1>8. CASE Planning!CreateWorkspace(p)
  <2>1. p \in directories'
    BY <1>8 DEF Planning!CreateWorkspace
  <2> QED
    BY <1>5, <1>6, <1>8, <2>1 DEF Planning!CreateWorkspace, Planning!GoUnlessAborted
<1>9. CASE Planning!CreateWorkspaceFails(p)
  BY <1>7, <1>9 DEF Planning!CreateWorkspaceFails
<1> QED
  BY <1>8, <1>9

\* The lease is taken.
LEMMA PlanningAcquireLock ==
    ASSUME PlanningInv, NEW p \in Plans, Planning!AcquireLock(p)
    PROVE  PlanningInv'
<1>1. /\ executions[p].stage = "lock"
      /\ UNCHANGED <<records, directories, artifacts, child>>
  BY DEF Planning!AcquireLock, Planning!At
<1>2. PlanIsAt(p) /\ executions[p].stage # "idle" /\ executions[p].stage # "answered"
      /\ executions[p].command.stack \in Planning!Stacks
  BY <1>1, PlanningAt
<1>3. /\ executions[p].command \in PlanCommands /\ child[p] = "none" /\ p \in directories
      /\ \A s \in Planning!Stacks : holder[s] # p
  BY <1>1, <1>2 DEF PlanIsAt, Planning!Processes, UnderLease, Inside
<1>4. PICK stack \in Planning!Stacks : stack = executions[p].command.stack
  BY <1>2
<1>5. holder[stack] = None /\ holder' = [holder EXCEPT ![stack] = p]
  BY <1>4 DEF Planning!AcquireLock, Planning!StackOf
<1>6. \A s \in Planning!Stacks : holder'[s] = IF s = stack THEN p ELSE holder[s]
  BY <1>5 DEF PlanningInv, Planning!TypeOK
<1>7. holder' \in [Planning!Stacks -> Plans \cup {None}]
  BY <1>5 DEF PlanningInv, Planning!TypeOK
<1>8. LeavesOthers(p) /\ RecordsGrow(p)
  BY <1>1, <1>5, <1>6, <1>7, PlanningFacts
  DEF PlanningInv, Planning!TypeOK, LeavesOthers, RecordsGrow
<1>9. CASE executions[p].aborted
  <2>1. "engine-cancelled" \in Planning!Codes
    BY DEF Planning!Codes
  <2>2. PlanLeaves(p, "release", Planning!Failure("engine-cancelled"))
    BY <1>9 DEF PlanLeaves, Planning!AcquireLock
  <2>3. PICK x \in Planning!Execution :
          /\ executions' = [executions EXCEPT ![p] = x] /\ x.stage = "release"
          /\ x.command = executions[p].command
          /\ x.result = Planning!Failure("engine-cancelled")
    BY <2>1, <2>2, PlanningLeave, PlanningFailure
  <2>4. executions'[p] = x
    BY <2>3 DEF PlanningInv, Planning!TypeOK
  <2>5. x.result \in Planning!Answers /\ ~x.result.ok
    BY <2>1, <2>3, PlanningFailure
  <2>6. PlanIsAt(p)' /\ AnswerStands(p)'
    BY <1>1, <1>3, <1>4, <1>6, <2>3, <2>4, <2>5
    DEF PlanIsAt, AnswerStands, Outside, Inside, UnderLease, Afterwards
  <2> QED
    BY <1>2, <1>8, <2>3, <2>6, PlanningSteps
<1>10. CASE ~executions[p].aborted
  <2>1. "init" \in Planning!Stages /\ Planning!Go(p, "init")
    BY <1>10 DEF Planning!Stages, Planning!Processes, Planning!AcquireLock, Planning!Go
  <2>2. PICK x \in Planning!Execution :
          /\ executions' = [executions EXCEPT ![p] = x]
          /\ x.stage = "init" /\ x.command = executions[p].command
    BY <2>1, PlanningGo
  <2>3. executions'[p] = x
    BY <2>2 DEF PlanningInv, Planning!TypeOK
  <2>4. PlanIsAt(p)' /\ AnswerStands(p)'
    BY <1>1, <1>3, <1>4, <1>6, <2>2, <2>3
    DEF PlanIsAt, AnswerStands, Outside, Inside, UnderLease, Afterwards
  <2> QED
    BY <1>2, <1>8, <2>2, <2>4, PlanningSteps
<1> QED
  BY <1>9, <1>10

\* The lease is given back, or may have been.
LEMMA PlanningRelease ==
    ASSUME PlanningInv, NEW p \in Plans, Planning!Release(p)
    PROVE  PlanningInv'
<1>1. /\ executions[p].stage = "release"
      /\ UNCHANGED <<records, directories, artifacts, child>>
  BY DEF Planning!Release, Planning!At
<1>2. PlanIsAt(p) /\ executions[p].stage # "idle" /\ executions[p].stage # "answered"
  BY <1>1, PlanningAt
<1>3. PICK stack \in Planning!Stacks : stack = executions[p].command.stack
  BY <1>1, PlanningAt
<1>4. /\ executions[p].command \in PlanCommands /\ child[p] = "none" /\ p \in directories
      /\ \A s \in Planning!Stacks : holder[s] = p <=> s = stack
      /\ executions[p].result \in Planning!Answers
      /\ executions[p].result.ok => p \in artifacts
  BY <1>1, <1>2, <1>3 DEF PlanIsAt, Planning!Processes, UnderLease, Inside
<1>5. ASSUME holder' = [holder EXCEPT ![stack] = None]
      PROVE  /\ \A s \in Planning!Stacks : holder'[s] = IF s = stack THEN None ELSE holder[s]
             /\ holder' \in [Planning!Stacks -> Plans \cup {None}]
  BY <1>5 DEF PlanningInv, Planning!TypeOK
<1>6. ASSUME holder' = holder \/ holder' = [holder EXCEPT ![stack] = None]
      PROVE  LeavesOthers(p) /\ RecordsGrow(p)
             /\ \A s \in Planning!Stacks : holder'[s] = p => s = stack
  <2>1. CASE holder' = holder
    BY <1>1, <1>4, <2>1 DEF PlanningInv, Planning!TypeOK, LeavesOthers, RecordsGrow
  <2>2. CASE holder' = [holder EXCEPT ![stack] = None]
    BY <1>1, <1>4, <1>5, <2>2, PlanningFacts
    DEF PlanningInv, Planning!TypeOK, LeavesOthers, RecordsGrow
  <2> QED
    BY <1>6, <2>1, <2>2
<1>7. CASE holder' = [holder EXCEPT ![stack] = None] /\ Planning!Go(p, "cleanup")
  <2>1. "cleanup" \in Planning!Stages
    BY DEF Planning!Stages
  <2>2. PICK x \in Planning!Execution :
          /\ executions' = [executions EXCEPT ![p] = x] /\ x.stage = "cleanup"
          /\ x.command = executions[p].command /\ x.result = executions[p].result
    BY <1>7, <2>1, PlanningGo
  <2>3. executions'[p] = x
    BY <2>2 DEF PlanningInv, Planning!TypeOK
  <2>4. \A s \in Planning!Stacks : holder'[s] # p
    BY <1>4, <1>5, <1>7, PlanningFacts
  <2>5. PlanIsAt(p)' /\ AnswerStands(p)'
    BY <1>1, <1>3, <1>4, <2>2, <2>3, <2>4
    DEF PlanIsAt, AnswerStands, Outside, Inside, UnderLease, Afterwards
  <2> QED
    BY <1>2, <1>6, <1>7, <2>2, <2>5, PlanningSteps
<1>8. CASE /\ holder' = holder \/ holder' = [holder EXCEPT ![stack] = None]
           /\ PlanLeaves(p, "cleanup", Planning!Failure("state-lock-release-failed"))
  <2>1. "state-lock-release-failed" \in Planning!Codes
    BY DEF Planning!Codes
  <2>2. PICK x \in Planning!Execution :
          /\ executions' = [executions EXCEPT ![p] = x] /\ x.stage = "cleanup"
          /\ x.command = executions[p].command
          /\ x.result = Planning!Failure("state-lock-release-failed")
    BY <1>8, <2>1, PlanningLeave, PlanningFailure
  <2>3. executions'[p] = x
    BY <2>2 DEF PlanningInv, Planning!TypeOK
  <2>4. /\ x.result \in Planning!Answers /\ ~x.result.ok
        /\ x.result.code = "state-lock-release-failed"
    BY <2>1, <2>2, PlanningFailure
  <2>5. PlanIsAt(p)' /\ AnswerStands(p)'
    BY <1>1, <1>3, <1>4, <1>6, <1>8, <2>2, <2>3, <2>4
    DEF PlanIsAt, AnswerStands, Outside, Inside, UnderLease, Afterwards
  <2> QED
    BY <1>2, <1>6, <1>8, <2>2, <2>5, PlanningSteps
<1> QED
  BY <1>3, <1>7, <1>8 DEF Planning!Release, Planning!StackOf, PlanLeaves

\* The workspace is removed, or stays.
LEMMA PlanningCleanup ==
    ASSUME PlanningInv, NEW p \in Plans, Planning!Cleanup(p)
    PROVE  PlanningInv'
<1>1. /\ executions[p].stage = "cleanup"
      /\ UNCHANGED <<records, holder, artifacts, child>>
  BY DEF Planning!Cleanup, Planning!At
<1>2. PlanIsAt(p) /\ executions[p].stage # "idle" /\ executions[p].stage # "answered"
  BY <1>1, PlanningAt
<1>3. PICK stack \in Planning!Stacks : stack = executions[p].command.stack
  BY <1>1, PlanningAt
<1>4. /\ executions[p].command \in PlanCommands /\ child[p] = "none" /\ p \in directories
      /\ \A s \in Planning!Stacks : holder[s] = p => s = stack
      /\ executions[p].result \in Planning!Answers
      /\ executions[p].result.ok => p \in artifacts
      /\ holder[stack] = p =>
           ~executions[p].result.ok /\ executions[p].result.code = "state-lock-release-failed"
  BY <1>1, <1>2, <1>3 DEF PlanIsAt, Planning!Processes, UnderLease, Inside
<1>5. CASE /\ directories' = directories \ {p}
           /\ Planning!Go(p, IF executions[p].result.ok THEN "policy" ELSE "answered")
  <2>1. PICK stage \in Planning!Stages :
          stage = IF executions[p].result.ok THEN "policy" ELSE "answered"
    BY DEF Planning!Stages
  <2>2. PICK x \in Planning!Execution :
          /\ executions' = [executions EXCEPT ![p] = x] /\ x.stage = stage
          /\ x.command = executions[p].command /\ x.result = executions[p].result
    BY <1>5, <2>1, PlanningGo
  <2>3. executions'[p] = x
    BY <2>2 DEF PlanningInv, Planning!TypeOK
  <2>4. LeavesOthers(p) /\ RecordsGrow(p)
    BY <1>1, <1>5 DEF PlanningInv, Planning!TypeOK, LeavesOthers, RecordsGrow
  <2>5. p \notin directories'
    BY <1>5
  <2>6. PlanIsAt(p)' /\ AnswerStands(p)'
    BY <1>1, <1>3, <1>4, <2>1, <2>2, <2>3, <2>5
    DEF PlanIsAt, AnswerStands, Outside, Inside, UnderLease, Afterwards
  <2> QED
    BY <1>2, <2>2, <2>4, <2>6, PlanningSteps
<1>6. CASE /\ UNCHANGED directories
           /\ Planning!Answer(p, Planning!Failure("workspace-cleanup-failed"))
  <2>1. "workspace-cleanup-failed" \in Planning!Codes
    BY DEF Planning!Codes
  <2>2. PICK x \in Planning!Execution :
          /\ executions' = [executions EXCEPT ![p] = x] /\ x.stage = "answered"
          /\ x.command = executions[p].command
          /\ x.result = Planning!Failure("workspace-cleanup-failed")
    BY <1>6, <2>1, PlanningAnswer, PlanningFailure
  <2>3. executions'[p] = x
    BY <2>2 DEF PlanningInv, Planning!TypeOK
  <2>4. /\ x.result \in Planning!Answers /\ ~x.result.ok
        /\ x.result.code = "workspace-cleanup-failed"
    BY <2>1, <2>2, PlanningFailure
  <2>5. LeavesOthers(p) /\ RecordsGrow(p)
    BY <1>1, <1>6 DEF PlanningInv, Planning!TypeOK, LeavesOthers, RecordsGrow
  <2>6. PlanIsAt(p)' /\ AnswerStands(p)'
    BY <1>1, <1>3, <1>4, <1>6, <2>2, <2>3, <2>4
    DEF PlanIsAt, AnswerStands, Outside, Inside, UnderLease, Afterwards
  <2> QED
    BY <1>2, <2>2, <2>5, <2>6, PlanningSteps
<1> QED
  BY <1>5, <1>6 DEF Planning!Cleanup

\* What a step of a process leaves alone.
LEMMA PlanningProcess ==
    ASSUME PlanningInv, NEW p \in Plans,
           NEW c \in {"none", "running"} \cup Planning!Terminations,
           child' = [child EXCEPT ![p] = c]
    PROVE  /\ child' \in [Plans -> {"none", "running"} \cup Planning!Terminations]
           /\ \A q \in Plans : child'[q] = IF q = p THEN c ELSE child[q]
BY DEF PlanningInv, Planning!TypeOK

\* The process of an execution starts, or is told to end, or the caller aborts.
LEMMA PlanningChild ==
    ASSUME PlanningInv, NEW p \in Plans,
           UNCHANGED <<records, holder, directories, artifacts>>,
           executions[p].stage \notin {"idle", "answered"},
           NEW x \in Planning!Execution, executions' = [executions EXCEPT ![p] = x],
           x.stage = executions[p].stage, x.command = executions[p].command,
           x.result = executions[p].result,
           child' \in [Plans -> {"none", "running"} \cup Planning!Terminations],
           \A q \in Plans : q # p => child'[q] = child[q],
           child'[p] # "none" => executions[p].stage \in Planning!Processes
    PROVE  PlanningInv'
<1>1. executions'[p] = x /\ PlanIsAt(p)
  BY PlanningAt DEF PlanningInv, Planning!TypeOK
<1>2. PlanIsAt(p)'
  BY <1>1 DEF PlanIsAt
<1>3. AnswerStands(p)'
  BY <1>1 DEF AnswerStands
<1> QED
  BY <1>2, <1>3, PlanningFrame, PlanningSteps

LEMMA PlanningSame ==
    ASSUME PlanningInv, NEW p \in Plans, UNCHANGED executions
    PROVE  executions' = [executions EXCEPT ![p] = executions[p]]
BY DEF PlanningInv, Planning!TypeOK

LEMMA PlanningSpawn ==
    ASSUME PlanningInv, NEW p \in Plans, Planning!Spawn(p)
    PROVE  PlanningInv'
<1>1. /\ executions[p].stage \in Planning!Processes /\ child[p] = "none"
      /\ UNCHANGED <<records, holder, directories, artifacts>>
  BY DEF Planning!Spawn
<1>2. ASSUME NEW code \in Planning!Codes, Planning!Fails(p, code), UNCHANGED child
      PROVE  PlanningInv'
  BY <1>1, <1>2, PlanningGivesUp DEF Planning!Processes, Inside
<1>3. CASE child' = [child EXCEPT ![p] = "running"] /\ UNCHANGED executions
  <2>1. PICK x \in Planning!Execution : x = executions[p]
    BY PlanningAt
  <2>2. executions' = [executions EXCEPT ![p] = x]
    BY <1>3, <2>1, PlanningSame
  <2> QED
    BY <1>1, <1>3, <2>1, <2>2, PlanningProcess, PlanningChild DEF Planning!Processes
<1>4. "engine-cancelled" \in Planning!Codes /\ "engine-not-started" \in Planning!Codes
  BY DEF Planning!Codes
<1> QED
  BY <1>2, <1>3, <1>4 DEF Planning!Spawn

LEMMA PlanningTerminate ==
    ASSUME PlanningInv, NEW p \in Plans, Planning!Terminate(p)
    PROVE  PlanningInv'
<1>1. /\ child[p] = "running"
      /\ UNCHANGED <<records, executions, holder, directories, artifacts>>
  BY DEF Planning!Terminate
<1>2. executions[p].stage \in Planning!Processes
  BY <1>1, PlanningAt DEF PlanIsAt
<1>3. PICK c \in Planning!Terminations : child' = [child EXCEPT ![p] = c]
  BY DEF Planning!Terminate
<1>4. PICK x \in Planning!Execution : x = executions[p]
  BY PlanningAt
<1>5. executions' = [executions EXCEPT ![p] = x]
  BY <1>1, <1>4, PlanningSame
<1> QED
  BY <1>1, <1>2, <1>3, <1>4, <1>5, PlanningProcess, PlanningChild DEF Planning!Processes

LEMMA PlanningAbort ==
    ASSUME PlanningInv, NEW p \in Plans, Planning!Abort(p)
    PROVE  PlanningInv'
<1>1. /\ executions[p].stage \notin {"idle", "answered"}
      /\ UNCHANGED <<records, holder, directories, artifacts>>
      /\ executions' = [executions EXCEPT ![p].aborted = TRUE]
  BY DEF Planning!Abort
<1>2. PICK e \in Planning!Execution : e = executions[p]
  BY PlanningAt
<1>3. PICK x : x = [e EXCEPT !.aborted = TRUE]
  OBVIOUS
<1>4. x \in Planning!Execution /\ x.stage = e.stage /\ x.command = e.command
      /\ x.result = e.result
  BY <1>3 DEF Planning!Execution
<1>5. executions' = [executions EXCEPT ![p] = x]
  BY <1>1, <1>2, <1>3
<1>6. child[p] # "none" => executions[p].stage \in Planning!Processes
  BY PlanningAt DEF PlanIsAt
<1>7. CASE child[p] = "running"
  <2>1. child' = [child EXCEPT ![p] = "cancelled"] /\ "cancelled" \in Planning!Terminations
    BY <1>7 DEF Planning!Abort, Planning!Terminations
  <2> QED
    BY <1>1, <1>2, <1>4, <1>5, <1>6, <1>7, <2>1, PlanningProcess, PlanningChild
<1>8. CASE child[p] # "running"
  <2>1. UNCHANGED child /\ child \in [Plans -> {"none", "running"} \cup Planning!Terminations]
    BY <1>8 DEF Planning!Abort, PlanningInv, Planning!TypeOK
  <2> QED
    BY <1>1, <1>2, <1>4, <1>5, <1>6, <2>1, PlanningChild
<1> QED
  BY <1>7, <1>8

\* The process ended.
LEMMA PlanningClosed ==
    ASSUME PlanningInv, NEW p \in Plans, Planning!Closed(p)
    PROVE  PlanningInv'
<1>1. /\ child[p] # "none" /\ child' = [child EXCEPT ![p] = "none"]
      /\ UNCHANGED <<records, holder, directories, artifacts>>
  BY DEF Planning!Closed
<1>2. executions[p].stage \in Planning!Processes
  BY <1>1, PlanningAt DEF PlanIsAt
<1>3. /\ child' \in [Plans -> {"none", "running"} \cup Planning!Terminations]
      /\ \A q \in Plans : q # p => child'[q] = child[q]
      /\ child'[p] = "none"
  BY <1>1, PlanningProcess
<1>4. ASSUME NEW code \in Planning!Codes, Planning!Fails(p, code) PROVE PlanningInv'
  BY <1>1, <1>2, <1>3, <1>4, PlanningFails DEF Planning!Processes, Inside
<1>5. ASSUME NEW stage \in UnderLease \ {"release"}, Planning!Go(p, stage) PROVE PlanningInv'
  BY <1>1, <1>2, <1>3, <1>5, PlanningGoes DEF SameKind, Planning!Processes, UnderLease
<1>6. CASE child[p] \in Planning!Terminations
  <2>1. child[p] \in Planning!Codes
    BY <1>6 DEF Planning!Codes
  <2> QED
    BY <1>4, <1>6, <2>1 DEF Planning!Closed
<1>7. ASSUME Planning!Go(p, Planning!AfterProcess(executions[p].stage)) PROVE PlanningInv'
  <2>1. Planning!AfterProcess(executions[p].stage) \in UnderLease \ {"release"}
    BY <1>2 DEF Planning!AfterProcess, Planning!Processes, UnderLease
  <2> QED
    BY <1>5, <1>7, <2>1
<1>8. ASSUME Planning!GoUnlessAborted(p, "store") PROVE PlanningInv'
  <2>1. "store" \in UnderLease \ {"release"} /\ "engine-cancelled" \in Planning!Codes
    BY DEF UnderLease, Planning!Codes
  <2> QED
    BY <1>4, <1>5, <1>8, <2>1 DEF Planning!GoUnlessAborted
<1>9. \A code \in Planning!FailuresOf(executions[p].stage) : code \in Planning!Codes
  BY <1>2 DEF Planning!FailuresOf, Planning!Processes, Planning!PlanFailures,
              Planning!ShowFailures, Planning!Codes
<1> QED
  BY <1>4, <1>6, <1>7, <1>8, <1>9 DEF Planning!Closed

\* The plan is recorded under its request, unless another one is.
LEMMA PlanningInsert ==
    ASSUME PlanningInv, NEW p \in Plans, Planning!Insert(p)
    PROVE  PlanningInv'
<1>1. executions[p].stage = "insert" /\ UNCHANGED <<holder, directories, artifacts, child>>
  BY DEF Planning!Insert, Planning!At
<1>2. PICK request \in PlanRequests : request = executions[p].command.request
  BY <1>1, PlanningAt
<1>3. PlanIsAt(p) /\ executions[p].command.stack \in Planning!Stacks
  BY <1>1, PlanningAt
<1>4. /\ executions[p].command \in PlanCommands /\ child[p] = "none" /\ p \notin directories
      /\ p \in artifacts /\ \A s \in Planning!Stacks : holder[s] # p
  BY <1>1, <1>3 DEF PlanIsAt, Planning!Processes, UnderLease, Afterwards
<1>5. CASE records[request] = None
  <2>1. PICK record \in Planning!Record :
          record = [plan |-> p, command |-> executions[p].command]
          /\ record.plan = p /\ record.command = executions[p].command
    <3>1. [plan |-> p, command |-> executions[p].command] \in Planning!Record
      BY <1>4 DEF Planning!Record
    <3> QED
      BY <3>1
  <2>2. PICK result \in Planning!Answers :
          result = [ok |-> TRUE, plan |-> p] /\ result.plan = p
    <3>1. [ok |-> TRUE, plan |-> p] \in Planning!Answers
      BY DEF Planning!Answers
    <3> QED
      BY <3>1
  <2>3. records' = [records EXCEPT ![request] = record] /\ Planning!Answer(p, result)
    BY <1>2, <1>5, <2>1, <2>2 DEF Planning!Insert
  <2>4. /\ records' \in [PlanRequests -> Planning!Record \cup {None}]
        /\ \A r \in PlanRequests : records'[r] = IF r = request THEN record ELSE records[r]
    BY <2>3 DEF PlanningInv, Planning!TypeOK
  <2>5. executions'[p].stage = "answered"
    BY <2>3, PlanningAnswer DEF PlanningInv, Planning!TypeOK
  <2>6. RecordsGrow(p)
    BY <1>1, <1>4, <1>5, <2>1, <2>4, <2>5 DEF RecordsGrow
  <2>7. record # None
    BY PlanningFacts
  <2> QED
    BY <1>1, <1>2, <2>1, <2>2, <2>3, <2>4, <2>6, <2>7, PlanningAnswers DEF Afterwards
<1>6. CASE records[request] # None
  <2>1. UNCHANGED records /\ Planning!Go(p, "raced") /\ "raced" \in Planning!Stages
    BY <1>2, <1>6 DEF Planning!Insert, Planning!Stages
  <2>2. PICK x \in Planning!Execution :
          /\ executions' = [executions EXCEPT ![p] = x] /\ x.stage = "raced"
          /\ x.command = executions[p].command /\ x.result = executions[p].result
    BY <2>1, PlanningGo
  <2>3. executions'[p] = x
    BY <2>2 DEF PlanningInv, Planning!TypeOK
  <2>4. LeavesOthers(p) /\ RecordsGrow(p)
    BY <1>1, <2>1 DEF PlanningInv, Planning!TypeOK, LeavesOthers, RecordsGrow
  <2>5. PlanIsAt(p)' /\ AnswerStands(p)'
    BY <1>1, <1>2, <1>4, <1>6, <2>1, <2>2, <2>3
    DEF PlanIsAt, AnswerStands, Outside, Inside, UnderLease, Afterwards
  <2> QED
    BY <1>1, <2>2, <2>4, <2>5, PlanningSteps
<1> QED
  BY <1>5, <1>6

\* Every step of the planning keeps its invariant.
LEMMA PlanningNext == ASSUME PlanningInv, Planning!Next PROVE PlanningInv'
<1>1. PICK p \in Plans :
        \/ \E command \in PlanCommands : Planning!Request(p, command)
        \/ Planning!Step(p) \/ Planning!Terminate(p) \/ Planning!Abort(p)
  BY DEF Planning!Next
<1>2. CASE Planning!Step(p)
  BY <1>2, PlanningFindByRequest, PlanningFindStack, PlanningCreateWorkspace,
     PlanningMaterialize, PlanningAcquireLock, PlanningAcquireLockFails, PlanningReadSavedPlan,
     PlanningStoreArtifact, PlanningRelease, PlanningCleanup, PlanningSpawn, PlanningClosed,
     PlanningEvaluate, PlanningInsert, PlanningAnswerRaced
  DEF Planning!Step
<1> QED
  BY <1>1, <1>2, PlanningRequest, PlanningTerminate, PlanningAbort

LEMMA PlanningStands == ASSUME PlanningInv PROVE Planning!PlansStand
<1>1. Planning!RunsUnderLease
  <2> SUFFICES ASSUME NEW p \in Plans, child[p] # "none"
               PROVE  p \in directories /\ Planning!Holds(p)
    BY DEF Planning!RunsUnderLease
  <2>1. PlanIsAt(p) /\ executions[p].stage \in Planning!Processes
    BY PlanningAt DEF PlanIsAt
  <2> QED
    BY <2>1 DEF PlanIsAt, Planning!Processes, Inside, UnderLease, Planning!Holds,
                Planning!StackOf
<1>2. Planning!LeftoversAreTold
  <2> SUFFICES ASSUME NEW p \in Plans, Planning!At(p, "answered")
               PROVE  LET told == executions[p].result IN
                      /\ p \in directories => ~told.ok /\ told.code \in
                           {"workspace-creation-failed", "workspace-cleanup-failed"}
                      /\ Planning!Holds(p) => ~told.ok /\ told.code \in
                           {"state-lock-release-failed", "workspace-cleanup-failed"}
    BY DEF Planning!LeftoversAreTold
  <2> QED
    BY PlanningAt DEF AnswerStands, Planning!At, Planning!Holds, Planning!StackOf
<1>3. Planning!PlanStands
  <2>1. ASSUME NEW r \in PlanRequests, records[r] # None
        PROVE  LET p == records[r].plan IN
               /\ p \in artifacts /\ p \notin directories /\ child[p] = "none"
               /\ \A s \in Planning!Stacks : holder[s] # p
    <3>1. PICK p \in Plans : p = records[r].plan
      BY <2>1 DEF PlanningInv, Planning!TypeOK, Planning!Record
    <3>2. /\ executions[p].stage = "answered" /\ p \in artifacts /\ p \notin directories
          /\ \A s \in Planning!Stacks : holder[s] # p
      BY <2>1, <3>1 DEF PlanningInv, RecordsStand
    <3>3. child[p] = "none"
      BY <3>2, PlanningAt DEF PlanIsAt, Planning!Processes
    <3> QED
      BY <3>1, <3>2, <3>3
  <2>2. ASSUME NEW p \in Plans, Planning!At(p, "answered"), executions[p].result.ok
        PROVE  LET record == records[executions[p].command.request] IN
               /\ record # None /\ record.plan = executions[p].result.plan
               /\ Planning!sameRequest(record, p)
    BY <2>2, PlanningAt DEF AnswerStands, Planning!At, Planning!sameRequest
  <2> QED
    BY <2>1, <2>2 DEF Planning!PlanStands
<1> QED
  BY <1>1, <1>2, <1>3 DEF Planning!PlansStand

(***************************************************************************)
(* Uplinks that are signed one by one.                                     *)
(***************************************************************************)

\* Sessions are opened one after the other; the only one that may be live is the newest,
\* and it is the current one.
NewestOpened(n) ==
    /\ n \in 0..MaxEpoch
    /\ \A e \in Uplink!Epochs : opened[e] # None <=> e <= n
    /\ \A e \in Uplink!Epochs :
         opened[e] # None => opened[e].epoch = e /\ (opened[e].state # "closed" => active = e)
    /\ active # None => active = n /\ opened[active] # None /\ opened[active].state # "closed"

\* What a call has read of its session went on from there: if the revision is still the
\* one that was read, so is the row.  A heartbeat that was accepted is remembered.
CallFollows(call) ==
    LET e == call.message.epoch
        beat == call.message.kind = "heartbeat"
    IN
    /\ opened[e] # None
    /\ call.stage = "verify" \/ beat =>
         /\ call.revision <= opened[e].revision
         /\ call.revision = opened[e].revision => opened[e].state = "active"
    /\ call.stage # "verify" /\ beat => marks[e] # None /\ call.message.at <= marks[e]
    /\ call.stage = "replace" =>
         /\ call.expected <= opened[e].revision
         /\ call.expected = opened[e].revision =>
              /\ opened[e].state # "closed"
              /\ call.row = Uplink!Domain!observeCloudLinkHeartbeat(
                              opened[e], call.message.at, call.message.at)

CallsFollow == \A c \in UplinkCalls : uplinkCalls[c] # None => CallFollows(uplinkCalls[c])

\* The same of the row that the health worker has leased.
SweepFollows ==
    sweep # None =>
      LET e == sweep.row.epoch IN
      /\ opened[e] # None
      /\ sweep.row.state # "closed"
      /\ sweep.row.revision <= opened[e].revision
      /\ sweep.row.revision = opened[e].revision => sweep.row = opened[e]

UplinkInv ==
    /\ Uplink!TypeOK
    /\ \E n \in 0..MaxEpoch : NewestOpened(n)
    /\ CallsFollow /\ SweepFollows
    /\ Uplink!HeardIsAccepted /\ Uplink!TakenInOrder

\* What is assumed of the constants of the signed uplinks.
LEMMA UplinkFacts ==
    /\ Interval \in Nat \ {0} /\ Grace \in Nat \ {0} /\ UplinkLease \in Nat \ {0}
    /\ MaxUint64 \in Nat /\ MaxEpoch \in Nat /\ MaxTime \in Nat
    /\ Beats \subseteq Nat /\ None \notin Nat
    /\ \A d \in SignedDeliveries : d.position \in Nat \ {0} /\ d.position \in Uplink!Positions
    /\ Uplink!Positions \subseteq Nat \ {0}
    /\ Uplink!Epochs \subseteq Nat \ {0} /\ Uplink!Times \subseteq Nat /\ 0 \in Uplink!Times
    /\ None \notin Uplink!Row /\ None \notin Uplink!Swept /\ None \notin Uplink!Taken
    /\ None \notin Uplink!Verifying /\ None \notin Uplink!Beating
    /\ None \notin Uplink!Replacing /\ None \notin Uplink!Delivering
<1>1. /\ {Interval, Grace, UplinkLease} \subseteq Nat \ {0}
      /\ {MaxUint64, MaxEpoch, MaxTime} \subseteq Nat
      /\ Beats \subseteq Nat /\ None \notin Nat
      /\ \A d \in SignedDeliveries : d.position \in Nat \ {0}
  BY WorkersAssumption DEF Uplink!UplinkAssumption
<1>2. Uplink!NoneIsNoRecord
  BY WorkersAssumption
<1>3. Uplink!Positions \subseteq Nat \ {0}
      /\ \A d \in SignedDeliveries : d.position \in Uplink!Positions
  BY <1>1 DEF Uplink!Positions
<1>4. Uplink!Epochs \subseteq Nat \ {0} /\ Uplink!Times \subseteq Nat /\ 0 \in Uplink!Times
  BY <1>1 DEF Uplink!Epochs, Uplink!Times
<1> QED
  BY <1>1, <1>2, <1>3, <1>4 DEF Uplink!NoneIsNoRecord

\* The number of sessions that were opened is the newest epoch.
LEMMA UplinkCounts ==
    ASSUME NEW f, NEW n \in 0..MaxEpoch, \A e \in Uplink!Epochs : f[e] # None <=> e <= n
    PROVE  Cardinality({e \in Uplink!Epochs : f[e] # None}) = n
<1>1. MaxEpoch \in Nat
  BY UplinkFacts
<1>2. {e \in Uplink!Epochs : f[e] # None} = 1..n
  BY <1>1 DEF Uplink!Epochs
<1>3. Cardinality(1..n) = n
  BY <1>1, FS_Interval
<1> QED
  BY <1>2, <1>3

LEMMA UplinkNewest ==
    ASSUME NEW n \in 0..MaxEpoch, NewestOpened(n)
    PROVE  Uplink!NextEpoch = n + 1
<1> DEFINE f == opened
<1>1. \A e \in Uplink!Epochs : f[e] # None <=> e <= n
  BY DEF NewestOpened
<1> HIDE DEF f
<1>2. Cardinality({e \in Uplink!Epochs : f[e] # None}) = n
  BY <1>1, UplinkCounts
<1>3. ASSUME NEW S PROVE Uplink!Cardinality(S) = Cardinality(S)
  BY DEF Uplink!Cardinality, Cardinality
<1> QED
  BY <1>2, <1>3 DEF Uplink!NextEpoch, f

----------------------------------------------------------------------------
\* The rows that the transitions of the domain lead to.
LEMMA UplinkObserves ==
    ASSUME NEW r \in Uplink!Row, NEW at \in Beats,
           NEW w, w = Uplink!Domain!observeCloudLinkHeartbeat(r, at, at)
    PROVE  /\ w \in Uplink!Row /\ w.epoch = r.epoch /\ w.state = "active"
           /\ w.lastHeartbeatAt = at /\ w.revision = r.revision + 1
<1> DEFINE n == r.revision + 1
<1>1. n \in Nat
  BY DEF Uplink!Row
<1>2. w = [r EXCEPT !.state = "active", !.lastHeartbeatAt = at, !.lastHeartbeatRequestId = at,
                    !.revision = n]
  BY DEF Uplink!Domain!observeCloudLinkHeartbeat
<1> HIDE DEF n
<1>3. w \in Uplink!Row /\ w.epoch = r.epoch /\ w.state = "active" /\ w.lastHeartbeatAt = at
      /\ w.revision = n
  BY <1>1, <1>2 DEF Uplink!Row
<1> QED
  BY <1>3 DEF n

LEMMA UplinkCloses ==
    ASSUME NEW r \in Uplink!Row, NEW at \in Uplink!Times, NEW w,
           \/ w = Uplink!Domain!fenceCloudLinkSession(r, at)
           \/ w = Uplink!Domain!markCloudLinkSessionHeartbeatTimedOut(r, at)
    PROVE  /\ w \in Uplink!Row /\ w.epoch = r.epoch /\ w.state = "closed"
           /\ w.lastHeartbeatAt = r.lastHeartbeatAt /\ w.revision = r.revision + 1
<1> DEFINE n == r.revision + 1
<1>1. n \in Nat
  BY DEF Uplink!Row
<1>2. PICK x \in Uplink!Domain!CloseReasons :
        w = [r EXCEPT !.state = "closed", !.closedAt = at, !.closeReason = x, !.revision = n]
  BY DEF Uplink!Domain!fenceCloudLinkSession, Uplink!Domain!CloseReasons,
         Uplink!Domain!markCloudLinkSessionHeartbeatTimedOut
<1> HIDE DEF n
<1>3. w \in Uplink!Row /\ w.epoch = r.epoch /\ w.state = "closed" /\ w.revision = n
      /\ w.lastHeartbeatAt = r.lastHeartbeatAt
  BY <1>1, <1>2 DEF Uplink!Row
<1> QED
  BY <1>3 DEF n

LEMMA UplinkSuspects ==
    ASSUME NEW r \in Uplink!Row, NEW at \in Uplink!Times, NEW w,
           w = Uplink!Domain!markCloudLinkSessionSuspect(r, at)
    PROVE  /\ w \in Uplink!Row /\ w.epoch = r.epoch /\ w.state = "suspect"
           /\ w.lastHeartbeatAt = r.lastHeartbeatAt /\ w.revision = r.revision + 1
<1> DEFINE n == r.revision + 1
<1>1. n \in Nat
  BY DEF Uplink!Row
<1>2. w = [r EXCEPT !.state = "suspect", !.suspectAt = at, !.revision = n]
  BY DEF Uplink!Domain!markCloudLinkSessionSuspect
<1> HIDE DEF n
<1>3. w \in Uplink!Row /\ w.epoch = r.epoch /\ w.state = "suspect" /\ w.revision = n
      /\ w.lastHeartbeatAt = r.lastHeartbeatAt
  BY <1>1, <1>2 DEF Uplink!Row
<1> QED
  BY <1>3 DEF n

LEMMA UplinkBuilds ==
    ASSUME NEW n \in Uplink!Epochs, NEW at \in Uplink!Times, NEW isSigned \in BOOLEAN,
           NEW p \in Uplink!Positions \cup {0},
           NEW w, w = Uplink!Domain!buildActiveSession("gateway", 1, n, at, isSigned, p)
    PROVE  w \in Uplink!Row /\ w.epoch = n /\ w.state = "active" /\ w.lastHeartbeatAt = None
<1> DEFINE Built == [gateway : {"gateway"}, generation : {1}, epoch : {n}, signed : BOOLEAN,
                     state : {"negotiating", "resuming", "active"}, openedAt : {at},
                     activatedAt : {None, at}, resumeCursors : {None, p},
                     lastHeartbeatAt : {None}, lastHeartbeatRequestId : {None},
                     suspectAt : {None}, closedAt : {None}, closeReason : {None},
                     revision : Nat]
<1>1. PICK x \in Built :
        x = Uplink!Domain!createCloudLinkSession("gateway", 1, n, at, isSigned)
  BY DEF Uplink!Domain!createCloudLinkSession
<1>2. PICK i \in Nat : i = x.revision + 1
  BY <1>1
<1>3. PICK y \in Built : y = [x EXCEPT !.state = "resuming", !.revision = i]
  BY <1>1, <1>2
<1>4. PICK j \in Nat : j = y.revision + 1
  BY <1>3
<1>5. w = [y EXCEPT !.state = "active", !.activatedAt = at, !.resumeCursors = p,
                    !.revision = j]
  <2>1. Uplink!Domain!negotiateCloudLinkSession(x) = y
    BY <1>2, <1>3 DEF Uplink!Domain!negotiateCloudLinkSession
  <2>2. w = Uplink!Domain!activateCloudLinkSession(y, at, p)
    BY <1>1, <2>1 DEF Uplink!Domain!buildActiveSession
  <2> QED
    BY <1>4, <2>2 DEF Uplink!Domain!activateCloudLinkSession
<1>6. w \in Built /\ w.state = "active" /\ w.activatedAt = at /\ w.resumeCursors = p
  BY <1>3, <1>4, <1>5
<1> QED
  BY <1>6 DEF Uplink!Row

----------------------------------------------------------------------------
\* Every row that is written goes on from the one it replaces.
RowsGoOn ==
    \A e \in Uplink!Epochs : opened[e] # None =>
      /\ opened'[e] # None
      /\ opened'[e] = opened[e] \/ opened'[e].revision > opened[e].revision

MarksGoOn ==
    \A e \in Uplink!Epochs : marks[e] # None =>
      marks'[e] \in Nat /\ marks'[e] # None /\ marks'[e] >= marks[e]

Calling == Uplink!Verifying \cup Uplink!Beating \cup Uplink!Replacing \cup Uplink!Delivering

\* Then a call that was not touched still follows.
LEMMA UplinkCallFollows ==
    ASSUME Uplink!TypeOK, opened' \in [Uplink!Epochs -> Uplink!Row \cup {None}],
           RowsGoOn, MarksGoOn, NEW call \in Calling, CallFollows(call)
    PROVE  CallFollows(call)'
<1> DEFINE e == call.message.epoch
           beat == call.message.kind = "heartbeat"
<1>1. /\ e \in Uplink!Epochs
      /\ beat => call.message.at \in Nat
      /\ call.stage = "verify" \/ beat => call.revision \in Nat
      /\ call.stage = "replace" => call.expected \in Nat
  BY UplinkFacts
  DEF Calling, Uplink!Verifying, Uplink!Beating, Uplink!Replacing, Uplink!Delivering,
      Uplink!Heartbeat, Uplink!Delivery
<1>2. opened[e] # None /\ opened'[e] # None
      /\ (opened'[e] = opened[e] \/ opened'[e].revision > opened[e].revision)
  BY <1>1 DEF RowsGoOn, CallFollows
<1>3. opened[e].revision \in Nat /\ opened'[e].revision \in Nat
  BY <1>1, <1>2 DEF Uplink!TypeOK, Uplink!Row
<1>4. call.stage # "verify" /\ beat => marks'[e] # None /\ call.message.at <= marks'[e]
  <2> SUFFICES ASSUME call.stage # "verify", beat
               PROVE  marks'[e] # None /\ call.message.at <= marks'[e]
    OBVIOUS
  <2>1. marks[e] # None /\ call.message.at <= marks[e]
    BY DEF CallFollows
  <2>2. marks[e] \in Nat /\ marks'[e] \in Nat /\ marks'[e] # None /\ marks'[e] >= marks[e]
    BY <1>1, <2>1, UplinkFacts DEF MarksGoOn, Uplink!TypeOK
  <2> QED
    BY <1>1, <2>1, <2>2
<1>5. CASE opened'[e] = opened[e]
  <2> HIDE DEF e, beat
  <2> QED
    BY <1>2, <1>4, <1>5 DEF CallFollows, e, beat
<1>6. CASE opened'[e].revision > opened[e].revision
  <2>1. call.stage = "verify" \/ beat => call.revision < opened'[e].revision
    BY <1>1, <1>3, <1>6 DEF CallFollows
  <2>2. call.stage = "replace" => call.expected < opened'[e].revision
    BY <1>1, <1>3, <1>6 DEF CallFollows
  <2>3. /\ call.stage = "verify" \/ beat =>
             call.revision <= opened'[e].revision /\ call.revision # opened'[e].revision
        /\ call.stage = "replace" =>
             call.expected <= opened'[e].revision /\ call.expected # opened'[e].revision
    BY <1>1, <1>3, <2>1, <2>2
  <2> HIDE DEF e, beat
  <2> QED
    BY <1>2, <1>4, <2>3 DEF CallFollows, e, beat
<1> QED
  BY <1>2, <1>5, <1>6

\* So do all calls if one of them goes on and follows.
LEMMA UplinkCallsFollow ==
    ASSUME Uplink!TypeOK, CallsFollow, opened' \in [Uplink!Epochs -> Uplink!Row \cup {None}],
           RowsGoOn, MarksGoOn, NEW c \in UplinkCalls, NEW call \in Calling \cup {None},
           uplinkCalls' = [uplinkCalls EXCEPT ![c] = call],
           call # None => CallFollows(call)'
    PROVE  CallsFollow' /\ uplinkCalls' \in [UplinkCalls -> Calling \cup {None}]
<1>1. uplinkCalls \in [UplinkCalls -> Calling \cup {None}]
  BY DEF Uplink!TypeOK, Calling
<1>2. ASSUME NEW d \in UplinkCalls, uplinkCalls'[d] # None PROVE CallFollows(uplinkCalls[d])'
  <2>1. CASE d = c
    <3>1. uplinkCalls'[d] = call
      BY <1>1, <2>1
    <3> QED
      BY <1>2, <3>1 DEF CallFollows
  <2>2. CASE d # c
    <3>1. PICK old \in Calling : old = uplinkCalls[d] /\ old = uplinkCalls'[d]
      BY <1>1, <1>2, <2>2
    <3>2. CallFollows(old)
      BY <1>2, <2>2, <3>1 DEF CallsFollow
    <3>3. CallFollows(old)'
      BY <3>2, UplinkCallFollows
    <3> QED
      BY <3>1, <3>3 DEF CallFollows
  <2> QED
    BY <2>1, <2>2
<1> QED
  BY <1>1, <1>2 DEF CallsFollow

LEMMA UplinkCallsStayFollowing ==
    ASSUME Uplink!TypeOK, CallsFollow, opened' \in [Uplink!Epochs -> Uplink!Row \cup {None}],
           RowsGoOn, MarksGoOn, UNCHANGED uplinkCalls
    PROVE  CallsFollow'
<1> SUFFICES ASSUME NEW d \in UplinkCalls, uplinkCalls[d] # None
             PROVE  CallFollows(uplinkCalls[d])'
  BY DEF CallsFollow
<1>1. PICK call \in Calling : call = uplinkCalls[d] /\ call = uplinkCalls'[d]
  BY DEF Uplink!TypeOK, Calling
<1>2. CallFollows(call)
  BY <1>1 DEF CallsFollow
<1>3. CallFollows(call)'
  BY <1>2, UplinkCallFollows
<1> QED
  BY <1>1, <1>3 DEF CallFollows

LEMMA UplinkSweepFollows ==
    ASSUME Uplink!TypeOK, SweepFollows, RowsGoOn,
           opened' \in [Uplink!Epochs -> Uplink!Row \cup {None}], sweep' = sweep
    PROVE  SweepFollows'
<1> SUFFICES ASSUME sweep # None PROVE SweepFollows'
  BY DEF SweepFollows
<1> DEFINE e == sweep.row.epoch
<1>1. e \in Uplink!Epochs /\ sweep.row.revision \in Nat /\ opened[e] # None
      /\ sweep.row.revision <= opened[e].revision /\ sweep.row.state # "closed"
      /\ (sweep.row.revision = opened[e].revision => sweep.row = opened[e])
  BY DEF SweepFollows, Uplink!TypeOK, Uplink!Swept, Uplink!Row
<1>2. opened'[e] # None /\ (opened'[e] = opened[e] \/ opened'[e].revision > opened[e].revision)
  BY <1>1 DEF RowsGoOn
<1>3. opened[e].revision \in Nat /\ opened'[e].revision \in Nat
  BY <1>1, <1>2 DEF Uplink!TypeOK, Uplink!Row
<1>4. sweep.row.revision <= opened'[e].revision
      /\ (sweep.row.revision = opened'[e].revision => sweep.row = opened'[e])
  BY <1>1, <1>2, <1>3
<1> QED
  BY <1>1, <1>2, <1>4 DEF SweepFollows

----------------------------------------------------------------------------
\* The invariant of the signed uplinks holds when it begins.
LEMMA UplinkInit == ASSUME Uplink!Init PROVE UplinkInv
<1>1. Uplink!TypeOK
  BY UplinkFacts DEF Uplink!Init, Uplink!TypeOK
<1>2. NewestOpened(0) /\ 0 \in 0..MaxEpoch
  BY UplinkFacts DEF Uplink!Init, NewestOpened
<1>3. CallsFollow /\ SweepFollows
  BY DEF Uplink!Init, CallsFollow, SweepFollows
<1>4. Uplink!HeardIsAccepted
  BY DEF Uplink!Init, Uplink!HeardIsAccepted
<1>5. Uplink!TakenInOrder
  <2>1. taking = 0 /\ \A q \in Uplink!Positions : taken[q] = None /\ q \in Nat \ {0}
    BY UplinkFacts DEF Uplink!Init
  <2>2. \A q \in Uplink!Positions : ~(q <= taking)
    BY <2>1
  <2> QED
    BY <2>1, <2>2 DEF Uplink!TakenInOrder
<1> QED
  BY <1>1, <1>2, <1>3, <1>4, <1>5 DEF UplinkInv

\* The truth of what is shown is a part of the invariant.
LEMMA UplinkTrue == ASSUME UplinkInv PROVE Uplink!UplinkTruth
<1>1. Uplink!RecoveryIsOld
  <2> SUFFICES ASSUME NEW c \in UplinkCalls, uplinkCalls[c] # None,
                      uplinkCalls[c].stage \in {"consume", "replace"},
                      uplinkCalls[c].message.kind = "heartbeat",
                      opened[uplinkCalls[c].message.epoch].state = "suspect"
               PROVE  uplinkCalls[c].revision < opened[uplinkCalls[c].message.epoch].revision
    BY DEF Uplink!RecoveryIsOld
  <2>1. PICK call \in Calling : call = uplinkCalls[c]
    BY DEF UplinkInv, Uplink!TypeOK, Calling
  <2>2. CallFollows(call)
    BY <2>1 DEF UplinkInv, CallsFollow
  <2>3. call.message.epoch \in Uplink!Epochs /\ call.revision \in Nat
    BY <2>1
    DEF Calling, Uplink!Verifying, Uplink!Beating, Uplink!Replacing, Uplink!Delivering,
        Uplink!Heartbeat, Uplink!Delivery
  <2>4. opened[call.message.epoch].revision \in Nat
    BY <2>2, <2>3 DEF UplinkInv, Uplink!TypeOK, Uplink!Row, CallFollows
  <2>5. call.revision <= opened[call.message.epoch].revision
        /\ call.revision # opened[call.message.epoch].revision
    BY <2>1, <2>2 DEF CallFollows
  <2> QED
    BY <2>1, <2>3, <2>4, <2>5
<1> QED
  BY <1>1 DEF UplinkInv, Uplink!UplinkTruth

----------------------------------------------------------------------------
(* Steps that write no session.                                            *)

LEMMA UplinkTicks == ASSUME UplinkInv, Uplink!Tick PROVE UplinkInv'
<1>1. /\ clock' = clock + 1 /\ clock \in Nat /\ clock' \in Uplink!Times
      /\ UNCHANGED <<opened, active, marks, healthLease, taking, uplinkCalls, sweep, taken>>
  BY UplinkFacts DEF Uplink!Tick, Uplink!store, UplinkInv, Uplink!TypeOK, Uplink!Times
<1>2. Uplink!TypeOK'
  BY <1>1 DEF UplinkInv, Uplink!TypeOK
<1>3. PICK n \in 0..MaxEpoch : NewestOpened(n)
  BY DEF UplinkInv
<1>4. NewestOpened(n)'
  BY <1>1, <1>3 DEF NewestOpened
<1>5. CallsFollow' /\ SweepFollows'
  BY <1>1 DEF UplinkInv, CallsFollow, CallFollows, SweepFollows
<1>6. Uplink!HeardIsAccepted'
  <2> SUFFICES ASSUME NEW e \in Uplink!Epochs, marks[e] # None
               PROVE  marks[e] <= clock' + Interval
    BY <1>1 DEF UplinkInv, Uplink!HeardIsAccepted
  <2>1. marks[e] \in Nat /\ marks[e] <= clock + Interval
    BY UplinkFacts DEF UplinkInv, Uplink!TypeOK, Uplink!HeardIsAccepted
  <2> QED
    BY <1>1, <2>1, UplinkFacts
<1>7. Uplink!TakenInOrder'
  BY <1>1 DEF UplinkInv, Uplink!TakenInOrder
<1> QED
  BY <1>2, <1>4, <1>5, <1>6, <1>7 DEF UplinkInv

\* A call goes on, and may move the mark of its session or the stream.
LEMMA UplinkGoes ==
    ASSUME UplinkInv, UNCHANGED <<clock, opened, active, healthLease, sweep>>,
           marks' \in [Uplink!Epochs -> Beats \cup {None}], MarksGoOn,
           taking' \in Uplink!Positions \cup {0},
           taken' \in [Uplink!Positions -> Uplink!Taken \cup {None}],
           Uplink!HeardIsAccepted', Uplink!TakenInOrder',
           NEW c \in UplinkCalls, NEW call \in Calling \cup {None},
           uplinkCalls' = [uplinkCalls EXCEPT ![c] = call],
           call # None => CallFollows(call)'
    PROVE  UplinkInv'
<1>1. RowsGoOn /\ Uplink!TypeOK /\ CallsFollow /\ SweepFollows
      /\ opened' \in [Uplink!Epochs -> Uplink!Row \cup {None}]
  BY DEF RowsGoOn, UplinkInv, Uplink!TypeOK
<1>2. CallsFollow' /\ uplinkCalls' \in [UplinkCalls -> Calling \cup {None}]
  BY <1>1, UplinkCallsFollow
<1>3. SweepFollows'
  BY DEF UplinkInv, SweepFollows
<1>4. Uplink!TypeOK'
  BY <1>1, <1>2 DEF Uplink!TypeOK, Calling
<1>5. PICK n \in 0..MaxEpoch : NewestOpened(n)
  BY DEF UplinkInv
<1>6. NewestOpened(n)'
  BY <1>5 DEF NewestOpened
<1> QED
  BY <1>2, <1>3, <1>4, <1>6 DEF UplinkInv

\* The marks, the stream and what was taken stay.
Unmarked == UNCHANGED <<clock, opened, active, marks, healthLease, taking, sweep, taken>>

LEMMA UplinkMarksStay ==
    ASSUME UplinkInv, UNCHANGED marks
    PROVE  MarksGoOn
<1> SUFFICES ASSUME NEW e \in Uplink!Epochs, marks[e] # None
             PROVE  marks[e] \in Nat /\ marks[e] >= marks[e]
  BY DEF MarksGoOn
<1>1. marks[e] \in Nat
  BY UplinkFacts DEF UplinkInv, Uplink!TypeOK
<1> QED
  BY <1>1

LEMMA UplinkOnlyGoes ==
    ASSUME UplinkInv, Unmarked, NEW c \in UplinkCalls, NEW call \in Calling \cup {None},
           uplinkCalls' = [uplinkCalls EXCEPT ![c] = call], call # None => CallFollows(call)
    PROVE  UplinkInv'
<1>1. MarksGoOn
  BY UplinkMarksStay DEF Unmarked
<1>2. /\ marks' \in [Uplink!Epochs -> Beats \cup {None}]
      /\ taking' \in Uplink!Positions \cup {0}
      /\ taken' \in [Uplink!Positions -> Uplink!Taken \cup {None}]
      /\ Uplink!HeardIsAccepted' /\ Uplink!TakenInOrder'
  BY DEF Unmarked, UplinkInv, Uplink!TypeOK, Uplink!HeardIsAccepted, Uplink!TakenInOrder
<1>3. call # None => CallFollows(call)'
  BY DEF Unmarked, CallFollows
<1> QED
  BY <1>1, <1>2, <1>3, UplinkGoes DEF Unmarked

\* What a call is at a stage.
LEMMA UplinkStages ==
    ASSUME UplinkInv, NEW c \in UplinkCalls, uplinkCalls[c] # None
    PROVE  /\ uplinkCalls[c] \in Calling /\ CallFollows(uplinkCalls[c])
           /\ uplinkCalls[c].stage = "verify" => uplinkCalls[c] \in Uplink!Verifying
           /\ uplinkCalls[c].stage = "consume" /\ uplinkCalls[c].message.kind = "heartbeat" =>
                uplinkCalls[c] \in Uplink!Beating
           /\ uplinkCalls[c].stage = "consume" /\ uplinkCalls[c].message.kind = "delivery" =>
                uplinkCalls[c] \in Uplink!Delivering
           /\ uplinkCalls[c].stage = "replace" => uplinkCalls[c] \in Uplink!Replacing
           /\ uplinkCalls[c].stage = "digest" => uplinkCalls[c] \in Uplink!Delivering
<1>1. PICK call \in Calling : call = uplinkCalls[c]
  BY DEF UplinkInv, Uplink!TypeOK, Calling
<1>2. CallFollows(call)
  BY <1>1 DEF UplinkInv, CallsFollow
<1> QED
  BY <1>1, <1>2
  DEF Calling, Uplink!Verifying, Uplink!Beating, Uplink!Replacing, Uplink!Delivering,
      Uplink!Heartbeat, Uplink!Delivery, CallFollows

LEMMA UplinkFinds ==
    ASSUME UplinkInv, NEW c \in UplinkCalls, NEW message \in Uplink!Messages,
           Uplink!FindCurrent(c, message)
    PROVE  UplinkInv'
<1>1. message \in Uplink!Heartbeat \cup Uplink!Delivery /\ message.epoch \in Uplink!Epochs
  BY DEF Uplink!Messages, Uplink!Heartbeat, Uplink!Delivery
<1>2. PICK n \in 0..MaxEpoch : NewestOpened(n)
  BY DEF UplinkInv
<1>3. active # None /\ opened[active] # None /\ active \in Uplink!Epochs
      /\ opened[active].state = "active" /\ opened[active].epoch = message.epoch
  BY <1>2 DEF Uplink!FindCurrent, Uplink!sessionMatches, NewestOpened, UplinkInv, Uplink!TypeOK
<1>4. active = message.epoch
  BY <1>2, <1>3 DEF NewestOpened
<1>5. opened[active].revision \in Nat
  BY <1>3 DEF UplinkInv, Uplink!TypeOK, Uplink!Row
<1>6. PICK call \in Uplink!Verifying :
        call = [stage |-> "verify", message |-> message, revision |-> opened[active].revision]
  BY <1>1, <1>5 DEF Uplink!Verifying
<1>7. CallFollows(call)
  BY <1>3, <1>4, <1>5, <1>6 DEF CallFollows
<1>8. Unmarked /\ uplinkCalls' = [uplinkCalls EXCEPT ![c] = call]
  BY <1>6 DEF Uplink!FindCurrent, Uplink!Goes, Uplink!store, Unmarked
<1> QED
  BY <1>6, <1>7, <1>8, UplinkOnlyGoes DEF Calling

LEMMA UplinkDrops ==
    ASSUME UplinkInv, NEW c \in UplinkCalls, Uplink!Drop(c)
    PROVE  UplinkInv'
<1>1. Unmarked /\ uplinkCalls' = [uplinkCalls EXCEPT ![c] = None]
  BY DEF Uplink!Drop, Uplink!Ends, Uplink!store, Unmarked
<1> QED
  BY <1>1, UplinkOnlyGoes

\* The heartbeat is fresh: it is at most an interval ahead of the clock.
LEMMA UplinkFresh ==
    ASSUME UplinkInv, NEW m \in Uplink!Heartbeat, Uplink!validateFreshness(m)
    PROVE  m.at \in Nat /\ m.at <= clock + Interval
<1>1. clock \in Nat /\ m.kind = "heartbeat" /\ m.at \in Nat
  BY UplinkFacts DEF UplinkInv, Uplink!TypeOK, Uplink!Heartbeat
<1>2. Uplink!checkedAdd(clock, Interval) # None
      /\ m.at <= Uplink!checkedAdd(clock, Interval)
  BY <1>1 DEF Uplink!validateFreshness
<1>3. Uplink!checkedAdd(clock, Interval) = clock + Interval
  BY <1>2 DEF Uplink!checkedAdd
<1> QED
  BY <1>1, <1>2, <1>3

LEMMA UplinkEvaluates ==
    ASSUME UplinkInv, NEW c \in UplinkCalls, Uplink!Evaluate(c)
    PROVE  UplinkInv'
<1>1. PICK call \in Uplink!Verifying : call = uplinkCalls[c] /\ CallFollows(call)
  BY UplinkStages DEF Uplink!Evaluate
<1> DEFINE m == call.message
           e == m.epoch
<1>2. m \in Uplink!Heartbeat \cup Uplink!Delivery /\ e \in Uplink!Epochs
      /\ call.revision \in Nat /\ call.stage = "verify"
  BY DEF Uplink!Verifying, Uplink!Heartbeat, Uplink!Delivery
<1>3. UNCHANGED <<clock, opened, active, healthLease, taking, sweep, taken>>
      /\ Uplink!validateFreshness(m)
  BY <1>1 DEF Uplink!Evaluate
<1>4. CASE m.kind = "delivery" /\ UNCHANGED marks
           /\ Uplink!Goes(c, [stage |-> "consume", message |-> m])
  <2>1. m \in Uplink!Delivery
    BY <1>2, <1>4 DEF Uplink!Heartbeat
  <2>2. PICK next \in Uplink!Delivering : next = [stage |-> "consume", message |-> m]
    BY <2>1 DEF Uplink!Delivering
  <2>3. CallFollows(next)
    BY <1>1, <1>4, <2>2 DEF CallFollows
  <2> HIDE DEF m
  <2>4. uplinkCalls' = [uplinkCalls EXCEPT ![c] = next] /\ Unmarked
    BY <1>3, <1>4, <2>2 DEF Uplink!Goes, Unmarked
  <2> QED
    BY <2>2, <2>3, <2>4, UplinkOnlyGoes DEF Calling
<1>5. CASE m.kind = "heartbeat" /\ UNCHANGED marks /\ Uplink!Ends(c)
  <2>1. Unmarked /\ uplinkCalls' = [uplinkCalls EXCEPT ![c] = None]
    BY <1>3, <1>5 DEF Unmarked, Uplink!Ends
  <2> QED
    BY <2>1, UplinkOnlyGoes
<1>6. CASE /\ m.kind = "heartbeat" /\ Uplink!accepts(m)
           /\ marks' = [marks EXCEPT ![e] = m.at]
           /\ Uplink!Goes(c, [call EXCEPT !.stage = "consume"])
  <2>1. m \in Uplink!Heartbeat
    BY <1>2, <1>6 DEF Uplink!Delivery
  <2>2. m.at \in Beats /\ m.at \in Nat /\ m.at <= clock + Interval
    BY <1>3, <2>1, UplinkFresh DEF Uplink!Heartbeat
  <2>3. /\ marks' \in [Uplink!Epochs -> Beats \cup {None}] /\ marks'[e] = m.at
        /\ \A x \in Uplink!Epochs : x # e => marks'[x] = marks[x]
        /\ m.at # None /\ \A x \in Uplink!Epochs : marks[x] # None => marks[x] \in Nat
    BY <1>2, <1>6, <2>2, UplinkFacts DEF UplinkInv, Uplink!TypeOK
  <2>4. marks[e] # None => marks[e] <= m.at
    BY <1>2, <1>6, <2>2, <2>3 DEF Uplink!accepts
  <2>5. MarksGoOn
    <3> SUFFICES ASSUME NEW x \in Uplink!Epochs, marks[x] # None
                 PROVE  marks'[x] \in Nat /\ marks'[x] # None /\ marks'[x] >= marks[x]
      BY DEF MarksGoOn
    <3> HIDE DEF e, m
    <3>1. CASE x = e
      BY <1>2, <2>2, <2>3, <2>4, <3>1
    <3>2. CASE x # e
      BY <2>3, <3>2
    <3> QED
      BY <3>1, <3>2
  <2>6. PICK next \in Uplink!Beating : next = [call EXCEPT !.stage = "consume"]
    <3>1. PICK r \in Nat : call = [stage |-> "verify", message |-> m, revision |-> r]
      BY DEF Uplink!Verifying
    <3>2. [stage |-> "consume", message |-> m, revision |-> r] \in Uplink!Beating
      BY <2>1 DEF Uplink!Beating
    <3>3. [call EXCEPT !.stage = "consume"] = [stage |-> "consume", message |-> m, revision |-> r]
      BY <3>1
    <3> QED
      BY <3>2, <3>3
  <2>7. next.stage = "consume" /\ next.message = m /\ next.revision = call.revision
    BY <2>6 DEF Uplink!Verifying
  <2>8. CallFollows(next)'
    <3>1. /\ opened[e] # None /\ call.revision <= opened[e].revision
          /\ call.revision = opened[e].revision => opened[e].state = "active"
      BY <1>1, <1>6 DEF CallFollows
    <3>2. marks'[e] # None /\ m.at <= marks'[e]
      BY <2>2, <2>3
    <3> HIDE DEF e, m
    <3> QED
      BY <1>3, <2>7, <3>1, <3>2 DEF CallFollows, e
  <2>9. Uplink!HeardIsAccepted'
    <3> SUFFICES ASSUME NEW x \in Uplink!Epochs
                 PROVE  /\ opened[x] # None /\ opened[x].lastHeartbeatAt # None =>
                             marks'[x] # None /\ opened[x].lastHeartbeatAt <= marks'[x]
                        /\ marks'[x] # None => marks'[x] <= clock + Interval
      BY <1>3 DEF Uplink!HeardIsAccepted
    <3> HIDE DEF e, m
    <3>1. CASE x = e
      <4> SUFFICES ASSUME opened[x] # None /\ opened[x].lastHeartbeatAt # None
                   PROVE  opened[x].lastHeartbeatAt <= marks'[x]
        BY <2>2, <2>3, <3>1
      <4>1. marks[x] # None /\ opened[x].lastHeartbeatAt <= marks[x]
        BY DEF UplinkInv, Uplink!HeardIsAccepted
      <4>2. opened[x].lastHeartbeatAt \in Nat
        BY UplinkFacts DEF UplinkInv, Uplink!TypeOK, Uplink!Row
      <4> QED
        BY <1>2, <2>2, <2>3, <2>4, <3>1, <4>1, <4>2
    <3>2. CASE x # e
      BY <2>3, <3>2 DEF UplinkInv, Uplink!HeardIsAccepted
    <3> QED
      BY <3>1, <3>2
  <2>10. Uplink!TakenInOrder' /\ taking' \in Uplink!Positions \cup {0}
         /\ taken' \in [Uplink!Positions -> Uplink!Taken \cup {None}]
    BY <1>3 DEF UplinkInv, Uplink!TypeOK, Uplink!TakenInOrder
  <2>11. uplinkCalls' = [uplinkCalls EXCEPT ![c] = next]
    BY <1>6, <2>6 DEF Uplink!Goes
  <2> QED
    BY <1>3, <2>3, <2>5, <2>6, <2>8, <2>9, <2>10, <2>11, UplinkGoes DEF Calling
<1> QED
  BY <1>1, <1>4, <1>5, <1>6 DEF Uplink!Evaluate

LEMMA UplinkConsumesBeat ==
    ASSUME UplinkInv, NEW c \in UplinkCalls, Uplink!ConsumeHeartbeat(c)
    PROVE  UplinkInv'
<1>1. PICK call \in Uplink!Beating : call = uplinkCalls[c] /\ CallFollows(call)
  BY UplinkStages DEF Uplink!ConsumeHeartbeat
<1> DEFINE m == call.message
           e == m.epoch
<1>2. /\ m \in Uplink!Heartbeat /\ e \in Uplink!Epochs /\ m.at \in Beats
      /\ call.revision \in Nat /\ call.stage = "consume" /\ m.kind = "heartbeat"
  BY DEF Uplink!Beating, Uplink!Heartbeat
<1>3. opened[e] # None /\ opened[e] \in Uplink!Row /\ opened[e].revision \in Nat
  BY <1>1, <1>2 DEF CallFollows, UplinkInv, Uplink!TypeOK, Uplink!Row
<1>4. Unmarked
  BY DEF Uplink!ConsumeHeartbeat, Uplink!store, Unmarked
<1>5. CASE Uplink!Ends(c)
  BY <1>4, <1>5, UplinkOnlyGoes DEF Uplink!Ends
<1>6. CASE ~Uplink!Ends(c)
  <2>1. PICK w : w = Uplink!Domain!observeCloudLinkHeartbeat(opened[e], m.at, m.at)
    OBVIOUS
  <2>2. w \in Uplink!Row
    BY <1>2, <1>3, <2>1, UplinkObserves
  <2>3. opened[e].state # "closed"
        /\ Uplink!Goes(c, [stage |-> "replace", message |-> m, revision |-> call.revision,
                           expected |-> opened[e].revision, row |-> w])
    BY <1>1, <1>6, <2>1 DEF Uplink!ConsumeHeartbeat, Uplink!Domain!CanObserveHeartbeat
  <2>4. PICK next \in Uplink!Replacing :
          next = [stage |-> "replace", message |-> m, revision |-> call.revision,
                  expected |-> opened[e].revision, row |-> w]
    BY <1>2, <1>3, <2>2 DEF Uplink!Replacing
  <2>5. /\ opened[e] # None /\ call.revision <= opened[e].revision
        /\ call.revision = opened[e].revision => opened[e].state = "active"
        /\ marks[e] # None /\ m.at <= marks[e]
    BY <1>1, <1>2 DEF CallFollows
  <2>6. next.stage = "replace" /\ next.message = m /\ next.revision = call.revision
        /\ next.expected = opened[e].revision /\ next.row = w
    BY <2>4
  <2> HIDE DEF m
  <2>7. CallFollows(next)
    BY <1>3, <2>1, <2>3, <2>5, <2>6 DEF CallFollows
  <2>8. uplinkCalls' = [uplinkCalls EXCEPT ![c] = next]
    BY <2>3, <2>4 DEF Uplink!Goes
  <2> QED
    BY <1>4, <2>4, <2>7, <2>8, UplinkOnlyGoes DEF Calling
<1> QED
  BY <1>5, <1>6

LEMMA UplinkConsumesDelivery ==
    ASSUME UplinkInv, NEW c \in UplinkCalls, Uplink!ConsumeDelivery(c)
    PROVE  UplinkInv'
<1>1. PICK call \in Uplink!Delivering : call = uplinkCalls[c] /\ CallFollows(call)
  BY UplinkStages DEF Uplink!ConsumeDelivery
<1>2. Unmarked /\ Uplink!Goes(c, [call EXCEPT !.stage = "digest"])
      /\ call.message.kind = "delivery"
  BY <1>1 DEF Uplink!ConsumeDelivery, Uplink!store, Unmarked
<1>3. PICK next \in Uplink!Delivering :
        next = [call EXCEPT !.stage = "digest"] /\ next.message = call.message
        /\ next.stage = "digest"
  <2>1. PICK x \in {"consume", "digest"}, m \in Uplink!Delivery :
          call = [stage |-> x, message |-> m]
    BY DEF Uplink!Delivering
  <2>2. [call EXCEPT !.stage = "digest"] = [stage |-> "digest", message |-> m]
    BY <2>1
  <2>3. [stage |-> "digest", message |-> m] \in Uplink!Delivering
    BY DEF Uplink!Delivering
  <2> QED
    BY <2>1, <2>2, <2>3
<1>4. CallFollows(next)
  BY <1>1, <1>2, <1>3 DEF CallFollows
<1>5. uplinkCalls' = [uplinkCalls EXCEPT ![c] = next]
  BY <1>2, <1>3 DEF Uplink!Goes
<1> QED
  BY <1>2, <1>3, <1>4, <1>5, UplinkOnlyGoes DEF Calling

\* The stream moves by one position, and only in the newest session: no other is live.
LEMMA UplinkTakes ==
    ASSUME UplinkInv, NEW c \in UplinkCalls, Uplink!RecordDurableCursor(c)
    PROVE  UplinkInv'
<1>1. PICK call \in Uplink!Delivering : call = uplinkCalls[c] /\ CallFollows(call)
  BY UplinkStages DEF Uplink!RecordDurableCursor
<1> DEFINE e == call.message.epoch
           at == call.message.delivery.position
<1>2. e \in Uplink!Epochs /\ at \in Nat \ {0} /\ at \in Uplink!Positions /\ opened[e] # None
  <2>1. call.message.delivery \in SignedDeliveries /\ e \in Uplink!Epochs
    BY DEF Uplink!Delivering, Uplink!Delivery
  <2> QED
    BY <1>1, <2>1, UplinkFacts DEF CallFollows
<1>3. /\ opened[e].state = "active"
      /\ UNCHANGED <<clock, opened, active, marks, healthLease, sweep>>
      /\ uplinkCalls' = [uplinkCalls EXCEPT ![c] = None]
  BY <1>1 DEF Uplink!RecordDurableCursor, Uplink!Ends
<1>4. PICK n \in 0..MaxEpoch : NewestOpened(n)
  BY DEF UplinkInv
<1>5. e = n
  <2>1. active = e /\ active # None
    BY <1>2, <1>3, <1>4, UplinkFacts DEF NewestOpened
  <2> QED
    BY <1>4, <2>1 DEF NewestOpened
<1>6. Uplink!NextEpoch - 1 = n
  BY <1>4, UplinkFacts, UplinkNewest
<1>7. /\ taking' \in Uplink!Positions \cup {0}
      /\ taken' \in [Uplink!Positions -> Uplink!Taken \cup {None}]
      /\ Uplink!TakenInOrder'
  <2>1. taking \in Nat
    BY UplinkFacts DEF UplinkInv, Uplink!TypeOK
  <2>2. CASE UNCHANGED <<taking, taken>>
    BY <2>2 DEF UplinkInv, Uplink!TypeOK, Uplink!TakenInOrder
  <2>3. CASE /\ at = taking + 1 /\ taking' = at
             /\ taken' = [taken EXCEPT ![at] =
                            [epoch |-> e, newest |-> Uplink!NextEpoch - 1]]
    <3>1. PICK t \in Uplink!Taken : t = [epoch |-> e, newest |-> n]
      BY <1>2, <1>5 DEF Uplink!Taken
    <3>2. t.epoch = t.newest /\ t # None
      BY <1>5, <3>1, UplinkFacts
    <3>3. taken' = [taken EXCEPT ![at] = t]
      BY <1>6, <2>3, <3>1
    <3> HIDE DEF at
    <3>4. /\ taken' \in [Uplink!Positions -> Uplink!Taken \cup {None}] /\ taken'[at] = t
          /\ \A q \in Uplink!Positions : q # at => taken'[q] = taken[q]
      BY <1>2, <3>3 DEF UplinkInv, Uplink!TypeOK
    <3>5. ASSUME NEW q \in Uplink!Positions
          PROVE  /\ taken'[q] # None <=> q <= taking'
                 /\ taken'[q] # None => taken'[q].epoch = taken'[q].newest
      <4>1. q \in Nat /\ (taken[q] # None <=> q <= taking)
            /\ (taken[q] # None => taken[q].epoch = taken[q].newest)
        BY UplinkFacts DEF UplinkInv, Uplink!TakenInOrder
      <4>2. CASE q = at
        BY <1>2, <2>3, <3>2, <3>4, <4>2
      <4>3. CASE q # at
        <5>1. q <= taking' <=> q <= taking
          BY <1>2, <2>1, <2>3, <4>1, <4>3
        <5> QED
          BY <3>4, <4>1, <4>3, <5>1
      <4> QED
        BY <4>2, <4>3
    <3> QED
      BY <1>2, <2>3, <3>4, <3>5 DEF Uplink!TakenInOrder
  <2> QED
    BY <1>1, <2>2, <2>3 DEF Uplink!RecordDurableCursor
<1>8. /\ marks' \in [Uplink!Epochs -> Beats \cup {None}] /\ Uplink!HeardIsAccepted'
      /\ MarksGoOn
  BY <1>3, UplinkMarksStay DEF UplinkInv, Uplink!TypeOK, Uplink!HeardIsAccepted
<1> QED
  BY <1>3, <1>7, <1>8, UplinkGoes

----------------------------------------------------------------------------
(* Steps that write sessions.                                              *)

\* The clock, the marks and the stream stay.
Unheard == UNCHANGED <<clock, marks, taking, taken>>

\* One live session is written: it goes on by a revision, and one that is closed is no
\* longer the current one.
LEMMA UplinkWrites ==
    ASSUME UplinkInv, Unheard, NEW e \in Uplink!Epochs, opened[e] # None,
           opened[e].state # "closed", NEW w \in Uplink!Row, w.epoch = e,
           w.revision = opened[e].revision + 1,
           w.lastHeartbeatAt # None => marks[e] # None /\ w.lastHeartbeatAt <= marks[e],
           opened' = [opened EXCEPT ![e] = w],
           active' = IF w.state = "closed" THEN None ELSE active
    PROVE  /\ opened' \in [Uplink!Epochs -> Uplink!Row \cup {None}] /\ RowsGoOn
           /\ active' \in Uplink!Epochs \cup {None}
           /\ (\E n \in 0..MaxEpoch : NewestOpened(n))'
           /\ Uplink!HeardIsAccepted' /\ Uplink!TakenInOrder'
<1>1. /\ opened' \in [Uplink!Epochs -> Uplink!Row \cup {None}] /\ opened'[e] = w
      /\ \A x \in Uplink!Epochs : x # e => opened'[x] = opened[x]
  BY DEF UplinkInv, Uplink!TypeOK
<1>2. w # None /\ opened[e].revision \in Nat
  BY UplinkFacts DEF UplinkInv, Uplink!TypeOK, Uplink!Row
<1>3. RowsGoOn
  BY <1>1, <1>2 DEF RowsGoOn
<1>4. PICK n \in 0..MaxEpoch : NewestOpened(n)
  BY DEF UplinkInv
<1>5. active = e /\ e = n /\ active # None
  BY <1>4, UplinkFacts DEF NewestOpened
<1>6. NewestOpened(n)'
  <2>1. \A x \in Uplink!Epochs : opened'[x] # None <=> x <= n
    BY <1>1, <1>2, <1>4 DEF NewestOpened
  <2>2. \A x \in Uplink!Epochs :
          opened'[x] # None =>
             opened'[x].epoch = x /\ (opened'[x].state # "closed" => active' = x)
    BY <1>1, <1>4, <1>5 DEF NewestOpened
  <2>3. active' # None => active' = n /\ opened'[active'] # None
                          /\ opened'[active'].state # "closed"
    BY <1>1, <1>2, <1>5
  <2> QED
    BY <2>1, <2>2, <2>3 DEF NewestOpened
<1>7. active' \in Uplink!Epochs \cup {None}
  BY <1>5
<1>8. Uplink!HeardIsAccepted'
  BY <1>1 DEF Unheard, UplinkInv, Uplink!HeardIsAccepted
<1>9. Uplink!TakenInOrder'
  BY DEF Unheard, UplinkInv, Uplink!TakenInOrder
<1> QED
  BY <1>1, <1>3, <1>6, <1>7, <1>8, <1>9

LEMMA UplinkReplaces ==
    ASSUME UplinkInv, NEW c \in UplinkCalls, Uplink!ReplaceSession(c)
    PROVE  UplinkInv'
<1>1. PICK call \in Uplink!Replacing : call = uplinkCalls[c] /\ CallFollows(call)
  BY UplinkStages DEF Uplink!ReplaceSession
<1> DEFINE e == call.message.epoch
           at == call.message.at
<1>2. /\ e \in Uplink!Epochs /\ at \in Beats /\ call.stage = "replace"
      /\ call.message.kind = "heartbeat"
  BY DEF Uplink!Replacing, Uplink!Heartbeat
<1>3. PICK w : w = call.row
  OBVIOUS
<1>4. /\ opened[e].revision = call.expected /\ opened' = [opened EXCEPT ![e] = w]
      /\ healthLease' = [healthLease EXCEPT ![e] = None]
      /\ uplinkCalls' = [uplinkCalls EXCEPT ![c] = None]
      /\ Unheard /\ UNCHANGED <<active, sweep>>
  BY <1>1, <1>3 DEF Uplink!ReplaceSession, Uplink!Ends, Unheard
<1>5. /\ opened[e] # None /\ opened[e].state # "closed" /\ marks[e] # None /\ at <= marks[e]
      /\ w = Uplink!Domain!observeCloudLinkHeartbeat(opened[e], at, at)
      /\ opened[e] \in Uplink!Row
  BY <1>1, <1>2, <1>3, <1>4 DEF CallFollows, UplinkInv, Uplink!TypeOK
<1>6. PICK n \in 0..MaxEpoch : NewestOpened(n)
  BY DEF UplinkInv
<1>7. /\ w \in Uplink!Row /\ w.epoch = e /\ w.state = "active" /\ w.lastHeartbeatAt = at
      /\ w.revision = opened[e].revision + 1
  BY <1>2, <1>5, <1>6, UplinkObserves DEF NewestOpened
<1> HIDE DEF e, at
<1>8. /\ opened' \in [Uplink!Epochs -> Uplink!Row \cup {None}] /\ RowsGoOn
      /\ (\E x \in 0..MaxEpoch : NewestOpened(x))'
      /\ Uplink!HeardIsAccepted' /\ Uplink!TakenInOrder'
  <2>1. active' = (IF w.state = "closed" THEN None ELSE active)
    BY <1>4, <1>7
  <2> QED
    BY <1>2, <1>4, <1>5, <1>7, <2>1, UplinkWrites
<1>9. MarksGoOn /\ Uplink!TypeOK /\ CallsFollow /\ SweepFollows
  BY <1>4, UplinkMarksStay DEF Unheard, UplinkInv
<1>10. CallsFollow' /\ uplinkCalls' \in [UplinkCalls -> Calling \cup {None}]
  BY <1>4, <1>8, <1>9, UplinkCallsFollow
<1>11. SweepFollows'
  BY <1>4, <1>8, <1>9, UplinkSweepFollows
<1>12. Uplink!TypeOK'
  <2>1. healthLease' \in [Uplink!Epochs -> Nat \cup {None}]
    BY <1>2, <1>4, <1>9 DEF Uplink!TypeOK
  <2> QED
    BY <1>4, <1>8, <1>9, <1>10, <2>1 DEF Uplink!TypeOK, Unheard, Calling
<1> QED
  BY <1>8, <1>10, <1>11, <1>12 DEF UplinkInv

\* Nobody is busy with the health of a session any more.
LEMMA UplinkCompletes == ASSUME UplinkInv, Uplink!Complete PROVE UplinkInv'
<1>1. sweep # None /\ sweep' = None /\ Unheard /\ UNCHANGED uplinkCalls
  BY DEF Uplink!Complete, Unheard
<1> DEFINE e == sweep.row.epoch
<1>2. /\ sweep.row \in Uplink!Row /\ sweep.at \in Uplink!Times /\ e \in Uplink!Epochs
      /\ opened[e] # None /\ sweep.row.state # "closed"
      /\ sweep.row.state \in {"active", "suspect"}
      /\ sweep.row.revision = opened[e].revision => sweep.row = opened[e]
  BY <1>1 DEF UplinkInv, SweepFollows, Uplink!TypeOK, Uplink!Swept, Uplink!Row
<1>3. MarksGoOn /\ Uplink!TypeOK /\ CallsFollow
  BY <1>1, UplinkMarksStay DEF Unheard, UplinkInv
<1>4. /\ opened' \in [Uplink!Epochs -> Uplink!Row \cup {None}] /\ RowsGoOn
      /\ active' \in Uplink!Epochs \cup {None}
      /\ healthLease' \in [Uplink!Epochs -> Nat \cup {None}]
      /\ (\E n \in 0..MaxEpoch : NewestOpened(n))'
      /\ Uplink!HeardIsAccepted' /\ Uplink!TakenInOrder'
  <2>1. CASE UNCHANGED <<opened, healthLease, active>>
    <3>1. PICK n \in 0..MaxEpoch : NewestOpened(n)
      BY DEF UplinkInv
    <3>2. NewestOpened(n)'
      BY <2>1, <3>1 DEF NewestOpened
    <3>3. RowsGoOn
      BY <2>1 DEF RowsGoOn
    <3> QED
      BY <1>1, <1>3, <2>1, <3>2, <3>3
      DEF Unheard, Uplink!TypeOK, UplinkInv, Uplink!HeardIsAccepted, Uplink!TakenInOrder
  <2>2. CASE /\ opened[e].revision = sweep.row.revision
             /\ opened' = [opened EXCEPT ![e] = Uplink!CompletedRow]
             /\ healthLease' = [healthLease EXCEPT ![e] = None]
             /\ active' = IF Uplink!CompletedRow.state = "closed" /\ active = e THEN None
                          ELSE active
    <3>1. sweep.row = opened[e] /\ opened[e].state # "closed" /\ opened[e] \in Uplink!Row
          /\ opened[e].epoch = e
      BY <1>2, <2>2
    <3>2. PICK w : w = Uplink!CompletedRow
      OBVIOUS
    <3>3. /\ w \in Uplink!Row /\ w.epoch = opened[e].epoch
          /\ w.lastHeartbeatAt = opened[e].lastHeartbeatAt
          /\ w.revision = opened[e].revision + 1
      <4>1. CASE sweep.row.state = "active"
        BY <1>2, <3>1, <3>2, <4>1, UplinkSuspects DEF Uplink!CompletedRow
      <4>2. CASE sweep.row.state # "active"
        BY <1>2, <3>1, <3>2, <4>2, UplinkCloses DEF Uplink!CompletedRow
      <4> QED
        BY <4>1, <4>2
    <3>4. PICK n \in 0..MaxEpoch : NewestOpened(n)
      BY DEF UplinkInv
    <3>5. active = e
      BY <1>2, <3>1, <3>4 DEF NewestOpened
    <3> HIDE DEF e
    <3>6. active' = (IF w.state = "closed" THEN None ELSE active)
      BY <2>2, <3>2, <3>5
    <3>7. w.lastHeartbeatAt # None => marks[e] # None /\ w.lastHeartbeatAt <= marks[e]
      BY <1>2, <3>3 DEF UplinkInv, Uplink!HeardIsAccepted
    <3>8. opened' = [opened EXCEPT ![e] = w]
      BY <2>2, <3>2
    <3>9. healthLease' \in [Uplink!Epochs -> Nat \cup {None}]
      BY <1>3, <2>2 DEF Uplink!TypeOK
    <3> QED
      BY <1>1, <1>2, <3>1, <3>3, <3>6, <3>7, <3>8, <3>9, UplinkWrites
  <2> QED
    BY <2>1, <2>2 DEF Uplink!Complete
<1>5. CallsFollow'
  BY <1>1, <1>3, <1>4 , UplinkCallsStayFollowing
<1>6. SweepFollows'
  BY <1>1 DEF SweepFollows
<1>7. Uplink!TypeOK'
  BY <1>1, <1>3, <1>4 DEF Uplink!TypeOK, Unheard
<1> QED
  BY <1>4, <1>5, <1>6, <1>7 DEF UplinkInv

\* A worker leases a row as it is.
LEMMA UplinkLeases ==
    ASSUME UplinkInv, NEW e \in Uplink!Epochs, Uplink!LeaseDue(e)
    PROVE  UplinkInv'
<1>1. /\ opened[e] # None /\ opened[e].state \in {"active", "suspect"}
      /\ healthLease' = [healthLease EXCEPT ![e] = clock + UplinkLease]
      /\ sweep' = [row |-> opened[e], at |-> clock]
      /\ UNCHANGED <<clock, opened, active, marks, taking, uplinkCalls, taken>>
  BY DEF Uplink!LeaseDue
<1>2. PICK n \in 0..MaxEpoch : NewestOpened(n)
  BY DEF UplinkInv
<1>3. opened[e] \in Uplink!Row /\ opened[e].epoch = e /\ opened[e].revision \in Nat
  BY <1>1, <1>2 DEF UplinkInv, Uplink!TypeOK, Uplink!Row, NewestOpened
<1>4. PICK s \in Uplink!Swept : s = [row |-> opened[e], at |-> clock]
  BY <1>3 DEF Uplink!Swept, UplinkInv, Uplink!TypeOK
<1>5. healthLease' \in [Uplink!Epochs -> Nat \cup {None}]
  <2>1. clock + UplinkLease \in Nat
    BY UplinkFacts DEF UplinkInv, Uplink!TypeOK
  <2> QED
    BY <1>1, <2>1 DEF UplinkInv, Uplink!TypeOK
<1>6. Uplink!TypeOK'
  BY <1>1, <1>4, <1>5 DEF UplinkInv, Uplink!TypeOK
<1>7. NewestOpened(n)'
  BY <1>1, <1>2 DEF NewestOpened
<1>8. CallsFollow'
  BY <1>1 DEF UplinkInv, CallsFollow, CallFollows
<1>9. SweepFollows'
  BY <1>1, <1>3, <1>4 DEF SweepFollows
<1>10. Uplink!HeardIsAccepted' /\ Uplink!TakenInOrder'
  BY <1>1 DEF UplinkInv, Uplink!HeardIsAccepted, Uplink!TakenInOrder
<1> QED
  BY <1>6, <1>7, <1>8, <1>9, <1>10 DEF UplinkInv

\* Fencing closes the current session, and so every one that was opened.
LEMMA UplinkFences ==
    ASSUME UplinkInv, NEW at \in Uplink!Times, NEW f, f = Uplink!fenceCurrent(at)
    PROVE  /\ f \in [Uplink!Epochs -> Uplink!Row \cup {None}]
           /\ \A e \in Uplink!Epochs :
                /\ f[e] # None <=> opened[e] # None
                /\ opened[e] # None =>
                     /\ f[e].epoch = e /\ f[e].state = "closed"
                     /\ f[e].lastHeartbeatAt = opened[e].lastHeartbeatAt
                     /\ f[e] = opened[e] \/ f[e].revision > opened[e].revision
<1>1. PICK n \in 0..MaxEpoch : NewestOpened(n)
  BY DEF UplinkInv
<1>2. CASE active = None
  <2>1. f = opened
    BY <1>2 DEF Uplink!fenceCurrent
  <2> QED
    BY <1>1, <1>2, <2>1, UplinkFacts DEF NewestOpened, UplinkInv, Uplink!TypeOK
<1>3. CASE active # None
  <2>1. /\ active \in Uplink!Epochs /\ opened[active] \in Uplink!Row
        /\ opened[active].state # "closed" /\ opened[active].revision \in Nat
        /\ opened[active].epoch = active
    BY <1>1, <1>3 DEF NewestOpened, UplinkInv, Uplink!TypeOK, Uplink!Row
  <2>2. PICK w : w = Uplink!Domain!fenceCloudLinkSession(opened[active], at)
    OBVIOUS
  <2>3. f = [opened EXCEPT ![active] = w]
    BY <1>3, <2>1, <2>2 DEF Uplink!fenceCurrent
  <2>4. /\ w \in Uplink!Row /\ w.epoch = active /\ w.state = "closed"
        /\ w.lastHeartbeatAt = opened[active].lastHeartbeatAt
        /\ w.revision = opened[active].revision + 1
    BY <2>1, <2>2, UplinkCloses
  <2>5. /\ f \in [Uplink!Epochs -> Uplink!Row \cup {None}] /\ f[active] = w
        /\ \A e \in Uplink!Epochs : e # active => f[e] = opened[e]
    BY <2>1, <2>3, <2>4 DEF UplinkInv, Uplink!TypeOK
  <2> QED
    BY <1>1, <1>3, <2>1, <2>4, <2>5, UplinkFacts DEF NewestOpened
<1> QED
  BY <1>2, <1>3

\* A session is opened as the newest.
LEMMA UplinkOpens ==
    ASSUME UplinkInv, NEW isSigned \in BOOLEAN, Uplink!Activate(clock, isSigned),
           Unheard, UNCHANGED <<healthLease, uplinkCalls, sweep>>
    PROVE  UplinkInv'
<1>1. PICK n \in 0..MaxEpoch : NewestOpened(n)
  BY DEF UplinkInv
<1>2. PICK k \in Uplink!Epochs : k = n + 1 /\ k = Uplink!NextEpoch
  BY <1>1, UplinkNewest DEF Uplink!Activate
<1>3. PICK f : f = Uplink!fenceCurrent(clock)
  OBVIOUS
<1>4. PICK w : w = Uplink!Domain!buildActiveSession("gateway", 1, k, clock, isSigned, taking)
  OBVIOUS
<1>5. w \in Uplink!Row /\ w.epoch = k /\ w.state = "active" /\ w.lastHeartbeatAt = None
      /\ w # None
  BY <1>4, UplinkBuilds, UplinkFacts DEF UplinkInv, Uplink!TypeOK
<1>6. opened' = [f EXCEPT ![k] = w] /\ active' = k
  BY <1>2, <1>3, <1>4 DEF Uplink!Activate
<1>7. /\ f \in [Uplink!Epochs -> Uplink!Row \cup {None}]
      /\ \A e \in Uplink!Epochs :
           /\ f[e] # None <=> opened[e] # None
           /\ opened[e] # None =>
                /\ f[e].epoch = e /\ f[e].state = "closed"
                /\ f[e].lastHeartbeatAt = opened[e].lastHeartbeatAt
                /\ f[e] = opened[e] \/ f[e].revision > opened[e].revision
  BY <1>3, UplinkFences DEF UplinkInv, Uplink!TypeOK
<1>8. opened[k] = None
  BY <1>1, <1>2 DEF NewestOpened
<1>9. /\ opened' \in [Uplink!Epochs -> Uplink!Row \cup {None}] /\ opened'[k] = w
      /\ \A e \in Uplink!Epochs : e # k => opened'[e] = f[e]
  BY <1>5, <1>6, <1>7
<1>10. RowsGoOn
  BY <1>7, <1>8, <1>9 DEF RowsGoOn
<1>11. NewestOpened(k)' /\ k \in 0..MaxEpoch
  <2>1. k \in 0..MaxEpoch /\ k # None
    BY <1>2, UplinkFacts DEF Uplink!Epochs
  <2>2. \A e \in Uplink!Epochs : opened'[e] # None <=> e <= k
    <3> SUFFICES ASSUME NEW e \in Uplink!Epochs PROVE opened'[e] # None <=> e <= k
      OBVIOUS
    <3>1. CASE e = k
      BY <1>5, <1>9, <2>1, <3>1
    <3>2. CASE e # k
      <4>1. opened'[e] # None <=> e <= n
        BY <1>1, <1>7, <1>9, <3>2 DEF NewestOpened
      <4>2. e \in Nat /\ (e <= n <=> e <= k)
        BY <1>2, <3>2, UplinkFacts
      <4> QED
        BY <4>1, <4>2
    <3> QED
      BY <3>1, <3>2
  <2>3. \A e \in Uplink!Epochs : opened'[e] # None =>
          opened'[e].epoch = e /\ (opened'[e].state # "closed" => active' = e)
    BY <1>5, <1>6, <1>7, <1>9
  <2>4. active' = k /\ opened'[active'] # None /\ opened'[active'].state # "closed"
    BY <1>5, <1>6, <1>9
  <2> QED
    BY <2>1, <2>2, <2>3, <2>4 DEF NewestOpened
<1>12. MarksGoOn /\ Uplink!TypeOK /\ CallsFollow /\ SweepFollows
  BY UplinkMarksStay DEF Unheard, UplinkInv
<1>13. CallsFollow' /\ SweepFollows'
  BY <1>9, <1>10, <1>12, UplinkCallsStayFollowing, UplinkSweepFollows
<1>14. Uplink!TypeOK'
  BY <1>6, <1>9, <1>12 DEF Uplink!TypeOK, Unheard
<1>15. Uplink!HeardIsAccepted'
  <2> SUFFICES ASSUME NEW e \in Uplink!Epochs
               PROVE  /\ opened'[e] # None /\ opened'[e].lastHeartbeatAt # None =>
                           marks[e] # None /\ opened'[e].lastHeartbeatAt <= marks[e]
                      /\ marks[e] # None => marks[e] <= clock + Interval
    BY DEF Unheard, Uplink!HeardIsAccepted
  <2>1. CASE e = k
    BY <1>5, <1>9, <2>1 DEF UplinkInv, Uplink!HeardIsAccepted
  <2>2. CASE e # k
    BY <1>7, <1>9, <2>2 DEF UplinkInv, Uplink!HeardIsAccepted
  <2> QED
    BY <2>1, <2>2
<1>16. Uplink!TakenInOrder'
  BY DEF Unheard, UplinkInv, Uplink!TakenInOrder
<1> QED
  BY <1>11, <1>13, <1>14, <1>15, <1>16 DEF UplinkInv

\* Every step of the signed uplinks keeps its invariant.
LEMMA UplinkNext == ASSUME UplinkInv, Uplink!Next PROVE UplinkInv'
<1>1. CASE Uplink!Open \/ Uplink!AcceptAndOpen
  <2>1. /\ Uplink!Activate(clock, FALSE) \/ Uplink!Activate(clock, TRUE)
        /\ Unheard /\ UNCHANGED <<healthLease, uplinkCalls, sweep>>
    BY <1>1 DEF Uplink!Open, Uplink!AcceptAndOpen, Unheard
  <2> QED
    BY <2>1, UplinkOpens
<1>2. ASSUME NEW c \in UplinkCalls,
             \/ \E message \in Uplink!Messages : Uplink!FindCurrent(c, message)
             \/ Uplink!Evaluate(c) \/ Uplink!ConsumeHeartbeat(c) \/ Uplink!ReplaceSession(c)
             \/ Uplink!ConsumeDelivery(c) \/ Uplink!RecordDurableCursor(c) \/ Uplink!Drop(c)
      PROVE  UplinkInv'
  BY <1>2, UplinkFinds, UplinkEvaluates, UplinkConsumesBeat, UplinkReplaces,
     UplinkConsumesDelivery, UplinkTakes, UplinkDrops
<1>3. CASE Uplink!Tick
  BY <1>3, UplinkTicks
<1>4. CASE Uplink!Complete
  BY <1>4, UplinkCompletes
<1>5. ASSUME NEW e \in Uplink!Epochs, Uplink!LeaseDue(e) PROVE UplinkInv'
  BY <1>5, UplinkLeases
<1> QED
  BY <1>1, <1>2, <1>3, <1>4, <1>5 DEF Uplink!Next

(***************************************************************************)
(* The pages of the console.                                               *)
(***************************************************************************)

\* The API has told the token of a Gateway.
Told == {"awaiting-claim", "claimed"}

\* A list shows nothing that the API has not got to.
Reached(list) ==
    \A g \in ListedGateways :
      /\ list[g] = "claimed" => enrollments[g] = "claimed"
      /\ list[g] = "awaiting-claim" => enrollments[g] \in Told

\* A fetch whose token was told waits for the list only; what is attached has its page.
FetchStands(f) ==
    /\ Reached(f.list)
    /\ f.task # "reload" => f.gateway \in ListedGateways
    /\ f.task = "reload" => f.request = "list"
    /\ f.task # "reload" /\ (f.request = "list" \/ (f.request = "issue" /\ f.answer = "ok")) =>
         enrollments[f.gateway] \in Told
    /\ f.attached => page \in FleetPage!Page

PairingStands ==
    (page \in FleetPage!Page /\ page.pairing # None) =>
      /\ enrollments[page.pairing] \in Told
      /\ fleet[page.pairing] # "claimed"

FleetInv ==
    /\ enrollments \in FleetPage!List /\ fleet \in FleetPage!List
    /\ page \in FleetPage!Page \cup {None}
    /\ fetches \subseteq FleetPage!Fetch
    /\ \A f \in fetches : FetchStands(f)
    /\ Reached(fleet) /\ PairingStands

\* At most one reading is not given up, and it is of what is selected.
DetailInv ==
    /\ Detail!TypeOK
    /\ \A r \in Readings : (readings[r] # None /\ ~readings[r].aborted) =>
         /\ selected # None /\ readings[r].integration = selected
         /\ \A q \in Readings : (readings[q] # None /\ ~readings[q].aborted) => q = r
    /\ Detail!PageIsHonest

\* What is assumed of the constants of the fleet page.
LEMMA FleetFacts ==
    /\ ListedGateways \subseteq Nat
    /\ None # "registered" /\ None # "awaiting-claim" /\ None # "claimed" /\ None # "ok"
    /\ None \notin FleetPage!Page
BY WorkersAssumption
DEF FleetPage!ConsoleAssumption, FleetPage!NoneIsNoRecord, FleetPage!States

LEMMA FleetEmpty == FleetPage!Empty \in FleetPage!List /\ Reached(FleetPage!Empty)
BY FleetFacts DEF FleetPage!Empty, FleetPage!List, Reached

\* The invariant of the fleet page holds when it begins.
LEMMA FleetInit == ASSUME FleetPage!Init PROVE FleetInv
<1>1. /\ enrollments = FleetPage!Empty /\ fleet = FleetPage!Empty /\ page = None
      /\ fetches = {}
  BY DEF FleetPage!Init
<1>2. page \in FleetPage!Page => page.pairing = None
  BY <1>1, FleetFacts
<1> QED
  BY <1>1, <1>2, FleetEmpty DEF FleetInv, PairingStands

----------------------------------------------------------------------------
(* What every step of the fleet page comes to.                             *)

\* The API goes on only.
EnrollmentsGrow ==
    /\ enrollments' \in FleetPage!List
    /\ \A g \in ListedGateways :
         /\ enrollments[g] = "claimed" => enrollments'[g] = "claimed"
         /\ enrollments[g] \in Told => enrollments'[g] \in Told

LEMMA FleetSame == ASSUME FleetInv, UNCHANGED enrollments PROVE EnrollmentsGrow
BY DEF FleetInv, EnrollmentsGrow

LEMMA FleetReached ==
    ASSUME EnrollmentsGrow, NEW list, Reached(list)
    PROVE  \A g \in ListedGateways :
             /\ list[g] = "claimed" => enrollments'[g] = "claimed"
             /\ list[g] = "awaiting-claim" => enrollments'[g] \in Told
BY DEF EnrollmentsGrow, Reached

LEMMA FleetFetchStands ==
    ASSUME FleetInv, EnrollmentsGrow, NEW f \in fetches,
           page \in FleetPage!Page => page' \in FleetPage!Page
    PROVE  FetchStands(f)'
<1>1. FetchStands(f)
  BY DEF FleetInv
<1>2. Reached(f.list)'
  BY <1>1, FleetReached DEF FetchStands, Reached
<1> QED
  BY <1>1, <1>2 DEF FetchStands, EnrollmentsGrow

\* One fetch goes on, the others wait.
LEMMA FleetBecomes ==
    ASSUME FleetInv, EnrollmentsGrow, UNCHANGED <<fleet, page>>,
           NEW f \in fetches, NEW x \in FleetPage!Fetch, FetchStands(x)',
           fetches' = (fetches \ {f}) \cup {x}
    PROVE  FleetInv'
<1>1. \A h \in fetches' : FetchStands(h)'
  BY FleetFetchStands
<1>2. fetches' \subseteq FleetPage!Fetch
  BY DEF FleetInv
<1>3. Reached(fleet)'
  BY FleetReached DEF FleetInv, Reached
<1>4. PairingStands'
  BY DEF FleetInv, PairingStands, EnrollmentsGrow, FleetPage!Page
<1> QED
  BY <1>1, <1>2, <1>3, <1>4 DEF FleetInv, EnrollmentsGrow

\* A fetch is added or ends while the page is used.
LEMMA FleetUses ==
    ASSUME FleetInv, UNCHANGED <<enrollments, fleet>>,
           page' \in FleetPage!Page \cup {None}, PairingStands',
           page \in FleetPage!Page => page' \in FleetPage!Page,
           fetches' \subseteq FleetPage!Fetch,
           \A f \in fetches' : f \in fetches \/ FetchStands(f)'
    PROVE  FleetInv'
<1>1. EnrollmentsGrow
  BY FleetSame
<1>2. \A f \in fetches' : FetchStands(f)'
  BY <1>1, FleetFetchStands
<1> QED
  BY <1>2 DEF FleetInv, Reached

----------------------------------------------------------------------------
(* The API and the edge.                                                   *)

LEMMA FleetListed ==
    ASSUME FleetInv
    PROVE  FleetPage!Listed \in FleetPage!List /\ Reached(FleetPage!Listed)
BY FleetFacts DEF FleetInv, FleetPage!Listed, FleetPage!List, Reached, Told

LEMMA FleetServeList ==
    ASSUME FleetInv, NEW f \in fetches, FleetPage!ServeList(f)
    PROVE  FleetInv'
<1>1. f \in FleetPage!Fetch /\ FetchStands(f) /\ f.request = "list"
  BY DEF FleetInv, FleetPage!ServeList, FleetPage!Sent
<1>2. PICK list \in FleetPage!List : list = FleetPage!Listed /\ Reached(list)
  BY FleetListed
<1>3. PICK x : x = [f EXCEPT !.answer = "ok", !.list = list]
  OBVIOUS
<1>4. /\ x \in FleetPage!Fetch /\ x.task = f.task /\ x.gateway = f.gateway
      /\ x.request = f.request /\ x.attached = f.attached /\ x.list = list
  BY <1>1, <1>3 DEF FleetPage!Fetch
<1>5. UNCHANGED <<enrollments, fleet, page>> /\ fetches' = (fetches \ {f}) \cup {x}
  BY <1>2, <1>3 DEF FleetPage!ServeList, FleetPage!Becomes
<1>6. FetchStands(x)'
  BY <1>1, <1>2, <1>4, <1>5 DEF FetchStands, Reached
<1> QED
  BY <1>4, <1>5, <1>6, FleetSame, FleetBecomes

LEMMA FleetReplies ==
    ASSUME NEW f \in FleetPage!Fetch, NEW answer \in {"ok", "refused"},
           FleetPage!Replies(f, answer)
    PROVE  \E x \in FleetPage!Fetch :
             /\ fetches' = (fetches \ {f}) \cup {x}
             /\ x.task = f.task /\ x.gateway = f.gateway /\ x.request = f.request
             /\ x.attached = f.attached /\ x.list = f.list /\ x.answer = answer
<1>1. PICK x : x = [f EXCEPT !.answer = answer]
  OBVIOUS
<1>2. /\ x \in FleetPage!Fetch /\ x.task = f.task /\ x.gateway = f.gateway
      /\ x.request = f.request /\ x.attached = f.attached /\ x.list = f.list
      /\ x.answer = answer
  BY <1>1 DEF FleetPage!Fetch
<1> QED
  BY <1>1, <1>2 DEF FleetPage!Replies, FleetPage!Becomes

LEMMA FleetStored ==
    ASSUME FleetInv, NEW g \in ListedGateways, NEW s \in FleetPage!States,
           enrollments' = [enrollments EXCEPT ![g] = s],
           enrollments[g] \notin Told \/ s = "claimed"
    PROVE  EnrollmentsGrow /\ enrollments'[g] = s
BY DEF FleetInv, EnrollmentsGrow, FleetPage!List, FleetPage!States, Told

LEMMA FleetServeRegister ==
    ASSUME FleetInv, NEW f \in fetches, FleetPage!ServeRegister(f)
    PROVE  FleetInv'
<1>1. /\ f \in FleetPage!Fetch /\ FetchStands(f) /\ f.request = "register"
      /\ f.gateway \in ListedGateways /\ UNCHANGED <<fleet, page>>
  BY DEF FleetInv, FetchStands, FleetPage!ServeRegister, FleetPage!Sent
<1>2. PICK answer \in {"ok", "refused"} : FleetPage!Replies(f, answer)
  BY DEF FleetPage!ServeRegister
<1>3. PICK x \in FleetPage!Fetch :
        /\ fetches' = (fetches \ {f}) \cup {x}
        /\ x.task = f.task /\ x.gateway = f.gateway /\ x.request = f.request
        /\ x.attached = f.attached /\ x.list = f.list
  BY <1>1, <1>2, FleetReplies
<1>4. EnrollmentsGrow
  <2>1. CASE enrollments[f.gateway] = None
    BY <1>1, <2>1, FleetFacts, FleetStored DEF FleetPage!ServeRegister, FleetPage!States, Told
  <2>2. CASE enrollments[f.gateway] # None
    BY <2>2, FleetSame DEF FleetPage!ServeRegister
  <2> QED
    BY <2>1, <2>2
<1>5. FetchStands(f)'
  BY <1>1, <1>4, FleetFetchStands
<1>6. FetchStands(x)'
  BY <1>1, <1>3, <1>5 DEF FetchStands
<1> QED
  BY <1>1, <1>3, <1>4, <1>6, FleetBecomes

LEMMA FleetServeIssue ==
    ASSUME FleetInv, NEW f \in fetches, FleetPage!ServeIssue(f)
    PROVE  FleetInv'
<1>1. /\ f \in FleetPage!Fetch /\ FetchStands(f) /\ f.request = "issue"
      /\ f.gateway \in ListedGateways /\ UNCHANGED <<fleet, page>>
  BY DEF FleetInv, FetchStands, FleetPage!ServeIssue, FleetPage!Sent
<1>2. CASE enrollments[f.gateway] = "registered"
  <2>1. FleetPage!Replies(f, "ok")
        /\ enrollments' = [enrollments EXCEPT ![f.gateway] = "awaiting-claim"]
    BY <1>2 DEF FleetPage!ServeIssue
  <2>2. EnrollmentsGrow /\ enrollments'[f.gateway] \in Told
    BY <1>1, <1>2, <2>1, FleetStored DEF FleetPage!States, Told
  <2>3. PICK x \in FleetPage!Fetch :
          /\ fetches' = (fetches \ {f}) \cup {x}
          /\ x.task = f.task /\ x.gateway = f.gateway /\ x.request = f.request
          /\ x.attached = f.attached /\ x.list = f.list
    BY <1>1, <2>1, FleetReplies
  <2>4. FetchStands(f)'
    BY <1>1, <2>2, FleetFetchStands
  <2>5. FetchStands(x)'
    BY <1>1, <2>2, <2>3, <2>4 DEF FetchStands
  <2> QED
    BY <1>1, <2>2, <2>3, <2>5, FleetBecomes
<1>3. CASE enrollments[f.gateway] # "registered"
  <2>1. FleetPage!Replies(f, "refused") /\ UNCHANGED enrollments
    BY <1>3 DEF FleetPage!ServeIssue
  <2>2. EnrollmentsGrow
    BY <2>1, FleetSame
  <2>3. PICK x \in FleetPage!Fetch :
          /\ fetches' = (fetches \ {f}) \cup {x}
          /\ x.task = f.task /\ x.gateway = f.gateway /\ x.request = f.request
          /\ x.attached = f.attached /\ x.list = f.list /\ x.answer = "refused"
    BY <1>1, <2>1, FleetReplies
  <2>4. FetchStands(f)'
    BY <1>1, <2>2, FleetFetchStands
  <2>5. FetchStands(x)'
    BY <1>1, <2>3, <2>4 DEF FetchStands
  <2> QED
    BY <1>1, <2>2, <2>3, <2>5, FleetBecomes
<1> QED
  BY <1>2, <1>3

LEMMA FleetClaim ==
    ASSUME FleetInv, NEW g \in ListedGateways, FleetPage!Claim(g)
    PROVE  FleetInv'
<1>1. EnrollmentsGrow /\ UNCHANGED <<fleet, page, fetches>>
  BY FleetStored DEF FleetPage!Claim, FleetPage!States
<1>2. \A f \in fetches : FetchStands(f)'
  BY <1>1, FleetFetchStands
<1>3. Reached(fleet)'
  BY <1>1, FleetReached DEF FleetInv, Reached
<1>4. PairingStands'
  BY <1>1 DEF FleetInv, PairingStands, EnrollmentsGrow, FleetPage!Page
<1> QED
  BY <1>1, <1>2, <1>3, <1>4 DEF FleetInv, EnrollmentsGrow

----------------------------------------------------------------------------
(* The console.                                                            *)

LEMMA FleetSend ==
    ASSUME FleetInv, UNCHANGED enrollments,
           NEW task \in {"register", "issue", "reload"},
           NEW gateway \in ListedGateways \cup {None},
           NEW request \in {"register", "issue", "list"},
           FleetPage!Send(task, gateway, request),
           IF task = "reload" THEN request = "list"
           ELSE gateway \in ListedGateways /\ request # "list" /\ page' \in FleetPage!Page
    PROVE  /\ fetches' \subseteq FleetPage!Fetch
           /\ \A f \in fetches' : f \in fetches \/ FetchStands(f)'
<1>1. PICK x : x = [task |-> task, gateway |-> gateway, request |-> request,
                    attached |-> (task # "reload"), answer |-> None, list |-> FleetPage!Empty]
  OBVIOUS
<1>2. /\ x.task = task /\ x.gateway = gateway /\ x.request = request
      /\ x.attached = (task # "reload") /\ x.answer = None /\ x.list = FleetPage!Empty
      /\ x \in FleetPage!Fetch
  BY <1>1, FleetEmpty DEF FleetPage!Fetch
<1>3. fetches' = fetches \cup {x}
  BY <1>1 DEF FleetPage!Send
<1>4. Reached(x.list)'
  BY <1>2, FleetEmpty DEF Reached
<1>5. FetchStands(x)'
  BY <1>2, <1>4, FleetFacts DEF FetchStands
<1> QED
  BY <1>2, <1>3, <1>5 DEF FleetInv

\* A page that shows another form, or no token, or the same one.
LEMMA FleetForm ==
    ASSUME FleetInv, UNCHANGED <<enrollments, fleet>>, page \in FleetPage!Page,
           page' \in FleetPage!Page,
           page'.pairing \in {page.pairing, None}
    PROVE  PairingStands'
BY DEF FleetInv, PairingStands

LEMMA FleetPageSet ==
    ASSUME NEW shown \in FleetPage!Page, NEW b \in BOOLEAN
    PROVE  /\ [shown EXCEPT !.submitting = b] \in FleetPage!Page
           /\ [shown EXCEPT !.submitting = b].pairing = shown.pairing
           /\ [shown EXCEPT !.pairing = None] \in FleetPage!Page
           /\ [shown EXCEPT !.pairing = None].pairing = None
BY DEF FleetPage!Page

LEMMA FleetNewId == \A g \in FleetPage!NewId : g \in ListedGateways \cup {None}
BY DEF FleetPage!NewId, FleetPage!Fresh

LEMMA FleetEnter == ASSUME FleetInv, FleetPage!Enter PROVE FleetInv'
<1>1. UNCHANGED <<enrollments, fleet, fetches>> /\ page = None
  BY DEF FleetPage!Enter
<1>2. PICK g \in ListedGateways \cup {None} :
        page' = [submitting |-> FALSE, gatewayId |-> g, pairing |-> None]
  BY FleetNewId DEF FleetPage!Enter
<1>3. page' \in FleetPage!Page /\ page'.pairing = None
  BY <1>2 DEF FleetPage!Page
<1>4. PairingStands'
  BY <1>3 DEF PairingStands
<1> QED
  BY <1>1, <1>3, <1>4, FleetUses DEF FleetInv

LEMMA FleetLeave == ASSUME FleetInv, FleetPage!Leave PROVE FleetInv'
<1>1. /\ UNCHANGED <<enrollments, fleet>> /\ page' = None
      /\ fetches' = {[f EXCEPT !.attached = FALSE] : f \in fetches}
  BY DEF FleetPage!Leave
<1>2. PairingStands'
  BY <1>1, FleetFacts DEF PairingStands
<1>3. ASSUME NEW h \in fetches' PROVE h \in FleetPage!Fetch /\ FetchStands(h)'
  <2>1. PICK f \in fetches : h = [f EXCEPT !.attached = FALSE]
    BY <1>1
  <2>2. f \in FleetPage!Fetch /\ FetchStands(f)
    BY DEF FleetInv
  <2>3. /\ h \in FleetPage!Fetch /\ h.task = f.task /\ h.gateway = f.gateway
        /\ h.request = f.request /\ h.attached = FALSE /\ h.list = f.list
        /\ h.answer = f.answer
    BY <2>1, <2>2 DEF FleetPage!Fetch
  <2> QED
    BY <1>1, <2>2, <2>3 DEF FetchStands, Reached
<1>4. fetches' \subseteq FleetPage!Fetch /\ \A f \in fetches' : FetchStands(f)'
  BY <1>3
<1> QED
  BY <1>1, <1>2, <1>4 DEF FleetInv, Reached

LEMMA FleetReload == ASSUME FleetInv, FleetPage!Reload \/ FleetPage!Poll PROVE FleetInv'
<1>1. UNCHANGED <<enrollments, fleet, page>> /\ FleetPage!Send("reload", None, "list")
  BY DEF FleetPage!Reload, FleetPage!Poll
<1>2. fetches' \subseteq FleetPage!Fetch /\ \A f \in fetches' : f \in fetches \/ FetchStands(f)'
  BY <1>1, FleetSend
<1>3. PairingStands'
  BY <1>1 DEF FleetInv, PairingStands
<1> QED
  BY <1>1, <1>2, <1>3, FleetUses DEF FleetInv

LEMMA FleetSubmit == ASSUME FleetInv, FleetPage!Submit PROVE FleetInv'
<1>1. PICK shown \in FleetPage!Page : shown = page /\ shown.gatewayId # None
  BY DEF FleetInv, FleetPage!Submit
<1>2. PICK gateway \in ListedGateways : gateway = shown.gatewayId
  BY <1>1 DEF FleetPage!Page
<1>3. /\ UNCHANGED <<enrollments, fleet>> /\ page' = [shown EXCEPT !.submitting = TRUE]
      /\ FleetPage!Send("register", gateway, "register")
  BY <1>1, <1>2 DEF FleetPage!Submit
<1>4. page' \in FleetPage!Page /\ page'.pairing = page.pairing
  BY <1>1, <1>3, FleetPageSet
<1>5. fetches' \subseteq FleetPage!Fetch /\ \A f \in fetches' : f \in fetches \/ FetchStands(f)'
  BY <1>3, <1>4, FleetSend
<1> QED
  BY <1>1, <1>3, <1>4, <1>5, FleetForm, FleetUses

LEMMA FleetIssue ==
    ASSUME FleetInv, NEW g \in ListedGateways, FleetPage!Issue(g)
    PROVE  FleetInv'
<1>1. PICK shown \in FleetPage!Page : shown = page
  BY DEF FleetInv, FleetPage!Issue
<1>2. /\ UNCHANGED <<enrollments, fleet>> /\ page' = [shown EXCEPT !.submitting = TRUE]
      /\ FleetPage!Send("issue", g, "issue")
  BY <1>1 DEF FleetPage!Issue
<1>3. page' \in FleetPage!Page /\ page'.pairing = page.pairing
  BY <1>1, <1>2, FleetPageSet
<1>4. fetches' \subseteq FleetPage!Fetch /\ \A f \in fetches' : f \in fetches \/ FetchStands(f)'
  BY <1>2, <1>3, FleetSend
<1> QED
  BY <1>1, <1>2, <1>3, <1>4, FleetForm, FleetUses

LEMMA FleetDismiss == ASSUME FleetInv, FleetPage!Dismiss PROVE FleetInv'
<1>1. PICK shown \in FleetPage!Page : shown = page
  BY DEF FleetInv, FleetPage!Dismiss
<1>2. UNCHANGED <<enrollments, fleet, fetches>> /\ page' = [shown EXCEPT !.pairing = None]
  BY <1>1 DEF FleetPage!Dismiss
<1>3. page' \in FleetPage!Page /\ page'.pairing = None
  BY <1>2, FleetPageSet
<1>4. fetches' \subseteq FleetPage!Fetch
  BY <1>2 DEF FleetInv
<1> QED
  BY <1>1, <1>2, <1>3, <1>4, FleetForm, FleetUses

\* A promise that fails, or ends before the list is read.
LEMMA FleetFails ==
    ASSUME FleetInv, NEW f \in fetches, UNCHANGED <<enrollments, fleet>>,
           page' = FleetPage!Fails(f), FleetPage!Done(f)
    PROVE  FleetInv'
<1>1. fetches' = fetches \ {f} /\ FetchStands(f)
  BY DEF FleetInv, FleetPage!Done
<1>2. fetches' \subseteq FleetPage!Fetch /\ \A h \in fetches' : h \in fetches
  BY <1>1 DEF FleetInv
<1>3. CASE ~f.attached \/ f.task = "reload"
  <2>1. UNCHANGED page
    BY <1>3 DEF FleetPage!Fails
  <2>2. PairingStands'
    BY <2>1 DEF FleetInv, PairingStands
  <2> QED
    BY <1>2, <2>1, <2>2, FleetUses DEF FleetInv
<1>4. CASE f.attached /\ f.task # "reload"
  <2>1. PICK shown \in FleetPage!Page : shown = page
    BY <1>1, <1>4 DEF FetchStands
  <2>2. page' = [shown EXCEPT !.submitting = FALSE]
    BY <1>4, <2>1 DEF FleetPage!Fails
  <2>3. page' \in FleetPage!Page /\ page'.pairing = page.pairing
    BY <2>1, <2>2, FleetPageSet
  <2> QED
    BY <1>2, <2>1, <2>3, FleetForm, FleetUses
<1> QED
  BY <1>3, <1>4

\* What is rendered next: a Gateway that is listed as claimed has no token next to it.
LEMMA FleetSettled ==
    ASSUME NEW shown \in FleetPage!Page, NEW list
    PROVE  /\ FleetPage!settled(shown, list) \in FleetPage!Page
           /\ FleetPage!settled(shown, list).pairing \in {shown.pairing, None}
           /\ FleetPage!settled(shown, list).pairing # None =>
                list[FleetPage!settled(shown, list).pairing] # "claimed"
<1>1. shown # None
  BY FleetFacts
<1>2. CASE shown.pairing # None /\ list[shown.pairing] = "claimed"
  BY <1>1, <1>2, FleetPageSet DEF FleetPage!settled
<1>3. CASE ~(shown.pairing # None /\ list[shown.pairing] = "claimed")
  BY <1>1, <1>3 DEF FleetPage!settled
<1> QED
  BY <1>2, <1>3

\* Who waited for the list has a Gateway whose token was told.
LEMMA FleetSucceeds ==
    ASSUME FleetInv, NEW f \in fetches, f.request = "list",
           NEW shown \in FleetPage!Succeeds(f), shown # None
    PROVE  /\ shown \in FleetPage!Page
           /\ shown.pairing # None => enrollments[shown.pairing] \in Told
<1>1. FetchStands(f)
  BY DEF FleetInv
<1>2. CASE ~f.attached \/ f.task = "reload"
  BY <1>2 DEF FleetPage!Succeeds, FleetInv, PairingStands
<1>3. CASE f.attached /\ f.task # "reload"
  <2>1. f.gateway \in ListedGateways /\ enrollments[f.gateway] \in Told
    BY <1>1, <1>3 DEF FetchStands
  <2>2. PICK old \in FleetPage!Page : old = page
    BY <1>1, <1>3 DEF FetchStands
  <2>3. CASE f.task = "issue"
    <3>1. shown = [old EXCEPT !.pairing = f.gateway, !.submitting = FALSE]
      BY <1>3, <2>2, <2>3 DEF FleetPage!Succeeds
    <3>2. shown \in FleetPage!Page /\ shown.pairing = f.gateway
      BY <2>1, <3>1 DEF FleetPage!Page
    <3> QED
      BY <2>1, <3>2
  <2>4. CASE f.task # "issue"
    <3>1. PICK g \in ListedGateways \cup {None} :
            shown = [old EXCEPT !.pairing = f.gateway, !.submitting = FALSE, !.gatewayId = g]
      BY <1>3, <2>2, <2>4, FleetNewId DEF FleetPage!Succeeds
    <3>2. shown \in FleetPage!Page /\ shown.pairing = f.gateway
      BY <2>1, <3>1 DEF FleetPage!Page
    <3> QED
      BY <2>1, <3>2
  <2> QED
    BY <2>3, <2>4
<1> QED
  BY <1>2, <1>3

LEMMA FleetEnds ==
    ASSUME FleetInv, NEW f \in fetches, f.request = "list",
           NEW list \in FleetPage!List, Reached(list), FleetPage!Ends(f, list)
    PROVE  FleetInv'
<1>1. UNCHANGED enrollments /\ fleet' = list /\ fetches' = fetches \ {f}
  BY DEF FleetPage!Ends, FleetPage!Done
<1>2. PICK shown \in FleetPage!Succeeds(f) : page' = FleetPage!settled(shown, list)
  BY DEF FleetPage!Ends
<1>3. /\ page' \in FleetPage!Page \cup {None} /\ PairingStands'
      /\ page \in FleetPage!Page => page' \in FleetPage!Page
  <2>1. CASE shown = None
    <3>1. page' = None
      BY <1>2, <2>1 DEF FleetPage!settled
    <3>2. page \notin FleetPage!Page
      <4>1. CASE ~f.attached \/ f.task = "reload"
        BY <2>1, <4>1, FleetFacts DEF FleetPage!Succeeds
      <4>2. CASE f.attached /\ f.task # "reload"
        <5>1. PICK old \in FleetPage!Page : old = page
          BY <4>2 DEF FleetInv, FetchStands
        <5>2. FetchStands(f)
          BY DEF FleetInv
        <5>3. f.gateway \in ListedGateways
          BY <4>2, <5>2 DEF FetchStands
        <5>4. shown \in FleetPage!Page
          <6>1. CASE f.task = "issue"
            BY <4>2, <5>1, <5>3, <6>1 DEF FleetPage!Succeeds, FleetPage!Page
          <6>2. CASE f.task # "issue"
            <7>1. PICK g \in ListedGateways \cup {None} :
                    shown = [old EXCEPT !.pairing = f.gateway, !.submitting = FALSE,
                                        !.gatewayId = g]
              BY <4>2, <5>1, <6>2, FleetNewId DEF FleetPage!Succeeds
            <7> QED
              BY <5>3, <7>1 DEF FleetPage!Page
          <6> QED
            BY <6>1, <6>2
        <5> QED
          BY <2>1, <5>4, FleetFacts
      <4> QED
        BY <4>1, <4>2
    <3> QED
      BY <3>1, <3>2, FleetFacts DEF PairingStands
  <2>2. CASE shown # None
    <3>1. /\ shown \in FleetPage!Page
          /\ shown.pairing # None => enrollments[shown.pairing] \in Told
      BY <2>2, FleetSucceeds
    <3>2. /\ page' \in FleetPage!Page /\ page'.pairing \in {shown.pairing, None}
          /\ page'.pairing # None => list[page'.pairing] # "claimed"
      BY <1>2, <3>1, FleetSettled
    <3>3. PairingStands'
      BY <1>1, <3>1, <3>2 DEF PairingStands
    <3> QED
      BY <3>2, <3>3
  <2> QED
    BY <2>1, <2>2
<1>4. EnrollmentsGrow
  BY <1>1, FleetSame
<1>5. \A h \in fetches' : FetchStands(h)'
  BY <1>1, <1>3, <1>4, FleetFetchStands
<1>6. Reached(fleet)'
  BY <1>1 DEF Reached
<1> QED
  BY <1>1, <1>3, <1>5, <1>6 DEF FleetInv

LEMMA FleetEnd ==
    ASSUME FleetInv, NEW f \in fetches,
           \/ FleetPage!Loaded(f) \/ FleetPage!Lost(f) \/ FleetPage!Refused(f)
    PROVE  FleetInv'
<1>1. f \in FleetPage!Fetch /\ FetchStands(f)
  BY DEF FleetInv
<1>2. CASE FleetPage!Loaded(f)
  <2>1. f.list \in FleetPage!List /\ Reached(f.list)
    BY <1>1 DEF FleetPage!Fetch, FetchStands
  <2> QED
    BY <1>2, <2>1, FleetEnds DEF FleetPage!Loaded
<1>3. CASE FleetPage!Lost(f)
  <2>1. CASE f.request = "list"
    <3>1. fleet \in FleetPage!List /\ Reached(fleet)
      BY DEF FleetInv
    <3> QED
      BY <1>3, <2>1, <3>1, FleetEnds DEF FleetPage!Lost
  <2>2. CASE f.request # "list"
    BY <1>3, <2>2, FleetFails DEF FleetPage!Lost
  <2> QED
    BY <2>1, <2>2
<1>4. CASE FleetPage!Refused(f)
  BY <1>4, FleetFails DEF FleetPage!Refused
<1> QED
  BY <1>2, <1>3, <1>4

LEMMA FleetRegistered ==
    ASSUME FleetInv, NEW f \in fetches, FleetPage!Registered(f)
    PROVE  FleetInv'
<1>1. /\ f \in FleetPage!Fetch /\ FetchStands(f) /\ UNCHANGED <<enrollments, fleet, page>>
      /\ f.request \in {"register", "issue"} /\ f.answer = "ok"
  BY DEF FleetInv, FleetPage!Registered
<1>2. PICK request \in {"issue", "list"} :
        request = IF f.request = "register" THEN "issue" ELSE "list"
  OBVIOUS
<1>3. PICK x : x = [f EXCEPT !.request = request, !.answer = None]
  OBVIOUS
<1>4. /\ x \in FleetPage!Fetch /\ x.task = f.task /\ x.gateway = f.gateway
      /\ x.request = request /\ x.attached = f.attached /\ x.list = f.list /\ x.answer = None
  BY <1>1, <1>3 DEF FleetPage!Fetch
<1>5. fetches' = (fetches \ {f}) \cup {x}
  BY <1>2, <1>3 DEF FleetPage!Registered, FleetPage!Then, FleetPage!Becomes
<1>6. EnrollmentsGrow
  BY <1>1, FleetSame
<1>7. FetchStands(f)'
  BY <1>1, <1>6, FleetFetchStands
<1>8. FetchStands(x)'
  BY <1>1, <1>2, <1>4, <1>7, FleetFacts DEF FetchStands
<1> QED
  BY <1>1, <1>4, <1>5, <1>6, <1>8, FleetBecomes

\* Every step of the fleet page keeps its invariant.
LEMMA FleetNext == ASSUME FleetInv, FleetPage!Next PROVE FleetInv'
BY FleetEnter, FleetLeave, FleetReload, FleetSubmit, FleetIssue, FleetDismiss, FleetClaim,
   FleetServeList, FleetServeRegister, FleetServeIssue, FleetRegistered, FleetEnd
DEF FleetPage!Next, FleetPage!Use, FleetPage!ServeSome, FleetPage!LoadSome,
    FleetPage!CommandSome

LEMMA FleetIsTrue == ASSUME FleetInv PROVE FleetPage!PairingIsTrue
<1>1. page # None => page \in FleetPage!Page
  BY DEF FleetInv
<1>2. page \in FleetPage!Page => page.pairing \in ListedGateways \cup {None}
  BY DEF FleetPage!Page
<1> QED
  BY <1>1, <1>2 DEF FleetInv, PairingStands, Reached, Told, FleetPage!PairingIsTrue

----------------------------------------------------------------------------
(* The page of integrations.                                               *)

\* What is assumed of the constants of the page of integrations.
LEMMA DetailFacts ==
    /\ None \notin Integrations /\ None \notin Detail!Reading
BY WorkersAssumption DEF Detail!NoneIsNoRecord

\* The invariant of the page of integrations holds when it begins.
LEMMA DetailInit == ASSUME Detail!Init PROVE DetailInv
<1>1. Detail!TypeOK
  BY DEF Detail!Init, Detail!TypeOK, Detail!Nothing, Detail!Detail, Detail!Catalog
<1>2. Detail!DetailIsOfSelection
  BY DEF Detail!Init, Detail!DetailIsOfSelection
<1>3. Detail!CatalogIsAnswered
  BY DEF Detail!Init, Detail!CatalogIsAnswered
<1>4. \A r \in Readings : readings[r] = None
  BY DEF Detail!Init
<1> QED
  BY <1>1, <1>2, <1>3, <1>4 DEF DetailInv, Detail!PageIsHonest

LEMMA DetailAbort ==
    ASSUME DetailInv
    PROVE  /\ Detail!abort \in [Readings -> Detail!Reading \cup {None}]
           /\ \A r \in Readings : Detail!abort[r] # None => Detail!abort[r].aborted
<1>1. ASSUME NEW r \in Readings
      PROVE  /\ Detail!abort[r] \in Detail!Reading \cup {None}
             /\ Detail!abort[r] # None => Detail!abort[r].aborted
  <2>1. CASE readings[r] = None
    BY <2>1 DEF Detail!abort
  <2>2. CASE readings[r] # None
    <3>1. PICK old \in Detail!Reading : old = readings[r]
      BY <2>2 DEF DetailInv, Detail!TypeOK
    <3>2. Detail!abort[r] = [old EXCEPT !.aborted = TRUE]
      BY <2>2, <3>1 DEF Detail!abort
    <3> QED
      BY <3>2 DEF Detail!Reading
  <2> QED
    BY <2>1, <2>2
<1> QED
  BY <1>1 DEF Detail!abort

\* What was asked for before is given up, and the pane waits for the new one only.
LEMMA DetailAsks ==
    ASSUME DetailInv, NEW integration \in Integrations, Detail!Ask(integration),
           selected' = integration
    PROVE  /\ selected' \in Integrations \cup {None} /\ detail' \in Detail!Detail
           /\ readings' \in [Readings -> Detail!Reading \cup {None}]
           /\ Detail!DetailIsOfSelection'
           /\ \A r \in Readings : (readings'[r] # None /\ ~readings'[r].aborted) =>
                /\ selected' # None /\ readings'[r].integration = selected'
                /\ \A q \in Readings : (readings'[q] # None /\ ~readings'[q].aborted) => q = r
<1>1. PICK r \in Readings :
        /\ readings' = [Detail!abort EXCEPT
                           ![r] = [integration |-> integration, aborted |-> FALSE]]
        /\ detail' = Detail!Waiting
  BY DEF Detail!Ask
<1>2. PICK new \in Detail!Reading :
        /\ new = [integration |-> integration, aborted |-> FALSE]
        /\ new.integration = integration /\ ~new.aborted
  <2>1. [integration |-> integration, aborted |-> FALSE] \in Detail!Reading
    BY DEF Detail!Reading
  <2> QED
    BY <2>1
<1>3. readings' = [Detail!abort EXCEPT ![r] = new]
  BY <1>1, <1>2
<1>4. /\ readings' \in [Readings -> Detail!Reading \cup {None}]
      /\ \A q \in Readings : readings'[q] = IF q = r THEN new ELSE Detail!abort[q]
  BY <1>3, DetailAbort
<1>5. new # None /\ integration # None
  BY DetailFacts
<1>6. \A q \in Readings : (readings'[q] # None /\ ~readings'[q].aborted) <=> q = r
  BY <1>2, <1>4, <1>5, DetailAbort
<1>7. detail'.loading /\ detail'.projection = None /\ detail' \in Detail!Detail
  BY <1>1 DEF Detail!Waiting, Detail!Detail
<1>8. Detail!DetailIsOfSelection'
  BY <1>1, <1>5, <1>6, <1>7 DEF Detail!DetailIsOfSelection
<1> QED
  BY <1>2, <1>4, <1>5, <1>6, <1>7, <1>8

LEMMA DetailSelect ==
    ASSUME DetailInv, NEW integration \in Integrations, Detail!Select(integration)
    PROVE  DetailInv'
<1>1. /\ Detail!Ask(integration) /\ selected' = integration /\ UNCHANGED <<catalog, loads>>
  BY DEF Detail!Select
<1>2. Detail!TypeOK'
  BY <1>1, DetailAsks DEF DetailInv, Detail!TypeOK
<1>3. Detail!PageIsHonest'
  BY <1>1, DetailAsks DEF DetailInv, Detail!PageIsHonest, Detail!CatalogIsAnswered
<1> QED
  BY <1>1, <1>2, <1>3, DetailAsks DEF DetailInv

LEMMA DetailDeselect == ASSUME DetailInv, Detail!Deselect PROVE DetailInv'
<1>1. /\ selected' = None /\ readings' = Detail!abort /\ detail' = Detail!Nothing
      /\ UNCHANGED <<catalog, loads>>
  BY DEF Detail!Deselect
<1>2. Detail!TypeOK'
  BY <1>1, DetailAbort DEF DetailInv, Detail!TypeOK, Detail!Nothing, Detail!Detail
<1>3. Detail!PageIsHonest'
  BY <1>1 DEF DetailInv, Detail!PageIsHonest, Detail!CatalogIsAnswered,
              Detail!DetailIsOfSelection
<1> QED
  BY <1>1, <1>2, <1>3, DetailAbort DEF DetailInv

LEMMA DetailDone ==
    ASSUME DetailInv, NEW r \in Readings, Detail!Done(r)
    PROVE  /\ readings' \in [Readings -> Detail!Reading \cup {None}]
           /\ \A q \in Readings : readings'[q] = IF q = r THEN None ELSE readings[q]
BY DEF DetailInv, Detail!TypeOK, Detail!Done

LEMMA DetailReceive ==
    ASSUME DetailInv, NEW r \in Readings, Detail!Receive(r) \/ Detail!Fail(r)
    PROVE  DetailInv'
<1>1. /\ readings[r] # None /\ ~readings[r].aborted /\ Detail!Done(r)
      /\ UNCHANGED <<selected, catalog, loads>>
  BY DEF Detail!Receive, Detail!Fail
<1>2. /\ selected \in Integrations /\ selected # None /\ readings[r].integration = selected
      /\ \A q \in Readings : (readings[q] # None /\ ~readings[q].aborted) => q = r
  BY <1>1 DEF DetailInv, Detail!TypeOK
<1>3. PICK old \in Detail!Detail : old = detail
  BY DEF DetailInv, Detail!TypeOK
<1>4. old = Detail!Waiting
  BY <1>1, <1>2, <1>3 DEF DetailInv, Detail!PageIsHonest, Detail!DetailIsOfSelection
<1>5. ~old.error /\ old.projection = None
  BY <1>4 DEF Detail!Waiting
<1>6. \A q \in Readings : ~(readings'[q] # None /\ ~readings'[q].aborted)
  BY <1>1, <1>2, DetailDone
<1>7. /\ detail' \in Detail!Detail /\ ~detail'.loading
      /\ \/ detail'.projection = selected /\ ~detail'.error
         \/ detail'.projection = None /\ detail'.error
  <2>1. CASE Detail!Receive(r)
    <3>1. detail' = [old EXCEPT !.projection = selected, !.loading = FALSE]
      BY <1>2, <1>3, <2>1 DEF Detail!Receive
    <3> QED
      BY <1>2, <1>5, <3>1 DEF Detail!Detail
  <2>2. CASE Detail!Fail(r)
    <3>1. detail' = [old EXCEPT !.error = TRUE, !.loading = FALSE]
      BY <1>3, <2>2 DEF Detail!Fail
    <3> QED
      BY <1>5, <3>1 DEF Detail!Detail
  <2> QED
    BY <2>1, <2>2
<1>8. Detail!DetailIsOfSelection'
  BY <1>1, <1>2, <1>6, <1>7 DEF Detail!DetailIsOfSelection
<1>9. Detail!CatalogIsAnswered'
  BY <1>1 DEF DetailInv, Detail!PageIsHonest, Detail!CatalogIsAnswered
<1>10. Detail!TypeOK'
  BY <1>1, <1>7, DetailDone DEF DetailInv, Detail!TypeOK
<1> QED
  BY <1>6, <1>8, <1>9, <1>10 DEF DetailInv, Detail!PageIsHonest

LEMMA DetailIgnore ==
    ASSUME DetailInv, NEW r \in Readings, Detail!Ignore(r)
    PROVE  DetailInv'
<1>1. /\ readings[r].aborted /\ Detail!Done(r)
      /\ UNCHANGED <<selected, detail, catalog, loads>>
  BY DEF Detail!Ignore
<1>2. \A q \in Readings :
        /\ (readings'[q] # None /\ ~readings'[q].aborted) <=>
             (readings[q] # None /\ ~readings[q].aborted)
        /\ readings'[q] # None => readings'[q] = readings[q]
  BY <1>1, DetailDone
<1>3. Detail!TypeOK'
  BY <1>1, DetailDone DEF DetailInv, Detail!TypeOK
<1>4. Detail!PageIsHonest'
  BY <1>1, <1>2 DEF DetailInv, Detail!PageIsHonest, Detail!DetailIsOfSelection,
                    Detail!CatalogIsAnswered
<1> QED
  BY <1>1, <1>2, <1>3, <1>4 DEF DetailInv

\* The catalog is read again, which is not answered at once.
LEMMA DetailLoad ==
    ASSUME DetailInv, NEW l \in Loads, Detail!Load(l)
    PROVE  catalog' \in Detail!Catalog /\ loads' \subseteq Loads /\ Detail!CatalogIsAnswered'
BY DEF DetailInv, Detail!TypeOK, Detail!Load, Detail!Catalog, Detail!CatalogIsAnswered

LEMMA DetailLoads ==
    ASSUME DetailInv, NEW l \in Loads,
           \/ Detail!LoadCatalog(l) \/ Detail!Loaded(l) \/ Detail!LoadFails(l)
    PROVE  DetailInv'
<1>1. UNCHANGED <<selected, detail, readings>>
  BY DEF Detail!LoadCatalog, Detail!Loaded, Detail!LoadFails
<1>2. catalog' \in Detail!Catalog /\ loads' \subseteq Loads /\ Detail!CatalogIsAnswered'
  <2>1. CASE Detail!LoadCatalog(l)
    BY <2>1, DetailLoad DEF Detail!LoadCatalog
  <2>2. CASE Detail!Loaded(l)
    BY <2>2 DEF DetailInv, Detail!TypeOK, Detail!Loaded, Detail!Catalog,
                Detail!CatalogIsAnswered
  <2>3. CASE Detail!LoadFails(l)
    BY <2>3 DEF DetailInv, Detail!TypeOK, Detail!LoadFails, Detail!Catalog,
                Detail!CatalogIsAnswered
  <2> QED
    BY <2>1, <2>2, <2>3
<1> QED
  BY <1>1, <1>2 DEF DetailInv, Detail!TypeOK, Detail!PageIsHonest, Detail!DetailIsOfSelection

LEMMA DetailRenew ==
    ASSUME DetailInv, NEW l \in Loads, Detail!Renew(l)
    PROVE  DetailInv'
<1>1. /\ catalog' \in Detail!Catalog /\ loads' \subseteq Loads /\ Detail!CatalogIsAnswered'
      /\ UNCHANGED selected
  BY DetailLoad DEF Detail!Renew
<1>2. CASE selected = None
  <2>1. UNCHANGED <<readings, detail>>
    BY <1>2 DEF Detail!Renew
  <2> QED
    BY <1>1, <2>1
    DEF DetailInv, Detail!TypeOK, Detail!PageIsHonest, Detail!DetailIsOfSelection
<1>3. CASE selected # None
  <2>1. PICK integration \in Integrations : integration = selected
    BY <1>3 DEF DetailInv, Detail!TypeOK
  <2>2. Detail!Ask(integration) /\ selected' = integration
    BY <1>1, <1>3, <2>1 DEF Detail!Renew
  <2>3. Detail!TypeOK'
    BY <1>1, <2>2, DetailAsks DEF Detail!TypeOK
  <2>4. Detail!PageIsHonest'
    BY <1>1, <2>2, DetailAsks DEF Detail!PageIsHonest
  <2> QED
    BY <2>2, <2>3, <2>4, DetailAsks DEF DetailInv
<1> QED
  BY <1>2, <1>3

\* Every step of the page of integrations keeps its invariant.
LEMMA DetailNext == ASSUME DetailInv, Detail!Next PROVE DetailInv'
BY DetailSelect, DetailDeselect, DetailReceive, DetailIgnore, DetailLoads, DetailRenew
DEF Detail!Next

(***************************************************************************)
(* The parts side by side.                                                 *)
(***************************************************************************)

\* A step is of one part, or of none, and every other part stays as it is.
LEMMA PartsApart ==
    ASSUME [WorkersNext]_workersVars
    PROVE  /\ Sweep!Next \/ UNCHANGED sweepVars
           /\ Delivery!Next \/ UNCHANGED deliveryVars
           /\ Rows!Next \/ UNCHANGED rowsVars
           /\ Ingress!Next \/ UNCHANGED ingressVars
           /\ Bridge!Next \/ UNCHANGED bridgeVars
           /\ Planning!Next \/ UNCHANGED planningVars
           /\ Uplink!Next \/ UNCHANGED uplinkVars
           /\ FleetPage!Next \/ UNCHANGED fleetVars
           /\ Detail!Next \/ UNCHANGED integrationsVars
           /\ Api!Next \/ UNCHANGED apiVars
BY DEF WorkersNext, workersVars,
    InSweep, InDelivery, InRows, InIngress, InBridge, InPlanning, InUplink, InFleetPage,
    InDetail, InApi

\* The invariant of a part speaks of its own variables only.
LEMMA SweepStutters == ASSUME SweepInv, UNCHANGED sweepVars PROVE SweepInv'
BY DEF SweepInv, sweepVars, Sweep!SweepsStayJustified, Sweep!StillLeased, Sweep!Holds

LEMMA DeliveryStutters == ASSUME DeliveryInv, UNCHANGED deliveryVars PROVE DeliveryInv'
BY DEF DeliveryInv, deliveryVars, Delivery!PublishedMeansAnswered, Delivery!Stored,
       PublishedStands, Delivery!Holds, ClaimsStand

LEMMA RowsStutters == ASSUME RowsInv, UNCHANGED rowsVars PROVE RowsInv'
<1>1. Rows!TypeOK'
  BY DEF RowsInv, rowsVars, Rows!TypeOK
<1>2. HeadLocked' /\ RowsLocked'
  BY DEF RowsInv, rowsVars, HeadLocked, RowsLocked, HoldsHead, HoldsRow
<1>3. TransactionsAreAt'
  BY DEF RowsInv, rowsVars, TransactionsAreAt, OpenerIsAt, BeaterIsAt, CompleterIsAt,
         RecorderIsAt, CopyOfRow, Unmoved
<1>4. Rows!CommittedOneLive'
  BY DEF RowsInv, rowsVars, Rows!CommittedOneLive, Rows!OneLive, Rows!Live, Rows!Exists,
         Rows!NothingThrown
<1> QED
  BY <1>1, <1>2, <1>3, <1>4 DEF RowsInv

LEMMA IngressStutters == ASSUME IngressInv, UNCHANGED ingressVars PROVE IngressInv'
BY DEF IngressInv, ingressVars, Ingress!TypeOK, UplinksInOrder, StartAndClose, Ingress!InFlight

LEMMA BridgeStutters == ASSUME BridgeInv, UNCHANGED bridgeVars PROVE BridgeInv'
BY DEF BridgeInv, bridgeVars, HandlingStands, MayServe, Recorded, Declared,
       AssertionsStand, Bridge!TypeOK, Bridge!FailsClosed

LEMMA PlanningStutters == ASSUME PlanningInv, UNCHANGED planningVars PROVE PlanningInv'
BY DEF PlanningInv, planningVars, PlanIsAt, AnswerStands, RecordsStand, Planning!TypeOK

LEMMA UplinkStutters == ASSUME UplinkInv, UNCHANGED uplinkVars PROVE UplinkInv'
BY DEF UplinkInv, uplinkVars, Uplink!HeardIsAccepted, Uplink!TakenInOrder, CallsFollow,
       CallFollows, Uplink!TypeOK, NewestOpened, SweepFollows

LEMMA FleetStutters == ASSUME FleetInv, UNCHANGED fleetVars PROVE FleetInv'
BY DEF FleetInv, fleetVars, Reached, FetchStands, PairingStands

LEMMA DetailStutters == ASSUME DetailInv, UNCHANGED integrationsVars PROVE DetailInv'
BY DEF DetailInv, integrationsVars, Detail!TypeOK, Detail!PageIsHonest,
       Detail!CatalogIsAnswered, Detail!DetailIsOfSelection

LEMMA ApiStutters == ASSUME ApiInv, UNCHANGED apiVars PROVE ApiInv'
BY DEF ApiInv, apiVars, Api!ApiClosesCleanly, Api!TypeOK, ApiClosing

\* A copy of a session that a health worker would still write is of a session that is
\* overdue: whichever workers sweep, whichever leases run out, and whatever beats.
THEOREM SweepsAreJustified == WorkersSpec => []SweepsStayJustified
<1>1. WorkersInit => SweepInv
  BY SweepInit DEF WorkersInit
<1>2. SweepInv /\ [WorkersNext]_workersVars => SweepInv'
  BY SweepNext, PartsApart, SweepStutters
<1>3. SweepInv => SweepsStayJustified
  BY DEF SweepInv, SweepsStayJustified
<1> QED
  BY <1>1, <1>2, <1>3, PTL DEF WorkersSpec

\* A row counts as published only if it was published after it was last asked for,
\* whichever workers claim it, lose it and publish it again.
THEOREM PublishedIsAnswered == WorkersSpec => []PublishedMeansAnswered
<1>1. WorkersInit => DeliveryInv
  BY DeliveryInit DEF WorkersInit
<1>2. DeliveryInv /\ [WorkersNext]_workersVars => DeliveryInv'
  BY DeliveryNext, PartsApart, DeliveryStutters
<1>3. DeliveryInv => PublishedMeansAnswered
  BY DEF DeliveryInv, PublishedMeansAnswered
<1> QED
  BY <1>1, <1>2, <1>3, PTL DEF WorkersSpec

\* The committed head of a Gateway names the only live row that is committed, wherever its
\* transactions stand and in whatever order they get their locks.
THEOREM OneLiveIsCommitted == WorkersSpec => []CommittedOneLive
<1>1. WorkersInit => RowsInv
  BY RowsInit DEF WorkersInit
<1>2. RowsInv /\ [WorkersNext]_workersVars => RowsInv'
  BY RowsNext, PartsApart, RowsStutters
<1>3. RowsInv => CommittedOneLive
  BY DEF RowsInv, CommittedOneLive
<1> QED
  BY <1>1, <1>2, <1>3, PTL DEF WorkersSpec

\* No transaction writes over what another one wrote since it read: a committed write is of
\* the revision after that of the row it replaces.
THEOREM UpdatesAreKept == WorkersSpec => NoLostUpdate
<1>1. WorkersInit => RowsInv
  BY RowsInit DEF WorkersInit
<1>2. RowsInv /\ [WorkersNext]_workersVars => RowsInv' /\ [Rows!WritesFollow]_(Rows!vars)
  <2> SUFFICES ASSUME RowsInv, [WorkersNext]_workersVars
               PROVE  RowsInv' /\ [Rows!WritesFollow]_(Rows!vars)
    OBVIOUS
  <2>1. CASE Rows!Next
    BY <2>1, RowsNext
  <2>2. CASE UNCHANGED rowsVars
    BY <2>2, RowsStutters DEF rowsVars, Rows!vars
  <2> QED
    BY <2>1, <2>2, PartsApart
<1> QED
  BY <1>1, <1>2, PTL DEF WorkersSpec, NoLostUpdate, Rows!NoLostUpdate

\* An ingress that closed cleanly has handled every uplink that it received and ended its
\* pool, and an API that did has answered what it had begun and ended its own: whatever the
\* signal and the failures come in between.
THEOREM ClosesAreClean == WorkersSpec => []CleanClose
<1> DEFINE Inv == IngressInv /\ ApiInv
<1>1. WorkersInit => Inv
  BY IngressInit, ApiInit DEF WorkersInit
<1>2. Inv /\ [WorkersNext]_workersVars => Inv'
  BY IngressNext, IngressStutters, ApiNext, ApiStutters, PartsApart
<1>3. Inv => CleanClose
  BY IngressCloses DEF ApiInv, CleanClose
<1> QED
  BY <1>1, <1>2, <1>3, PTL DEF WorkersSpec

\* An integration uplink is handed on only if a manifest that declares it was reported since
\* the process began, and never in a session older than the one the bridge served last, a
\* trusted one only in that one; and what a report was acknowledged as stands: whatever is
\* reordered or repeated, whichever call fails, and whatever other processes open meanwhile.
THEOREM BridgeFailsClosed == WorkersSpec => []FailsClosed
<1>1. WorkersInit => BridgeInv
  BY BridgeInit DEF WorkersInit
<1>2. BridgeInv /\ [WorkersNext]_workersVars => BridgeInv'
  BY BridgeNext, PartsApart, BridgeStutters
<1>3. BridgeInv => FailsClosed
  BY DEF BridgeInv, FailsClosed
<1> QED
  BY <1>1, <1>2, <1>3, PTL DEF WorkersSpec

\* OpenTofu runs only under the lease of its state and in its workspace, what stays behind is
\* told, and a recorded plan stands: for any plans of any stacks, aborts and failing ports.
THEOREM PlansAlwaysStand == WorkersSpec => []PlansStand
<1>1. WorkersInit => PlanningInv
  BY PlanningInit DEF WorkersInit
<1>2. PlanningInv /\ [WorkersNext]_workersVars => PlanningInv'
  BY PlanningNext, PartsApart, PlanningStutters
<1>3. PlanningInv => PlansStand
  BY PlanningStands DEF PlansStand
<1> QED
  BY <1>1, <1>2, <1>3, PTL DEF WorkersSpec

\* What a session shows of its heartbeats is what was accepted for it, and what is taken of
\* its deliveries is in order, whatever uplinks overtake one another between their reads
\* and their writes.
THEOREM UplinksAreTrue == WorkersSpec => []UplinkTruth
<1>1. WorkersInit => UplinkInv
  BY UplinkInit DEF WorkersInit
<1>2. UplinkInv /\ [WorkersNext]_workersVars => UplinkInv'
  BY UplinkNext, PartsApart, UplinkStutters
<1>3. UplinkInv => UplinkTruth
  BY UplinkTrue DEF UplinkTruth
<1> QED
  BY <1>1, <1>2, <1>3, PTL DEF WorkersSpec

\* The pages of the console show no token next to a Gateway that is listed as claimed, no
\* state that the API has not got to, and no projection but that of what is selected: in
\* whatever order requests are answered, lost or given up.
THEOREM ConsoleStaysHonest == WorkersSpec => []ConsoleIsHonest
<1> DEFINE Inv == FleetInv /\ DetailInv
<1>1. WorkersInit => Inv
  BY FleetInit, DetailInit DEF WorkersInit
<1>2. Inv /\ [WorkersNext]_workersVars => Inv'
  BY FleetNext, FleetStutters, DetailNext, DetailStutters, PartsApart
<1>3. Inv => ConsoleIsHonest
  BY FleetIsTrue DEF DetailInv, ConsoleIsHonest
<1> QED
  BY <1>1, <1>2, <1>3, PTL DEF WorkersSpec
=============================================================================
