--------------------------- MODULE GovernedJobProofs ---------------------------
(***************************************************************************)
(* Theorems about GovernedJob, for any jobs, requests, receipts, clock and *)
(* number of commands in flight.                                           *)
(***************************************************************************)
EXTENDS GovernedJob, FiniteSetTheorems, WellFoundedInduction, TLAPS

\* From a number on, a bounded set of numbers has a first gap.
LEMMA FirstGap ==
    ASSUME NEW a \in Nat, NEW m \in Nat, a <= m, NEW S \in SUBSET (1..m)
    PROVE  \E n \in a..m : (a + 1)..n \subseteq S /\ n + 1 \notin S
<1> DEFINE Gaps == {n \in a..m : n + 1 \notin S}
           T == {a..n : n \in Gaps}
<1>1. m \in Gaps
  OBVIOUS
<1>2. T # {}
  BY <1>1
<1>3. T \subseteq FiniteSubsetsOf(Nat)
  <2> SUFFICES ASSUME NEW n \in Gaps PROVE a..n \in FiniteSubsetsOf(Nat)
    OBVIOUS
  <2>1. IsFiniteSet(a..n)
    BY FS_Interval
  <2> QED
    BY <2>1 DEF FiniteSubsetsOf
<1>4. PICK t \in T : \A u \in T : <<u, t>> \notin StrictSubsetOrdering(Nat)
  <2> HIDE DEF T
  <2> QED
    BY <1>2, <1>3, FS_StrictSubsetOrderingWellFounded, WFMin, Zenon
<1>5. PICK n \in Gaps : t = a..n
  BY <1>4
<1>6. ASSUME NEW k \in (a + 1)..n PROVE k \in S
  <2>1. SUFFICES ASSUME k \notin S PROVE FALSE
    OBVIOUS
  <2>2. k - 1 \in Gaps
    BY <2>1
  <2>3. a..(k - 1) \in T
    BY <2>2
  <2>4. /\ a..(k - 1) \subseteq a..n /\ n \in a..n /\ n \notin a..(k - 1)
        /\ a..(k - 1) \in SUBSET Nat /\ a..n \in SUBSET Nat
    OBVIOUS
  <2>5. <<a..(k - 1), a..n>> \in StrictSubsetOrdering(Nat)
    BY <2>4 DEF StrictSubsetOrdering
  <2> QED
    BY <2>3, <2>5, <1>4, <1>5
<1> QED
  BY <1>5, <1>6

\* The receipts that follow on one another have a last one.
LEMMA EndExists ==
    ASSUME NEW last \in 0..MaxSequence, NEW receipts \in SUBSET Receipt
    PROVE  /\ contiguousEnd(last, receipts) \in last..MaxSequence
           /\ (last + 1)..contiguousEnd(last, receipts) \subseteq Sequences(receipts)
           /\ contiguousEnd(last, receipts) + 1 \notin Sequences(receipts)
<1>1. Sequences(receipts) \in SUBSET (1..MaxSequence)
  BY JobAssumption DEF Sequences, Receipt, IsReceipt
<1>2. last \in Nat /\ MaxSequence \in Nat /\ last <= MaxSequence
  BY JobAssumption
<1>3. \E n \in last..MaxSequence : /\ (last + 1)..n \subseteq Sequences(receipts)
                                   /\ n + 1 \notin Sequences(receipts)
  BY <1>1, <1>2, FirstGap
<1> HIDE DEF Sequences
<1> QED
  BY <1>3 DEF contiguousEnd

\* A receipt of a sequence that occurs tells a kind.
LEMMA KindExists ==
    ASSUME NEW receipts \in SUBSET Receipt, NEW n \in Sequences(receipts)
    PROVE  KindAt(receipts, n) \in Kinds
<1>1. \E r \in receipts : r.sequence = n
  BY DEF Sequences
<1>2. \A r \in receipts : r.kind \in Kinds
  BY JobAssumption DEF Receipt, IsReceipt
<1> QED
  BY <1>1, <1>2 DEF KindAt

----------------------------------------------------------------------------
(* What a transition makes of a job.                                       *)

\* How a version of a job follows from the one it was made of.
Follows(a, b) ==
    /\ b.job = a.job
    /\ Precedes(a, b)
    /\ b.revision <= a.revision + 1
    /\ a.state \in Terminal => b.state = a.state

LEMMA ControlledJob ==
    ASSUME NEW a \in Job, NEW action \in Actions, NEW at \in Time, IsAllowed(a, action, at)
    PROVE  Controlled(a, action) \in Job /\ Follows(a, Controlled(a, action))
<1>1. CASE a.state = Target[action]
  BY <1>1 DEF Controlled, Follows, Precedes, Job
<1>2. CASE a.state # Target[action]
  <2>1. a.state \in Sources[action]
    BY <1>2 DEF IsAllowed
  <2>2. a.state \notin Terminal
    BY <2>1 DEF Sources, Actions, Target, Terminal
  <2>3. Target[action] \in States
    BY DEF Target, Actions, States, Unoffered, Kinds, Terminal
  <2>4. a.marks \cup ({action} \ {"expire"}) \in SUBSET (Actions \ {"expire"})
    BY DEF Job
  <2>5. Controlled(a, action) =
          [a EXCEPT !.state = Target[action], !.revision = @ + 1,
                    !.marks = @ \cup ({action} \ {"expire"})]
    BY <1>2 DEF Controlled
  <2> DEFINE b == Controlled(a, action)
             marks == a.marks \cup ({action} \ {"expire"})
             revision == a.revision + 1
  <2>6. a.marks \subseteq marks
    OBVIOUS
  <2>7. b = [a EXCEPT !.state = Target[action], !.marks = marks, !.receipts = a.receipts,
                      !.last = a.last, !.revision = revision]
    BY <2>5 DEF Job
  <2> HIDE DEF b, marks, revision
  <2>8. marks \in SUBSET (Actions \ {"expire"})
    BY <2>4 DEF marks
  <2>9. a.receipts \in SUBSET Receipt /\ a.last \in 0..MaxSequence 
    BY DEF Job
  <2>10. a.revision \in Nat /\ revision = a.revision + 1 /\ revision \in Nat \ {0}
    BY DEF Job, revision
  <2>11. /\ b \in Job /\ b.job = a.job /\ b.revision = revision
         /\ b.receipts = a.receipts /\ b.marks = marks /\ b.last = a.last
    BY <2>3, <2>7, <2>8, <2>9, <2>10 DEF Job
  <2>12. Follows(a, b)
    BY <2>2, <2>6, <2>9, <2>11, <2>10, JobAssumption DEF Follows, Precedes
  <2> QED
    BY <2>11, <2>12 DEF b
<1> QED
  BY <1>1, <1>2

LEMMA RecordedJob ==
    ASSUME NEW a \in Job, NEW r \in Receipt, IsRecordable(a, r)
    PROVE  Recorded(a, r) \in Job /\ Follows(a, Recorded(a, r))
<1> DEFINE receipts == a.receipts \cup {r}
           end == IF isPending(a, r) THEN a.last ELSE contiguousEnd(a.last, receipts)
           b == Recorded(a, r)
<1>1. receipts \in SUBSET Receipt /\ a.last \in 0..MaxSequence
  BY DEF Job
<1>2. end \in a.last..MaxSequence /\ end \in 0..MaxSequence
  BY <1>1, EndExists, JobAssumption
<1>3. ASSUME end # a.last PROVE end \in Sequences(receipts) /\ ~isPending(a, r)
  BY <1>1, <1>2, <1>3, EndExists
<1>4. end # a.last => KindAt(receipts, end) \in States
  BY <1>1, <1>3, KindExists DEF States
<1>5. ASSUME a.state \in Terminal PROVE end = a.last
  <2>1. SUFFICES ASSUME end # a.last PROVE FALSE
    OBVIOUS
  <2>2. a.last + 1 \in (a.last + 1)..contiguousEnd(a.last, receipts)
    BY <2>1, <1>1, <1>2, <1>3
  <2>3. receiptTransitionIsAllowed(StateBefore(a, receipts, a.last + 1),
                                   KindAt(receipts, a.last + 1))
    BY <2>1, <2>2, <1>3 DEF IsRecordable, AreAllowed
  <2> QED
    BY <2>3, <1>5 DEF StateBefore, receiptTransitionIsAllowed, Terminal
<1> DEFINE state == IF end = a.last THEN a.state ELSE KindAt(receipts, end)
           revision == a.revision + 1
<1>6. b = [a EXCEPT !.state = state, !.marks = a.marks, !.receipts = receipts, !.last = end,
                    !.revision = revision]
  BY DEF Recorded, Job
<1>7. a.receipts \subseteq receipts
  OBVIOUS
<1> HIDE DEF end, receipts, b, revision
<1>8. revision = a.revision + 1 /\ a.revision \in Nat /\ revision \in Nat \ {0}
  BY DEF Job, revision
<1>9. state \in States /\ a.marks \in SUBSET (Actions \ {"expire"}) 
  BY <1>4 DEF Job
<1>10. /\ b \in Job /\ b.job = a.job /\ b.revision = revision
      /\ b.receipts = receipts /\ b.marks = a.marks /\ b.last = end /\ b.state = state
  <2> HIDE DEF state
  <2> QED
    BY <1>1, <1>2, <1>6, <1>9, <1>8 DEF Job
<1>11. Follows(a, b)
  BY <1>1, <1>2, <1>5, <1>7, <1>9, <1>10, <1>8, JobAssumption DEF Follows, Precedes
<1> QED
  BY <1>10, <1>11 DEF b

----------------------------------------------------------------------------
(* What a transition keeps of the receipts.                                *)

LEMMA InitialFollows ==
    ASSUME NEW k \in Creations
    PROVE  FollowsReceipts(createGovernedJob(k))
<1>1. Sequences({}) = {} /\ 1..0 = {}
  BY DEF Sequences
<1> QED
  BY <1>1 DEF createGovernedJob, FollowsReceipts, Kinds, Terminal

LEMMA ControlledFollows ==
    ASSUME NEW a \in Job, NEW action \in Actions, NEW at \in Time, IsAllowed(a, action, at),
           FollowsReceipts(a)
    PROVE  FollowsReceipts(Controlled(a, action))
<1>1. CASE a.state = Target[action]
  BY <1>1 DEF Controlled
<1>2. CASE a.state # Target[action]
  <2> DEFINE b == Controlled(a, action)
             end == IF a.last = 0 THEN "none" ELSE KindAt(a.receipts, a.last)
  <2>1. b.state = Target[action] /\ b.receipts = a.receipts /\ b.last = a.last
    BY <1>2 DEF Controlled, Job
  <2>2. a.state \in Sources[action]
    BY <1>2 DEF IsAllowed
  <2>3. a.last > 0 => KindAt(a.receipts, a.last) \in Kinds
    <3>1. a.last > 0 => a.last \in Sequences(a.receipts)
      BY JobAssumption DEF Job, FollowsReceipts
    <3> QED
      BY <3>1, KindExists DEF Job
  <2>4. a.last > 0 => a.state \in Kinds \cup {"unknown", "cancel-requested"}
    BY <2>3 DEF FollowsReceipts
  <2>5. a.last > 0 => Target[action] \in {"unknown", "cancel-requested"}
    BY <2>2, <2>4 DEF Sources, Target, Actions, Kinds, Terminal
  <2>6. Target[action] \notin Kinds \ {"expired"}
    BY DEF Target, Actions, Kinds, Terminal
  <2> HIDE DEF b
  <2> QED
    BY <2>1, <2>5, <2>6 DEF FollowsReceipts, b
<1> QED
  BY <1>1, <1>2

LEMMA RecordedFollows ==
    ASSUME NEW a \in Job, NEW r \in Receipt, IsRecordable(a, r), FollowsReceipts(a)
    PROVE  FollowsReceipts(Recorded(a, r))
<1> DEFINE receipts == a.receipts \cup {r}
           b == Recorded(a, r)
<1>1. receipts \in SUBSET Receipt /\ a.last \in 0..MaxSequence /\ a.last \in Nat
      /\ r.sequence \in Nat \ {0}
  BY JobAssumption DEF Job, Receipt, IsReceipt
<1>2. \A q, s \in receipts : q # s => q.id # s.id /\ q.sequence # s.sequence
  BY DEF FollowsReceipts, IsRecordable, isNew
<1>3. Sequences(receipts) = Sequences(a.receipts) \cup {r.sequence}
  BY DEF Sequences
<1>4. r.sequence \notin Sequences(a.receipts)
  BY DEF IsRecordable, isNew, Sequences
<1>5. r.sequence > a.last
  BY <1>1, <1>4 DEF FollowsReceipts
<1>6. CASE isPending(a, r)
  <2>1. b.receipts = receipts /\ b.last = a.last /\ b.state = a.state
    BY <1>6 DEF Recorded, Job
  <2>2. b.last + 1 \notin Sequences(receipts) /\ 1..b.last \subseteq Sequences(receipts)
    <3>1. a.last + 1 # r.sequence
      BY <1>1, <1>6 DEF isPending
    <3>2. a.last + 1 \notin Sequences(a.receipts) /\ 1..a.last \subseteq Sequences(a.receipts)
      BY DEF FollowsReceipts
    <3> HIDE DEF b, receipts
    <3> QED
      BY <2>1, <3>1, <3>2, <1>3
  <2>3. a.last > 0 => KindAt(receipts, a.last) = KindAt(a.receipts, a.last)
    <3>1. SUFFICES ASSUME a.last > 0
                   PROVE  KindAt(receipts, a.last) = KindAt(a.receipts, a.last)
      OBVIOUS
    <3>2. a.last \in Sequences(a.receipts)
      BY <3>1, <1>1 DEF FollowsReceipts
    <3>3. PICK q \in a.receipts : q.sequence = a.last
      BY <3>2 DEF Sequences
    <3>4. \A s \in receipts : s.sequence = a.last => s = q
      BY <3>3, <1>2
    <3>5. (CHOOSE s \in receipts : s.sequence = a.last) = q
      BY <3>3, <3>4
    <3>6. (CHOOSE s \in a.receipts : s.sequence = a.last) = q
      BY <3>3, <3>4
    <3> QED
      BY <3>5, <3>6 DEF KindAt
  <2>4. a.last > 0 =>
          a.state \in {KindAt(a.receipts, a.last), "unknown", "cancel-requested"}
    BY DEF FollowsReceipts
  <2>5. a.last = 0 => a.state \notin Kinds \ {"expired"}
    BY DEF FollowsReceipts
  <2> HIDE DEF b, receipts
  <2> QED
    BY <2>1, <2>2, <2>3, <2>4, <2>5, <1>2 DEF FollowsReceipts, b
<1>7. CASE ~isPending(a, r)
  <2> DEFINE end == contiguousEnd(a.last, receipts)
  <2>1. r.sequence = a.last + 1
    BY <1>1, <1>5, <1>7 DEF isPending
  <2>2. /\ end \in a.last..MaxSequence
        /\ (a.last + 1)..end \subseteq Sequences(receipts)
        /\ end + 1 \notin Sequences(receipts)
    BY <1>1, EndExists
  <2>3. end # a.last
    BY <2>1, <2>2, <1>3
  <2>4. b.receipts = receipts /\ b.last = end /\ b.state = KindAt(receipts, end)
    BY <2>3, <1>7 DEF Recorded, Job
  <2> HIDE DEF b, end
  <2>5. end \in Nat /\ end > 0
    BY <2>2, <2>3, <1>1
  <2>6. 1..end \subseteq Sequences(receipts)
    <3>1. 1..a.last \subseteq Sequences(a.receipts)
      BY DEF FollowsReceipts
    <3>2. ASSUME NEW n \in 1..end PROVE n \in 1..a.last \/ n \in (a.last + 1)..end
      BY <1>1, <2>5
    <3> QED
      BY <3>1, <3>2, <2>2, <1>3
  <2> HIDE DEF receipts
  <2> QED
    BY <2>2, <2>4, <2>5, <2>6, <1>2 DEF FollowsReceipts, b
<1> QED
  BY <1>6, <1>7

----------------------------------------------------------------------------
(* The invariant: what a command holds follows from the copy it has read,  *)
(* and that copy is a point of the history of the stored job.              *)

JobsAreNamed == \A j \in Jobs : jobs[j] # None => jobs[j].job = j

CallFollows(c) ==
    /\ FollowsReceipts(c.next)
    /\ c.current = None => c.next.revision = 1
    /\ c.current # None => /\ Follows(c.current, c.next)
                           /\ jobs[c.next.job] # None
                           /\ Precedes(c.current, jobs[c.next.job])
CallsFollow == \A p \in Processes : calls[p] # None => CallFollows(calls[p])

IInv ==
    /\ TypeOK
    /\ JobsAreNamed
    /\ ProjectionFollowsReceipts
    /\ OneHistory
    /\ CallsFollow

LEMMA PrecedesTransitive ==
    ASSUME NEW a \in Job, NEW b \in Job, NEW c \in Job, Precedes(a, b), Precedes(b, c)
    PROVE  Precedes(a, c)
<1>1. /\ a.revision \in Nat /\ b.revision \in Nat /\ c.revision \in Nat
      /\ a.last \in Nat /\ b.last \in Nat /\ c.last \in Nat
  BY JobAssumption DEF Job
<1> QED
  BY <1>1 DEF Precedes

LEMMA SameRevision ==
    ASSUME NEW a \in Job, NEW b \in Job, Precedes(a, b), a.revision = b.revision
    PROVE  a = b
  BY DEF Precedes, Job

LEMMA StoredIsJob ==
    ASSUME TypeOK
    PROVE  /\ \A j \in Jobs : jobs[j] # None => jobs[j] \in Job
           /\ \A r \in Requests : requests[r] # None => requests[r] \in Job
           /\ \A p \in Processes : calls[p] # None =>
                /\ calls[p].request \in Requests
                /\ calls[p].next \in Job /\ calls[p].next.job \in Jobs
                /\ calls[p].current # None => calls[p].current \in Job
  BY DEF TypeOK, Call, Job

LEMMA InitInv == Init => IInv
<1> SUFFICES ASSUME Init PROVE IInv
  OBVIOUS
<1>1. 0 \in Time
  BY JobAssumption DEF Time
<1>2. TypeOK
  BY <1>1 DEF Init, TypeOK
<1> QED
  BY <1>2 DEF Init, IInv, JobsAreNamed, ProjectionFollowsReceipts, OneHistory, ToldOnce,
              ToldOfStored, EveryVersionIsTold, RequestsOf, CallsFollow

----------------------------------------------------------------------------
(* A command begins: it holds what follows from what it has read.          *)

LEMMA CreatedJob ==
    ASSUME NEW k \in Creations
    PROVE  createGovernedJob(k) \in Job /\ createGovernedJob(k).revision = 1
  BY JobAssumption DEF createGovernedJob, Job, States, Unoffered

LEMMA BeginInv ==
    ASSUME IInv, NEW p \in Processes, NEW request \in Requests,
           NEW current \in Job \cup {None}, NEW next \in Job,
           Begin(p, request, current, next),
           CallFollows([request |-> request, current |-> current, next |-> next])
    PROVE  IInv'
<1> DEFINE c == [request |-> request, current |-> current, next |-> next]
<1>1. /\ calls' = [calls EXCEPT ![p] = c]
      /\ now' = now /\ jobs' = jobs /\ requests' = requests
  BY DEF Begin
<1>2. c \in Call
  BY DEF Call
<1>3. TypeOK'
  BY <1>1, <1>2 DEF IInv, TypeOK
<1>4. CallsFollow'
  BY <1>1 DEF IInv, TypeOK, CallsFollow, CallFollows
<1>5. /\ JobsAreNamed' /\ ProjectionFollowsReceipts' /\ OneHistory'
  BY <1>1 DEF IInv, JobsAreNamed, ProjectionFollowsReceipts, OneHistory, ToldOnce,
              ToldOfStored, EveryVersionIsTold, RequestsOf
<1> QED
  BY <1>3, <1>4, <1>5 DEF IInv

LEMMA CreateInv ==
    ASSUME IInv, NEW p \in Processes, NEW k \in Creations, CreateRead(p, k)
    PROVE  IInv'
<1>1. CallFollows([request |-> k.request, current |-> None, next |-> createGovernedJob(k)])
  BY CreatedJob, InitialFollows DEF CallFollows
<1> QED
  BY <1>1, CreatedJob, BeginInv, JobAssumption DEF CreateRead

\* A command that has read a job holds a version that follows from it.
LEMMA ReadFollows ==
    ASSUME IInv, NEW j \in Jobs, jobs[j] # None, NEW request, NEW next \in Job,
           Follows(jobs[j], next), FollowsReceipts(next)
    PROVE  CallFollows([request |-> request, current |-> jobs[j], next |-> next])
<1>1. next.job = j /\ jobs[j] \in Job
  BY StoredIsJob DEF IInv, JobsAreNamed, Follows
<1> QED
  BY <1>1 DEF CallFollows, Precedes

LEMMA ControlInv ==
    ASSUME IInv, NEW p \in Processes, NEW k \in Orders, ControlRead(p, k)
    PROVE  IInv'
<1> DEFINE a == jobs[k.job]
           b == Controlled(a, k.action)
<1>1. /\ k.job \in Jobs /\ k.request \in Requests /\ k.action \in Actions
      /\ now \in Time /\ a # None /\ a \in Job /\ FollowsReceipts(a)
  BY JobAssumption, StoredIsJob DEF IInv, TypeOK, ControlRead, ProjectionFollowsReceipts
<1>2. IsAllowed(a, k.action, now) /\ Begin(p, k.request, a, b)
  BY DEF ControlRead
<1> HIDE DEF a, b
<1>3. b \in Job /\ Follows(a, b) /\ FollowsReceipts(b)
  BY <1>1, <1>2, ControlledJob, ControlledFollows DEF b
<1>4. CallFollows([request |-> k.request, current |-> a, next |-> b])
  BY <1>1, <1>3, ReadFollows DEF a
<1> QED
  BY <1>1, <1>2, <1>3, <1>4, BeginInv

LEMMA ReceiptInv ==
    ASSUME IInv, NEW p \in Processes, NEW m \in Messages, ReceiptRead(p, m)
    PROVE  IInv'
<1> DEFINE a == jobs[m.job]
           b == Recorded(a, m.receipt)
<1>1. /\ m.job \in Jobs /\ m.request \in Requests /\ m.receipt \in Receipt
      /\ a # None /\ a \in Job /\ FollowsReceipts(a)
  BY JobAssumption, StoredIsJob DEF IInv, TypeOK, ReceiptRead, ProjectionFollowsReceipts, Receipt
<1>2. IsRecordable(a, m.receipt) /\ Begin(p, m.request, a, b)
  BY DEF ReceiptRead
<1> HIDE DEF a, b
<1>3. b \in Job /\ Follows(a, b) /\ FollowsReceipts(b)
  BY <1>1, <1>2, RecordedJob, RecordedFollows DEF b
<1>4. CallFollows([request |-> m.request, current |-> a, next |-> b])
  BY <1>1, <1>3, ReadFollows DEF a
<1> QED
  BY <1>1, <1>2, <1>3, <1>4, BeginInv

----------------------------------------------------------------------------
(* A command ends: what it holds is the next version of the stored job.    *)

\* The copy of a command whose revision is expected is the stored job.
LEMMA ReplaceFollows ==
    ASSUME IInv, NEW p \in Processes, Replace(p)
    PROVE  jobs[calls[p].next.job] # None /\ Follows(jobs[calls[p].next.job], calls[p].next)
<1> DEFINE c == calls[p]
           a == jobs[c.next.job]
<1>1. c # None /\ c.current # None /\ a # None /\ a.revision = c.current.revision
  BY DEF Replace, isExpectedRevision
<1>2. c.current \in Job /\ a \in Job
  BY <1>1, StoredIsJob DEF IInv
<1>3. Follows(c.current, c.next) /\ Precedes(c.current, a)
  BY <1>1 DEF IInv, CallsFollow, CallFollows
<1>4. c.current = a
  BY <1>1, <1>2, <1>3, SameRevision
<1> QED
  BY <1>1, <1>3, <1>4

\* The version that follows on the stored one is stored and told.
Stores(p) ==
    LET c == calls[p]
        j == c.next.job
    IN /\ c # None /\ requests[c.request] = None
       /\ jobs' = [jobs EXCEPT ![j] = c.next]
       /\ requests' = [requests EXCEPT ![c.request] = c.next]
       /\ calls' = [calls EXCEPT ![p] = None]
       /\ now' = now
       /\ IF jobs[j] = None THEN c.next.revision = 1 ELSE Follows(jobs[j], c.next)

LEMMA InsertStores ==
    ASSUME IInv, NEW p \in Processes, Insert(p)
    PROVE  Stores(p)
  BY DEF IInv, CallsFollow, CallFollows, Insert, Remember, Return, Stores

LEMMA ReplaceStores ==
    ASSUME IInv, NEW p \in Processes, Replace(p)
    PROVE  Stores(p)
  BY ReplaceFollows DEF Replace, Remember, Return, Stores

LEMMA StoresInv ==
    ASSUME IInv, NEW p \in Processes, Stores(p)
    PROVE  IInv'
<1> PICK next, request, j : next = calls[p].next /\ request = calls[p].request /\ j = next.job
  OBVIOUS
<1>1. /\ next \in Job /\ j \in Jobs /\ request \in Requests /\ requests[request] = None
      /\ FollowsReceipts(next)
  BY StoredIsJob DEF Stores, IInv, CallsFollow, CallFollows
<1>2. /\ jobs' = [jobs EXCEPT ![j] = next]
      /\ requests' = [requests EXCEPT ![request] = next]
      /\ calls' = [calls EXCEPT ![p] = None]
      /\ now' = now
  BY DEF Stores
<1>3. /\ jobs[j] = None => next.revision = 1
      /\ jobs[j] # None => jobs[j] \in Job /\ Follows(jobs[j], next)
  BY StoredIsJob, <1>1 DEF Stores, IInv
<1>4. calls[p] # None
  BY DEF Stores
<1>5. next # None /\ next.job = j
  BY <1>1, NoneAssumption
<1>6. /\ jobs'[j] = next /\ \A i \in Jobs \ {j} : jobs'[i] = jobs[i]
      /\ requests'[request] = next
      /\ \A r \in Requests \ {request} : requests'[r] = requests[r]
  BY <1>1, <1>2 DEF IInv, TypeOK
<1>7. TypeOK'
  BY <1>1, <1>2 DEF IInv, TypeOK
<1>8. JobsAreNamed'
  BY <1>5, <1>6 DEF IInv, JobsAreNamed
<1>9. ProjectionFollowsReceipts'
  BY <1>1, <1>6 DEF IInv, ProjectionFollowsReceipts
<1>10. \A a \in Job : jobs[j] # None /\ Precedes(a, jobs[j]) => Precedes(a, next)
  BY <1>1, <1>3, PrecedesTransitive DEF Follows
<1>11. CallsFollow'
  <2> SUFFICES ASSUME NEW q \in Processes, calls'[q] # None PROVE CallFollows(calls[q])'
    BY DEF CallsFollow
  <2>1. q # p /\ calls'[q] = calls[q]
    BY <1>2 DEF IInv, TypeOK
  <2>2. calls[q] # None /\ CallFollows(calls[q])
    BY <2>1 DEF IInv, CallsFollow
  <2>3. calls[q].next \in Job /\ calls[q].next.job \in Jobs
        /\ (calls[q].current # None => calls[q].current \in Job)
    BY <2>2, StoredIsJob DEF IInv
  <2>4. CASE calls[q].current = None
    BY <2>1, <2>2, <2>4 DEF CallFollows
  <2>5. CASE calls[q].current # None
    <3>1. jobs'[calls[q].next.job] # None
          /\ Precedes(calls[q].current, jobs'[calls[q].next.job])
      <4>1. CASE calls[q].next.job = j
        BY <4>1, <1>5, <1>6, <1>10, <2>2, <2>3, <2>5 DEF CallFollows
      <4>2. CASE calls[q].next.job # j
        BY <4>2, <1>6, <2>2, <2>3, <2>5 DEF CallFollows
      <4> QED
        BY <4>1, <4>2
    <3> QED
      BY <2>1, <2>2, <2>5, <3>1 DEF CallFollows
  <2> QED
    BY <2>4, <2>5
<1>12. \A i \in Jobs \ {j} : RequestsOf(i)' = RequestsOf(i)
  BY <1>1, <1>5, <1>6 DEF RequestsOf
<1>13. RequestsOf(j)' = RequestsOf(j) \cup {request} /\ request \notin RequestsOf(j)
  BY <1>1, <1>5, <1>6 DEF RequestsOf
<1>14. \A i \in Jobs : \A r \in RequestsOf(i) : r # request /\ requests'[r] = requests[r]
  BY <1>1, <1>6 DEF RequestsOf
<1>15. ToldOfStored /\ ToldOnce /\ EveryVersionIsTold
  BY DEF IInv, OneHistory
<1>16. \A r \in RequestsOf(j) : requests[r] \in Job /\ jobs[j] # None /\ Precedes(requests[r], next)
  <2>1. \A r \in RequestsOf(j) : /\ requests[r] \in Job /\ jobs[j] # None
                                  /\ Precedes(requests[r], jobs[j])
    BY <1>1, <1>15, StoredIsJob DEF ToldOfStored, RequestsOf, IInv
  <2> QED
    BY <2>1, <1>10
<1>17. ToldOfStored'
  <2> SUFFICES ASSUME NEW i \in Jobs, NEW r \in RequestsOf(i)'
               PROVE  jobs'[i] # None /\ Precedes(requests'[r], jobs'[i])
    BY DEF ToldOfStored, Precedes
  <2>1. CASE i # j
    BY <2>1, <1>6, <1>12, <1>14, <1>15 DEF ToldOfStored
  <2>2. CASE i = j /\ r = request
    BY <2>2, <1>5, <1>6 DEF Precedes
  <2>3. CASE i = j /\ r # request
    BY <2>3, <1>5, <1>6, <1>13, <1>14, <1>16
  <2> QED
    BY <2>1, <2>2, <2>3
<1>18. ToldOnce'
  <2> SUFFICES ASSUME NEW i \in Jobs, NEW r \in RequestsOf(i)', NEW q \in RequestsOf(i)'
               PROVE  Precedes(requests'[r], requests'[q]) \/ Precedes(requests'[q], requests'[r])
    BY DEF ToldOnce, Precedes
  <2>1. CASE i # j
    BY <2>1, <1>12, <1>14, <1>15 DEF ToldOnce
  <2>2. CASE i = j /\ r # request /\ q # request
    BY <2>2, <1>1, <1>13, <1>14, <1>15 DEF ToldOnce
  <2>3. CASE i = j /\ r = request /\ q = request
    BY <2>3 DEF Precedes
  <2>4. CASE i = j /\ r = request /\ q # request
    BY <2>4, <1>6, <1>13, <1>14, <1>16
  <2>5. CASE i = j /\ r # request /\ q = request
    BY <2>5, <1>6, <1>13, <1>14, <1>16
  <2> QED
    BY <2>1, <2>2, <2>3, <2>4, <2>5
<1>19. EveryVersionIsTold'
  <2> SUFFICES ASSUME NEW i \in Jobs, jobs'[i] # None, NEW n \in 1..jobs'[i].revision
               PROVE  \E r \in RequestsOf(i)' : requests'[r].revision = n
    BY DEF EveryVersionIsTold
  <2>1. CASE i # j
    BY <2>1, <1>6, <1>12, <1>14, <1>15 DEF EveryVersionIsTold
  <2>2. CASE i = j
    <3>1. next.revision \in Nat /\ n \in 1..next.revision
      BY <2>2, <1>1, <1>6 DEF Job
    <3>2. CASE n = next.revision
      BY <2>2, <3>2, <1>6, <1>13
    <3>3. CASE n # next.revision
      <4>1. jobs[j] # None /\ jobs[j] \in Job /\ next.revision <= jobs[j].revision + 1
        BY <3>1, <3>3, <1>3 DEF Follows
      <4>2. n \in 1..jobs[j].revision
        BY <3>1, <3>3, <4>1 DEF Job
      <4>3. PICK r \in RequestsOf(j) : requests[r].revision = n
        BY <4>1, <4>2, <1>1, <1>15 DEF EveryVersionIsTold
      <4> QED
        BY <2>2, <4>3, <1>1, <1>13, <1>14
    <3> QED
      BY <3>2, <3>3
  <2> QED
    BY <2>1, <2>2
<1> QED
  BY <1>7, <1>8, <1>9, <1>11, <1>17, <1>18, <1>19 DEF IInv, OneHistory

----------------------------------------------------------------------------
(* The theorems.                                                           *)

LEMMA IdleInv ==
    ASSUME IInv, now' \in Time, UNCHANGED <<jobs, requests>>,
           \/ calls' = calls
           \/ \E p \in Processes : calls' = [calls EXCEPT ![p] = None]
    PROVE  IInv'
<1>1. TypeOK' /\ CallsFollow'
  BY DEF IInv, TypeOK, CallsFollow, CallFollows
<1>2. JobsAreNamed' /\ ProjectionFollowsReceipts' /\ OneHistory'
  BY DEF IInv, JobsAreNamed, ProjectionFollowsReceipts, OneHistory, ToldOnce,
         ToldOfStored, EveryVersionIsTold, RequestsOf
<1> QED
  BY <1>1, <1>2 DEF IInv

LEMMA NextInv == IInv /\ [Next]_vars => IInv'
<1> SUFFICES ASSUME IInv, [Next]_vars PROVE IInv'
  OBVIOUS
<1>1. now \in Time
  BY DEF IInv, TypeOK
<1>2. CASE Tick
  <2>1. now' \in Time
    BY <1>1, <1>2, JobAssumption DEF Tick, Time
  <2> QED
    BY <1>2, <2>1, IdleInv DEF Tick
<1>3. ASSUME NEW p \in Processes, Step(p) PROVE IInv'
  <2>1. CASE Fail(p)
    BY <1>1, <2>1, IdleInv DEF Fail, Return
  <2>2. CASE Insert(p)
    BY <2>2, InsertStores, StoresInv
  <2>3. CASE Replace(p)
    BY <2>3, ReplaceStores, StoresInv
  <2> QED
    BY <1>3, <2>1, <2>2, <2>3, CreateInv, ControlInv, ReceiptInv DEF Step
<1>4. CASE UNCHANGED vars
  BY <1>1, <1>4, IdleInv DEF vars
<1> QED
  BY <1>2, <1>3, <1>4 DEF Next

LEMMA Invariant == Spec => []IInv
  BY InitInv, NextInv, PTL DEF Spec

\* Jobs, answers and every command in flight keep their types.
THEOREM TypeCorrect == Spec => []TypeOK
<1>1. IInv => TypeOK
  BY DEF IInv
<1> QED
  BY <1>1, Invariant, PTL

\* The state of a job is what its contiguous receipts say, in whatever order they came
\* and whichever commands ran in between.
THEOREM ReceiptsAreFollowed == Spec => []ProjectionFollowsReceipts
<1>1. IInv => ProjectionFollowsReceipts
  BY DEF IInv
<1> QED
  BY <1>1, Invariant, PTL

\* The answers about a job are points of one history, and every version was answered.
THEOREM AnswersAreOneHistory == Spec => []OneHistory
<1>1. IInv => OneHistory
  BY DEF IInv
<1> QED
  BY <1>1, Invariant, PTL

\* No step changes the state of a job that has a result.
THEOREM ResultsAreFinal == Spec => TerminalIsFinal
<1> DEFINE Final == \A j \in Jobs : jobs[j] # None /\ jobs[j].state \in Terminal =>
                        jobs'[j] # None /\ jobs'[j].state = jobs[j].state
<1>1. IInv /\ [Next]_vars => [Final]_jobs
  <2> SUFFICES ASSUME IInv, Next, jobs' # jobs PROVE Final
    BY DEF vars
  <2>1. PICK p \in Processes : Insert(p) \/ Replace(p)
    BY DEF Next, Tick, Step, CreateRead, ControlRead, ReceiptRead, Begin, Fail
  <2>2. Stores(p)
    BY <2>1, InsertStores, ReplaceStores
  <2>3. calls[p].next \in Job /\ calls[p].next.job \in Jobs /\ calls[p].next # None
    BY <2>2, StoredIsJob, NoneAssumption DEF IInv, Stores
  <2> QED
    BY <2>2, <2>3 DEF Stores, Follows, IInv, TypeOK
<1> QED
  BY <1>1, Invariant, PTL DEF Spec, TerminalIsFinal
=============================================================================
