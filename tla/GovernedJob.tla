------------------------------ MODULE GovernedJob ------------------------------
(***************************************************************************)
(* Governed jobs: CreateGovernedJob, ConfirmGovernedJob,                   *)
(* ControlGovernedJob and IngestGovernedJobReceipt over the store of jobs  *)
(* and of answered requests.  A command reads a job, awaits, and writes    *)
(* what it made of the copy; other commands come in between.  An audit     *)
(* record and an outbox event are written with every remembered request.   *)
(***************************************************************************)
EXTENDS Integers, FiniteSets

CONSTANTS
    None,
    Processes,
    Jobs,
    Requests,
    Creations,      \* [request, job, explicit, expires]
    Orders,         \* [request, job, action]
    Messages,       \* [request, job, receipt]
    MaxSequence,
    MaxTime

Time == 0..MaxTime

\* What an order leads to, and from where.  An order that is already carried out
\* changes nothing and succeeds.
Target == [confirm |-> "authorized", queue |-> "queued", offer |-> "offered",
           expire |-> "expired", unknown |-> "unknown", cancel |-> "cancel-requested"]
Sources == [confirm |-> {"awaiting-confirmation"},
            queue |-> {"authorized"},
            offer |-> {"queued"},
            expire |-> {"awaiting-confirmation", "authorized", "queued", "offered"},
            unknown |-> {"offered", "accepted", "running", "cancel-requested"},
            cancel |-> {"queued", "offered", "accepted", "running", "unknown"}]
Actions == DOMAIN Target

Terminal == {"canceled", "expired", "failed", "partial", "rejected", "succeeded"}
Kinds == Terminal \cup {"accepted", "running"}
Unoffered == {"awaiting-confirmation", "authorized", "queued"}
States == Unoffered \cup Kinds \cup {"offered", "unknown", "cancel-requested"}

Receipt == {m.receipt : m \in Messages}

\* evidence: whether the receipt has a digest of it.
IsReceipt(r) == r.sequence \in 1..MaxSequence /\ r.kind \in Kinds /\ r.evidence \in BOOLEAN

ASSUME JobAssumption ==
    /\ MaxTime \in Nat /\ MaxSequence \in Nat
    /\ \A k \in Creations : k.request \in Requests /\ k.job \in Jobs
                            /\ k.explicit \in BOOLEAN /\ k.expires \in Nat
    /\ \A k \in Orders : k.request \in Requests /\ k.job \in Jobs /\ k.action \in Actions
    /\ \A m \in Messages : m.request \in Requests /\ m.job \in Jobs /\ IsReceipt(m.receipt)

\* marks: confirmedAt, queuedAt, offeredAt, unknownAt, cancelRequestedAt.
Job == [job : Jobs, explicit : BOOLEAN, expires : Nat, state : States,
        marks : SUBSET (Actions \ {"expire"}), receipts : SUBSET Receipt,
        last : 0..MaxSequence, revision : Nat \ {0}]

ASSUME NoneAssumption == None \notin Job

VARIABLES
    now,
    jobs,
    requests,       \* the job as the answer to a request showed it
    calls           \* the copy a command has read, and what it will write

vars == <<now, jobs, requests, calls>>

Call == [request : Requests, current : Job \cup {None}, next : Job]

TypeOK ==
    /\ now \in Time
    /\ jobs \in [Jobs -> Job \cup {None}]
    /\ requests \in [Requests -> Job \cup {None}]
    /\ calls \in [Processes -> Call \cup {None}]

Init ==
    /\ now = 0
    /\ jobs = [j \in Jobs |-> None]
    /\ requests = [r \in Requests |-> None]
    /\ calls = [p \in Processes |-> None]

----------------------------------------------------------------------------
(* Transitions.                                                            *)

createGovernedJob(k) ==
    [job |-> k.job, explicit |-> k.explicit, expires |-> k.expires,
     state |-> IF k.explicit THEN "awaiting-confirmation" ELSE "authorized",
     marks |-> {}, receipts |-> {}, last |-> 0, revision |-> 1]

InTime(job, action, at) ==
    /\ action \in {"confirm", "offer"} => at < job.expires
    /\ action = "expire" => at >= job.expires

IsAllowed(job, action, at) ==
    \/ job.state = Target[action]
    \/ job.state \in Sources[action] /\ InTime(job, action, at)

Controlled(job, action) ==
    IF job.state = Target[action] THEN job
    ELSE [job EXCEPT !.state = Target[action], !.revision = @ + 1,
                     !.marks = @ \cup ({action} \ {"expire"})]

receiptTransitionIsAllowed(state, kind) ==
    \/ state = "offered" /\ kind # "running"
    \/ state = "accepted" /\ kind # "accepted"
    \/ state = "running" /\ kind \in Terminal
    \/ state \in {"unknown", "cancel-requested"}

Sequences(receipts) == {r.sequence : r \in receipts}
KindAt(receipts, n) == (CHOOSE r \in receipts : r.sequence = n).kind

\* A deviation: only the receipt that closes the gap is applied.
endOfOne(last, receipts) == IF last + 1 \in Sequences(receipts) THEN last + 1 ELSE last

\* The last of the receipts that follow on one another.
contiguousEnd(last, receipts) ==
    CHOOSE n \in last..MaxSequence : /\ (last + 1)..n \subseteq Sequences(receipts)
                                     /\ n + 1 \notin Sequences(receipts)

\* advanceContiguousReceipts: one that is not allowed refuses them all.
StateBefore(job, receipts, n) ==
    IF n = job.last + 1 THEN job.state ELSE KindAt(receipts, n - 1)
AreAllowed(job, receipts) ==
    \A n \in (job.last + 1)..contiguousEnd(job.last, receipts) :
       receiptTransitionIsAllowed(StateBefore(job, receipts, n), KindAt(receipts, n))

isNew(job, r) == \A q \in job.receipts : q.id # r.id /\ q.sequence # r.sequence
isEvidenced(r) == r.kind \in {"succeeded", "failed", "partial"} => r.evidence
isPending(job, r) == r.sequence > job.last + 1

IsRecordable(job, r) ==
    /\ isNew(job, r)
    /\ isEvidenced(r)
    /\ job.state \notin Unoffered
    /\ ~isPending(job, r) => AreAllowed(job, job.receipts \cup {r})

\* recordGovernedJobReceipt: kept for later, or applied with what follows it.
Recorded(job, r) ==
    LET receipts == job.receipts \cup {r}
        end == IF isPending(job, r) THEN job.last ELSE contiguousEnd(job.last, receipts)
    IN [job EXCEPT !.receipts = receipts, !.last = end, !.revision = @ + 1,
                   !.state = IF end = job.last THEN @ ELSE KindAt(receipts, end)]

----------------------------------------------------------------------------
(* Commands.                                                               *)

Tick == now < MaxTime /\ now' = now + 1 /\ UNCHANGED <<jobs, requests, calls>>

Begin(p, request, current, next) ==
    /\ calls[p] = None
    /\ calls' = [calls EXCEPT ![p] = [request |-> request, current |-> current, next |-> next]]
    /\ UNCHANGED <<now, jobs, requests>>

\* CreateGovernedJob, up to the insertion; the capability is looked up before it.
CreateRead(p, k) ==
    /\ k.expires > now
    /\ Begin(p, k.request, None, createGovernedJob(k))

\* ConfirmGovernedJob and ControlGovernedJob, up to the replacement.
ControlRead(p, k) ==
    /\ jobs[k.job] # None
    /\ IsAllowed(jobs[k.job], k.action, now)
    /\ Begin(p, k.request, jobs[k.job], Controlled(jobs[k.job], k.action))

\* IngestGovernedJobReceipt, up to the replacement; a receipt that is known returns.
ReceiptRead(p, m) ==
    /\ jobs[m.job] # None
    /\ IsRecordable(jobs[m.job], m.receipt)
    /\ Begin(p, m.request, jobs[m.job], Recorded(jobs[m.job], m.receipt))

Return(p) == calls' = [calls EXCEPT ![p] = None]

Remember(call) == requests' = [requests EXCEPT ![call.request] = call.next]

Insert(p) ==
    LET call == calls[p] IN
    /\ call # None
    /\ call.current = None
    /\ requests[call.request] = None
    /\ jobs[call.next.job] = None
    /\ jobs' = [jobs EXCEPT ![call.next.job] = call.next]
    /\ Remember(call)
    /\ Return(p)
    /\ UNCHANGED now

\* A deviation: a write that only adds receipts is not checked.
isRevisionOrReceipt(call) ==
    \/ jobs[call.next.job].revision = call.current.revision
    \/ call.next.last = call.current.last /\ call.next.receipts # call.current.receipts
isExpectedRevision(call) == jobs[call.next.job].revision = call.current.revision

\* A request that is known, or a job that has moved on, changes nothing.
Replace(p) ==
    LET call == calls[p] IN
    /\ call # None
    /\ call.current # None
    /\ requests[call.request] = None
    /\ jobs[call.next.job] # None
    /\ isExpectedRevision(call)
    /\ jobs' = [jobs EXCEPT ![call.next.job] = call.next]
    /\ Remember(call)
    /\ Return(p)
    /\ UNCHANGED now

\* A refusal of the store, a failure of it, a process that stops.
Fail(p) ==
    /\ calls[p] # None
    /\ Return(p)
    /\ UNCHANGED <<now, jobs, requests>>

Step(p) ==
    \/ \E k \in Creations : CreateRead(p, k)
    \/ \E k \in Orders : ControlRead(p, k)
    \/ \E m \in Messages : ReceiptRead(p, m)
    \/ Insert(p) \/ Replace(p) \/ Fail(p)

Next == Tick \/ \E p \in Processes : Step(p)

Spec == Init /\ [][Next]_vars

----------------------------------------------------------------------------
\* The projection of a job is what its receipts say, in their order, whatever the
\* order they came in: the contiguous ones are applied, all of them, and the last
\* of these is the state, unless the cloud has since lost sight of the job or
\* asked to cancel it.  Without one, the state is the cloud's own.
FollowsReceipts(job) ==
    /\ \A r, q \in job.receipts : r # q => r.id # q.id /\ r.sequence # q.sequence
    /\ 1..job.last \subseteq Sequences(job.receipts)
    /\ job.last + 1 \notin Sequences(job.receipts)
    /\ job.last > 0 =>
         job.state \in {KindAt(job.receipts, job.last), "unknown", "cancel-requested"}
    /\ job.last = 0 => job.state \notin Kinds \ {"expired"}
ProjectionFollowsReceipts == \A j \in Jobs : jobs[j] # None => FollowsReceipts(jobs[j])

\* What callers were told about a job are points of one history: no answer shows a
\* version that was never stored, no version is written twice, and what a version
\* holds (receipts, confirmations, cancellations) is in every later one.  Every
\* version has a request that is answerable for it.
Precedes(a, b) ==
    \/ a = b
    \/ /\ a.revision < b.revision /\ a.last <= b.last
       /\ a.receipts \subseteq b.receipts /\ a.marks \subseteq b.marks
RequestsOf(j) == {r \in Requests : requests[r] # None /\ requests[r].job = j}
ToldOnce ==
    \A j \in Jobs : \A r, q \in RequestsOf(j) :
       Precedes(requests[r], requests[q]) \/ Precedes(requests[q], requests[r])
ToldOfStored ==
    \A j \in Jobs : \A r \in RequestsOf(j) : jobs[j] # None /\ Precedes(requests[r], jobs[j])
EveryVersionIsTold ==
    \A j \in Jobs : jobs[j] # None =>
       \A n \in 1..jobs[j].revision : \E r \in RequestsOf(j) : requests[r].revision = n
OneHistory == ToldOnce /\ ToldOfStored /\ EveryVersionIsTold

\* A result is final: neither a late order nor a late receipt changes it.
TerminalIsFinal ==
    [][\A j \in Jobs : jobs[j] # None /\ jobs[j].state \in Terminal =>
          jobs'[j] # None /\ jobs'[j].state = jobs[j].state]_jobs
=============================================================================
