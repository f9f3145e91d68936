-------------------------- MODULE SessionRowLocks ---------------------------
(***************************************************************************)
(* Inside the transactions of the PostgreSQL session repository, for one   *)
(* Gateway.  Module SessionRepository takes each transaction as one step;  *)
(* here it is a sequence of statements that take row locks one by one, in  *)
(* READ COMMITTED: a statement that meets a locked row waits, and goes on  *)
(* with the row as it was committed.  Opening a session and recording a    *)
(* cursor lock the head and then a session row; a health write that closes *)
(* a session locks the session row and then the head.  The two orders can  *)
(* deadlock, and PostgreSQL then aborts one of the transactions.           *)
(*                                                                         *)
(* A transaction keeps its writes to itself until it commits.  Time is     *)
(* left out: a live row may be due, and a lease may have expired, at any   *)
(* moment.  Each transaction of an instance runs once.                     *)
(***************************************************************************)
EXTENDS Naturals, FiniteSets

CONSTANTS
    None,
    Sessions,
    Openers,        \* open and acceptAndOpen transactions
    Beaters,        \* heartbeat handlers: a read, then replace
    Completers,     \* health workers: a lease, then complete
    Recorders       \* recordDurableCursor transactions

Transactions == Openers \cup Beaters \cup Completers \cup Recorders

\* A transaction is of one kind.
RowLocksAssumption ==
    /\ None \notin Sessions \cup Transactions
    /\ Openers \cap (Beaters \cup Completers \cup Recorders) = {}
    /\ Beaters \cap (Completers \cup Recorders) = {}
    /\ Completers \cap Recorders = {}

VARIABLES
    current,    \* current_session_id of the Gateway's head, committed
    row,        \* the session rows, committed; None where there is no row
    position,   \* one durable cursor, committed
    headLock,   \* the transaction that holds the head's row lock
    rowLock,    \* the transaction that holds the lock of a session row
    pc,         \* the statement a transaction executes next
    copy        \* the session a transaction works on, the row as it read it,
                \* and the row it writes

vars == <<current, row, position, headLock, rowLock, pc, copy>>

Row == [state : {"active", "suspect", "closed"}, revision : Nat,
        lease : Completers \cup {None}]
Copy == [id : Sessions \cup {None}, read : Row \cup {None}, write : Row \cup {None}]

NoneIsNoRecord == None \notin Row

Ends == {"committed", "rejected", "threw", "aborted"}
Statements == {"start", "lock-head", "fence", "insert", "lock-row", "update-row",
               "clear-head", "commit"}

TypeOK ==
    /\ current \in Sessions \cup {None}
    /\ row \in [Sessions -> Row \cup {None}]
    /\ position \in Nat
    /\ headLock \in Transactions \cup {None}
    /\ rowLock \in [Sessions -> Transactions \cup {None}]
    /\ pc \in [Transactions -> Statements \cup Ends]
    /\ copy \in [Transactions -> Copy]

NoCopy == [id |-> None, read |-> None, write |-> None]

Init ==
    /\ current = None
    /\ row = [s \in Sessions |-> None]
    /\ position = 0
    /\ headLock = None
    /\ rowLock = [s \in Sessions |-> None]
    /\ pc = [t \in Transactions |-> "start"]
    /\ copy = [t \in Transactions |-> NoCopy]

Exists(s) == row[s] # None
Live(s) == IF Exists(s) THEN row[s].state # "closed" ELSE FALSE

Goto(t, statement) == pc' = [pc EXCEPT ![t] = statement]

\* ROLLBACK, and COMMIT after the writes, give back every lock.
Release(t) ==
    /\ headLock' = IF headLock = t THEN None ELSE headLock
    /\ rowLock' = [s \in Sessions |-> IF rowLock[s] = t THEN None ELSE rowLock[s]]

Rollback(t, end) ==
    /\ Release(t)
    /\ Goto(t, end)
    /\ UNCHANGED <<current, row, position, copy>>

----------------------------------------------------------------------------
(* open and acceptAndOpen: head, current session row, new row, head.       *)

\* lockGatewayHead: SELECT ... FOR UPDATE.
OpenLockHead(t) ==
    /\ pc[t] = "start"
    /\ headLock = None
    /\ headLock' = t
    /\ Goto(t, "fence")
    /\ UNCHANGED <<current, row, position, rowLock, copy>>

\* fenceCurrent: the UPDATE waits for the row and takes it as committed; the
\* code throws when the row is closed already.
OpenFence(t) ==
    /\ pc[t] = "fence"
    /\ current # None
    /\ rowLock[current] = None
    /\ IF row[current].state = "closed"
       THEN Rollback(t, "threw")
       ELSE /\ rowLock' = [rowLock EXCEPT ![current] = t]
            /\ copy' = [copy EXCEPT ![t] =
                          [id |-> current, read |-> row[current],
                           write |-> [row[current] EXCEPT !.state = "closed",
                                                          !.revision = @ + 1]]]
            /\ Goto(t, "insert")
            /\ UNCHANGED <<current, row, position, headLock>>

OpenWithoutCurrent(t) ==
    /\ pc[t] = "fence"
    /\ current = None
    /\ Goto(t, "insert")
    /\ UNCHANGED <<current, row, position, headLock, rowLock, copy>>

\* The partial unique index refuses a second unclosed row of the Gateway.
ViolatesOneCurrent(t) == \E s \in Sessions : Live(s) /\ s # copy[t].id

\* The insert, the update of the head and COMMIT.
OpenCommit(t) ==
    /\ pc[t] = "insert"
    /\ IF ViolatesOneCurrent(t)
       THEN Rollback(t, "threw")
       ELSE /\ \E s \in Sessions :
                 /\ ~Exists(s)
                 /\ row' = [x \in Sessions |->
                      IF x = s THEN [state |-> "active", revision |-> 3, lease |-> None]
                      ELSE IF x = copy[t].id THEN copy[t].write
                      ELSE row[x]]
                 /\ current' = s
            /\ Release(t)
            /\ Goto(t, "committed")
            /\ UNCHANGED <<position, copy>>

----------------------------------------------------------------------------
(* Heartbeats: findById in one transaction, replace in another.            *)

BeatRead(t, s) ==
    /\ pc[t] = "start"
    /\ Live(s)
    /\ copy' = [copy EXCEPT ![t] =
                  [id |-> s, read |-> row[s],
                   write |-> [state |-> "active", revision |-> row[s].revision + 1,
                              lease |-> None]]]
    /\ Goto(t, "update-row")
    /\ UNCHANGED <<current, row, position, headLock, rowLock>>

\* A deviation: the UPDATE is not guarded by the revision.
BeatUpdateUnchecked(t) ==
    /\ pc[t] = "update-row"
    /\ rowLock[copy[t].id] = None
    /\ rowLock' = [rowLock EXCEPT ![copy[t].id] = t]
    /\ Goto(t, "commit")
    /\ UNCHANGED <<current, row, position, headLock, copy>>

\* replaceSessionSql: no row is locked when the revision has moved on.
BeatUpdate(t) ==
    /\ pc[t] = "update-row"
    /\ rowLock[copy[t].id] = None
    /\ row[copy[t].id].revision = copy[t].read.revision
    /\ rowLock' = [rowLock EXCEPT ![copy[t].id] = t]
    /\ Goto(t, "commit")
    /\ UNCHANGED <<current, row, position, headLock, copy>>

BeatConflict(t) ==
    /\ pc[t] = "update-row"
    /\ rowLock[copy[t].id] = None
    /\ row[copy[t].id].revision # copy[t].read.revision
    /\ Rollback(t, "rejected")

BeatCommit(t) ==
    /\ pc[t] = "commit"
    /\ row' = [row EXCEPT ![copy[t].id] = copy[t].write]
    /\ Release(t)
    /\ Goto(t, "committed")
    /\ UNCHANGED <<current, position, copy>>

----------------------------------------------------------------------------
(* Health: leaseDue, then complete.                                        *)

NextState(s) == IF row[s].state = "active" THEN "suspect" ELSE "closed"

\* FOR UPDATE SKIP LOCKED and the lease UPDATE are one short transaction that
\* never waits.
Lease(t, s) ==
    /\ pc[t] = "start"
    /\ Live(s)
    /\ rowLock[s] = None
    /\ row' = [row EXCEPT ![s].lease = t]
    /\ copy' = [copy EXCEPT ![t] =
                  [id |-> s, read |-> row'[s],
                   write |-> [state |-> NextState(s), revision |-> row[s].revision + 1,
                              lease |-> None]]]
    /\ Goto(t, "update-row")
    /\ UNCHANGED <<current, position, headLock, rowLock>>

StillLeased(t) ==
    /\ row[copy[t].id].revision = copy[t].read.revision
    /\ row[copy[t].id].lease = t

\* completeHealthSql, then the audit and outbox inserts, which lock nothing
\* that others use.
CompleteUpdate(t) ==
    /\ pc[t] = "update-row"
    /\ rowLock[copy[t].id] = None
    /\ StillLeased(t)
    /\ rowLock' = [rowLock EXCEPT ![copy[t].id] = t]
    /\ Goto(t, IF copy[t].write.state = "closed" THEN "clear-head" ELSE "commit")
    /\ UNCHANGED <<current, row, position, headLock, copy>>

CompleteLeaseLost(t) ==
    /\ pc[t] = "update-row"
    /\ rowLock[copy[t].id] = None
    /\ ~StillLeased(t)
    /\ Rollback(t, "rejected")

\* clearClosedHeadSql: an UPDATE of the head if it names the session.
CompleteClearHead(t) ==
    /\ pc[t] = "clear-head"
    /\ IF current = copy[t].id
       THEN headLock = None /\ headLock' = t
       ELSE UNCHANGED headLock
    /\ Goto(t, "commit")
    /\ UNCHANGED <<current, row, position, rowLock, copy>>

\* A deviation: the head is locked but not written.
CompleteCommitKeepsHead(t) ==
    /\ pc[t] = "commit"
    /\ row' = [row EXCEPT ![copy[t].id] = copy[t].write]
    /\ Release(t)
    /\ Goto(t, "committed")
    /\ UNCHANGED <<current, position, copy>>

CompleteCommit(t) ==
    /\ pc[t] = "commit"
    /\ row' = [row EXCEPT ![copy[t].id] = copy[t].write]
    /\ current' = IF headLock = t THEN None ELSE current
    /\ Release(t)
    /\ Goto(t, "committed")
    /\ UNCHANGED <<position, copy>>

----------------------------------------------------------------------------
(* recordDurableCursor: head, session row, cursor row.                     *)

RecordLockHead(t, s) ==
    /\ pc[t] = "start"
    /\ headLock = None
    /\ headLock' = t
    /\ copy' = [copy EXCEPT ![t] = [NoCopy EXCEPT !.id = s]]
    /\ Goto(t, "lock-row")
    /\ UNCHANGED <<current, row, position, rowLock>>

\* lockSessionSql: the row is read after the wait.
RecordLockRow(t) ==
    /\ pc[t] = "lock-row"
    /\ Exists(copy[t].id)
    /\ rowLock[copy[t].id] = None
    /\ rowLock' = [rowLock EXCEPT ![copy[t].id] = t]
    /\ copy' = [copy EXCEPT ![t].read = row[copy[t].id]]
    /\ Goto(t, "commit")
    /\ UNCHANGED <<current, row, position, headLock>>

RecordNotFound(t) ==
    /\ pc[t] = "lock-row"
    /\ ~Exists(copy[t].id)
    /\ Rollback(t, "rejected")

RecordStale(t) ==
    /\ pc[t] = "commit"
    /\ copy[t].read.state # "active"
    /\ Rollback(t, "rejected")

RecordCommit(t) ==
    /\ pc[t] = "commit"
    /\ copy[t].read.state = "active"
    /\ position' = position + 1
    /\ Release(t)
    /\ Goto(t, "committed")
    /\ UNCHANGED <<current, row, copy>>

----------------------------------------------------------------------------
(* Deadlock detection.                                                     *)

\* The transaction whose lock t is waiting for, if t is waiting.
Blocker(t) ==
    CASE pc[t] = "start" /\ t \in Openers \cup Recorders -> headLock
      [] pc[t] = "fence" /\ current # None              -> rowLock[current]
      [] pc[t] \in {"lock-row", "update-row"}            -> rowLock[copy[t].id]
      [] pc[t] = "clear-head" /\ current = copy[t].id    -> headLock
      [] OTHER                                           -> None

\* A deviation: the transactions wait for ever.
undetected(t) == FALSE

\* No transaction waits while it holds more than one lock, so that a cycle of
\* waiting transactions has two members.
Deadlocked(t) ==
    \E u \in Transactions : Blocker(t) = u /\ Blocker(u) = t

\* deadlock_detected: the victim's transaction is rolled back and its caller
\* gets an error (health: storage-unavailable).
AbortVictim(t) ==
    /\ Deadlocked(t)
    /\ Rollback(t, "aborted")

----------------------------------------------------------------------------
OpenStep(t) ==
    \/ OpenLockHead(t) \/ OpenFence(t) \/ OpenWithoutCurrent(t) \/ OpenCommit(t)
BeatStep(t) ==
    \/ \E s \in Sessions : BeatRead(t, s)
    \/ BeatUpdate(t) \/ BeatConflict(t) \/ BeatCommit(t)
CompleteStep(t) ==
    \/ \E s \in Sessions : Lease(t, s)
    \/ CompleteUpdate(t) \/ CompleteLeaseLost(t)
    \/ CompleteClearHead(t) \/ CompleteCommit(t)
RecordStep(t) ==
    \/ \E s \in Sessions : RecordLockHead(t, s)
    \/ RecordLockRow(t) \/ RecordNotFound(t) \/ RecordStale(t) \/ RecordCommit(t)

Step(t) ==
    \/ t \in Openers /\ OpenStep(t)
    \/ t \in Beaters /\ BeatStep(t)
    \/ t \in Completers /\ CompleteStep(t)
    \/ t \in Recorders /\ RecordStep(t)
    \/ AbortVictim(t)

\* A transaction has taken its first step: what has not started may never start.
InFlight(t) == pc[t] \notin Ends \cup {"start"}

Next == \E t \in Transactions : Step(t)

\* PostgreSQL runs every statement it has been given, and grants a free lock.
Fairness == \A t \in Transactions : WF_vars(InFlight(t) /\ Step(t))

Spec == Init /\ [][Next]_vars /\ Fairness

----------------------------------------------------------------------------
OneLive == {s \in Sessions : Live(s)} = {current} \ {None}
NothingThrown == \A t \in Transactions : pc[t] # "threw"

\* Whatever the interleaving of statements, the committed head names the only
\* committed live row: no half of a fence, an insert or a close is ever seen.  And
\* the two errors that the code throws for "impossible" states do not happen: a
\* session is never closed under an opener that holds the head, and the unique
\* index never has to refuse the new row.
CommittedOneLive == OneLive /\ NothingThrown

RowFollows(s) ==
    /\ row'[s].revision \in {row[s].revision, row[s].revision + 1}
    /\ row'[s].revision = row[s].revision => row'[s].state = row[s].state
    /\ row[s].state = "closed" => row'[s] = row[s]
PositionUnderCurrent == current # None /\ row[current].state = "active"
WritesFollow ==
    /\ \A s \in Sessions : Exists(s) => RowFollows(s)
    /\ position' # position => PositionUnderCurrent

\* Every committed write of a row is based on the row it replaces: a revision goes
\* up by one or stays (a lease), and a closed row is final.  A position is
\* committed only while the session it was recorded under is the Gateway's current
\* one: the recorder's lock on the head keeps openers out, its lock on the row
\* keeps health and heartbeat writes out.
NoLostUpdate == [][WritesFollow]_vars

\* Every transaction that took its first lock ends, by itself or as the
\* victim of a deadlock: none is under way for ever.
EveryTransactionEnds == <>[](\A t \in Transactions : ~InFlight(t))
=============================================================================
