---------------------------- MODULE SessionPlane ----------------------------
(***************************************************************************)
(* The CloudLink session plane: the session repository with all its        *)
(* writers and the signed handshake, running side by side on one database. *)
(* This module states what the plane promises; module SessionPlaneProofs   *)
(* proves part of it for every value of the constants.                     *)
(***************************************************************************)
EXTENDS SessionChallenge

vars == <<repositoryVars, challengeVars>>

Init == RepositoryInit /\ ChallengeInit

Next ==
    \/ RepositoryNext /\ UNCHANGED challengeVars
    \/ ChallengeNext

Spec == Init /\ [][Next]_vars

----------------------------------------------------------------------------
(* Types.                                                                  *)

Instant == Nat
Cursors == [Streams -> Nat]

\* A stored session: rows are only ever written active, suspect or closed.
SessionRow ==
    [ gateway                : Gateways,
      generation             : Generations,
      epoch                  : Nat,
      signed                 : BOOLEAN,
      state                  : {"active", "suspect", "closed"},
      openedAt               : Instant,
      activatedAt            : Instant,
      resumeCursors          : Cursors,
      lastHeartbeatAt        : Instant \cup {None},
      lastHeartbeatRequestId : Requests \cup {None},
      suspectAt              : Instant \cup {None},
      closedAt               : Instant \cup {None},
      closeReason            : CloseReasons \cup {None},
      revision               : Nat ]

HeadRow == [lastEpoch : Nat, current : Sessions \cup {None}]
LeaseRow == [leaseId : Sweepers, expiresAt : Instant]
PendingHeartbeat == [id : Sessions, expectedRevision : Nat, row : SessionRow]
Sweep == [evaluatedAt : Instant, rows : [Sessions -> SessionRow \cup {None}]]
HealthEvent ==
    [ session  : Sessions,
      revision : Nat,
      event    : {"cloudlink.session.heartbeat-timed-out.v1",
                  "cloudlink.session.suspected.v1"} ]
RateRow == [startedAt : Instant \cup {None}, count : Nat]
ChallengeRow ==
    [ gateway      : Gateways,
      generation   : Generations,
      request      : HelloStates,
      issuedAt     : Instant,
      expiresAt    : Instant,
      fingerprint  : Fingerprints \cup {None},
      session      : Sessions \cup {None},
      consumedAt   : Instant \cup {None},
      supersededAt : Instant \cup {None} ]
PendingHello ==
    [ challenge   : Challenges,
      generation  : Generations,
      fingerprint : Fingerprints,
      evaluatedAt : Instant ]

\* The type invariant: every table row and every in-flight command has the
\* shape the decoders of the repository accept.
TypeOK ==
    /\ now \in Instant
    /\ head \in [Gateways -> HeadRow]
    /\ session \in [Sessions -> SessionRow \cup {None}]
    /\ lease \in [Sessions -> LeaseRow \cup {None}]
    /\ openRequests \in [Gateways -> [Requests -> Sessions \cup {None}]]
    /\ cursor \in [Gateways -> Cursors]
    /\ outbox \subseteq HealthEvent
    /\ heartbeats \in [Handlers -> PendingHeartbeat \cup {None}]
    /\ sweeps \in [Sweepers -> Sweep \cup {None}]
    /\ rate \in [Gateways -> RateRow]
    /\ challenge \in [Challenges -> ChallengeRow \cup {None}]
    /\ hellos \in [Acceptors -> PendingHello \cup {None}]

\* An absent row is not a row.
ASSUME NoneIsNoRow ==
    /\ None \notin SessionRow
    /\ None \notin ChallengeRow

----------------------------------------------------------------------------
(* Who owns a Gateway's connection.                                        *)

Exists(s) == session[s] # None
Live(s) == Exists(s) /\ session[s].state # "closed"
LiveSessions(g) == {s \in Sessions : Live(s) /\ session[s].gateway = g}

\* The head of a Gateway names the Gateway's only unclosed session, and names
\* none exactly when every session of the Gateway is closed: whichever of
\* open, handshake, heartbeat and timeout wrote last, at most one connection
\* is current and the head never points at a dead one.
OneLiveSession ==
    \A g \in Gateways :
        LiveSessions(g) = {head[g].current} \ {None}

\* Epochs fence: no two sessions of a Gateway share one, none is above the
\* head's counter, and the current session carries the highest.
EpochFencing ==
    /\ \A s \in Sessions :
         Exists(s) => session[s].epoch \in 1..head[session[s].gateway].lastEpoch
    /\ \A s, t \in Sessions :
         /\ Exists(s) /\ Exists(t) /\ s # t
         /\ session[s].gateway = session[t].gateway
         => session[s].epoch # session[t].epoch
    /\ \A s \in Sessions :
         Live(s) => session[s].epoch = head[session[s].gateway].lastEpoch

\* A closed session stays exactly as it was closed.  A heartbeat or a health
\* write that started from an older copy of the row must not bring it back.
ClosedIsFinal ==
    [][\A s \in Sessions :
         Exists(s) /\ session[s].state = "closed" => session'[s] = session[s]]_vars

\* No writer loses another writer's heartbeat: what a session has last heard
\* never moves back, whichever stale copy is written over it.
HeartbeatsAreKept ==
    [][\A s \in Sessions :
         Exists(s) => Heard(session'[s]) >= Heard(session[s])]_vars

\* A session is suspect, or closed for silence, only after more than three
\* heartbeat intervals without a heartbeat, and the close comes more than
\* three intervals after the suspicion.
TimedOut(row) == row.closeReason = "heartbeat-timeout"
SilentLongEnough(row) ==
    /\ row.state = "suspect" \/ TimedOut(row) => row.suspectAt > Heard(row) + Grace
    /\ TimedOut(row) => row.closedAt > row.suspectAt + Grace
SilenceBeforeTimeout == \A s \in Sessions : Exists(s) => SilentLongEnough(session[s])

\* The outbox tells the truth about how a session ended: a timeout event is
\* there exactly for the sessions that closed for silence, once, and never for
\* one that a reconnect fenced.
TimeoutEvents(s) ==
    {e \in outbox : /\ e.session = s
                    /\ e.event = "cloudlink.session.heartbeat-timed-out.v1"}
OutboxTruthful ==
    \A s \in Sessions :
        {e.revision : e \in TimeoutEvents(s)} =
            IF Exists(s) /\ TimedOut(session[s]) THEN {session[s].revision} ELSE {}

\* Why stale copies are harmless: the revision tells them apart.  A heartbeat
\* or a sweep may hold a row as it was long ago, but a copy whose revision is
\* still the stored one is a copy of the row as it is: the session is
\* unclosed, its heartbeat is not older than the last one it heard, and a
\* sweep's row is overdue still.  A hello names a challenge that exists.
CurrentBeat(beat, row) ==
    /\ row # None
    /\ beat.expectedRevision <= row.revision
    /\ beat.expectedRevision = row.revision =>
         /\ row.state # "closed"
         /\ beat.row.lastHeartbeatAt # None
         /\ beat.row.lastHeartbeatAt >= Heard(row)
         /\ beat.row = observeCloudLinkHeartbeat(row,
               beat.row.lastHeartbeatRequestId, beat.row.lastHeartbeatAt)
CurrentCopy(copy, evaluatedAt, row) ==
    /\ row # None
    /\ copy.revision <= row.revision
    /\ copy.revision = row.revision =>
         /\ copy = row
         /\ row.state # "closed"
         /\ evaluatedAt > Baseline(row) + Grace
HeartbeatCopies ==
    \A h \in Handlers :
        heartbeats[h] # None =>
            CurrentBeat(heartbeats[h], session[heartbeats[h].id])
SweepCopies ==
    \A w \in Sweepers, s \in Sessions :
        sweeps[w] # None /\ sweeps[w].rows[s] # None =>
            CurrentCopy(sweeps[w].rows[s], sweeps[w].evaluatedAt, session[s])
HelloCopies ==
    \A a \in Acceptors :
        hellos[a] # None => challenge[hellos[a].challenge] # None
CopiesAreCurrent == HeartbeatCopies /\ SweepCopies /\ HelloCopies

\* Evidence of a health transition is written under a lease that is valid at
\* that moment.
EvidenceUnderValidLease ==
    [][\A e \in outbox' \ outbox : lease[e.session].expiresAt > now]_vars

----------------------------------------------------------------------------
(* Stream positions across reconnects.                                     *)

\* A later connection never resumes from an earlier position than the one
\* before it, and never from a position the store has not reached.
ResumeMonotone ==
    \A s \in Sessions : Exists(s) =>
        \A st \in Streams :
          /\ session[s].resumeCursors[st] <= cursor[session[s].gateway][st]
          /\ \A t \in Sessions :
               /\ Exists(t)
               /\ session[t].gateway = session[s].gateway
               /\ session[t].epoch < session[s].epoch
               => session[t].resumeCursors[st] <= session[s].resumeCursors[st]

----------------------------------------------------------------------------
(* Refinement.                                                             *)

\* The owner is read off the session rows, not off the head: the mapping is
\* right only if fencing, inserting and closing keep the two together.
Authority == INSTANCE SessionAuthority WITH
                owners   <- [g \in Gateways |-> LiveSessions(g)],
                epoch    <- [g \in Gateways |-> head[g].lastEpoch],
                granted  <- {s \in Sessions : Exists(s)},
                position <- cursor

\* Every step of the plane is a grant, a release, an advance or invisible:
\* the repository implements the abstract single-owner authority.
ImplementsAuthority == Authority!Spec

----------------------------------------------------------------------------
(* The handshake.                                                          *)

OpenedBy(s) == {c \in Challenges : challenge[c] # None /\ challenge[c].session = s}

OnePendingChallenge ==
    \A g \in Gateways : \A c, d \in Pending(g) : c = d

\* A signed session was opened by exactly one challenge, of its own Gateway
\* and credential generation, while that challenge was valid; a challenge that
\* names a session is consumed, not superseded.  Concurrent hellos for one
\* challenge cannot open two sessions, and an old challenge is superseded before
\* a new one is issued, so at most one can still open a session.
ChallengeOpensOnce ==
    /\ OnePendingChallenge
    /\ \A s \in Sessions :
         /\ Exists(s) /\ session[s].signed <=> OpenedBy(s) # {}
         /\ \A c, d \in OpenedBy(s) : c = d
         /\ \A c \in OpenedBy(s) :
              LET row == challenge[c]
              IN  /\ row.gateway = session[s].gateway
                  /\ row.generation = session[s].generation
                  /\ row.supersededAt = None
                  /\ row.fingerprint # None
                  /\ row.consumedAt \in row.issuedAt..(row.expiresAt - 1)
                  /\ row.consumedAt <= session[s].openedAt
=============================================================================
