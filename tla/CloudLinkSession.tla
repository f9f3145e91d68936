-------------------------- MODULE CloudLinkSession --------------------------
(***************************************************************************)
(* The CloudLink session as the domain layer sees it: one immutable record *)
(* per connection of a Gateway, and the transitions that build a new       *)
(* record from an old one.  Where a caller can meet the failure of a       *)
(* transition its guard stands beside it (Can...); the others cannot fail  *)
(* where they are called.  Nothing here is stateful: the repository        *)
(* modules keep the records and decide which transition is written back.   *)
(* No code path drains a session, so the state "draining" and the reason   *)
(* "drained" never occur.                                                  *)
(*                                                                         *)
(* The protocol version is negotiated before a record exists and never     *)
(* changes afterwards; it is left out.  "signed" stands for the two        *)
(* optional fields gatewayKeyId and heartbeatIntervalMs, which are present *)
(* together or absent together; every signed session of an instance has    *)
(* the same heartbeat interval.                                            *)
(***************************************************************************)
EXTENDS Integers

CONSTANTS
    None,       \* an absent optional field
    Interval,   \* heartbeatIntervalMs of a Gateway-signed session
    Grace       \* the silence that is tolerated: 3 * Interval in the code

\* The code multiplies by three wherever Grace stands.  Nothing depends on the
\* factor, so an instance may count with a smaller one.
ASSUME IntervalAssumption == Interval \in Nat \ {0} /\ Grace \in Nat /\ Grace >= Interval

CloseReasons == {"fenced", "heartbeat-timeout"}

ASSUME NoneAssumption == None \notin Int /\ None \notin CloseReasons

----------------------------------------------------------------------------
(* Opening: negotiating -> resuming -> active.                             *)

createCloudLinkSession(gateway, generation, epoch, openedAt, signed) ==
    [ gateway                |-> gateway,
      generation             |-> generation,
      epoch                  |-> epoch,
      signed                 |-> signed,
      state                  |-> "negotiating",
      openedAt               |-> openedAt,
      activatedAt            |-> None,
      resumeCursors          |-> None,
      lastHeartbeatAt        |-> None,
      lastHeartbeatRequestId |-> None,
      suspectAt              |-> None,
      closedAt               |-> None,
      closeReason            |-> None,
      revision               |-> 1 ]

negotiateCloudLinkSession(s) ==
    [s EXCEPT !.state = "resuming", !.revision = @ + 1]

activateCloudLinkSession(s, activatedAt, cursors) ==
    [s EXCEPT !.state = "active",
              !.activatedAt = activatedAt,
              !.resumeCursors = cursors,
              !.revision = @ + 1]

\* The repositories run the three opening transitions in one go, so no row
\* in any other state than active is ever inserted.
buildActiveSession(gateway, generation, epoch, openedAt, signed, cursors) ==
    activateCloudLinkSession(
        negotiateCloudLinkSession(
            createCloudLinkSession(gateway, generation, epoch, openedAt, signed)),
        openedAt, cursors)

----------------------------------------------------------------------------
(* Heartbeats and their absence.                                           *)

\* lastHeartbeatAt ?? activatedAt
Heard(s) == IF s.lastHeartbeatAt = None THEN s.activatedAt ELSE s.lastHeartbeatAt

\* The caller has already compared the epochs and the request identity: a
\* wrong epoch fails and a repeated request is a replay, and neither builds a
\* record.
CanObserveHeartbeat(s, epoch, request, observedAt) ==
    /\ epoch = s.epoch
    /\ s.lastHeartbeatRequestId # request
    /\ s.state \in {"active", "suspect"}
    /\ observedAt >= Heard(s)

\* A suspect session becomes active again; its suspectAt is left as it was.
observeCloudLinkHeartbeat(s, request, observedAt) ==
    [s EXCEPT !.state = "active",
              !.lastHeartbeatAt = observedAt,
              !.lastHeartbeatRequestId = request,
              !.revision = @ + 1]

markCloudLinkSessionSuspect(s, at) ==
    [s EXCEPT !.state = "suspect", !.suspectAt = at, !.revision = @ + 1]

markCloudLinkSessionHeartbeatTimedOut(s, at) ==
    [s EXCEPT !.state = "closed",
              !.closedAt = at,
              !.closeReason = "heartbeat-timeout",
              !.revision = @ + 1]

----------------------------------------------------------------------------
(* Fencing: a newer connection of the same Gateway closes the older one.   *)

CanFence(s, at) == s.state # "closed" /\ at >= s.openedAt

fenceCloudLinkSession(s, at) ==
    [s EXCEPT !.state = "closed",
              !.closedAt = at,
              !.closeReason = "fenced",
              !.revision = @ + 1]
=============================================================================
