---------------------------- MODULE EdgeDeployment ----------------------------
(***************************************************************************)
(* The rollout of one deployment to one Gateway: StartEdgeDeployment,      *)
(* ControlEdgeDeployment and ReportEdgeDeploymentObservation over a store  *)
(* that remembers every answered request.  What the cloud wants, what the  *)
(* edge says and what the edge has applied are facts of their own.  A      *)
(* command reads the deployment, awaits, and writes what it made of the    *)
(* copy.                                                                   *)
(***************************************************************************)
EXTENDS Integers, SequencesExt

CONSTANTS
    None,
    Processes,
    Artifacts,
    Requests,
    Starts,         \* [request, artifact, generation]
    Controls,       \* [request, action]
    Rollbacks,      \* [request, artifact, generation]
    Reports         \* [request, observation]

\* applied and failed are evidence; the other kinds are progress, or refusals.
Kinds == {"accepted", "fetching", "validated", "applied", "failed", "rejected", "expired"}
Evidence == {"applied", "failed"}
Actions == {"pause", "resume", "cancel", "mark-unknown"}
Observations == {k.observation : k \in Reports}

\* An observation of progress or of success names the artifact it is about.
IsObservation(o) ==
    /\ o.generation \in Nat \ {0} /\ o.kind \in Kinds /\ o.artifact \in Artifacts \cup {None}
    /\ o.kind \in {"fetching", "validated", "applied"} => o.artifact # None

DeploymentAssumption ==
    /\ \A k \in Starts \cup Rollbacks :
          k.request \in Requests /\ k.artifact \in Artifacts /\ k.generation \in Nat \ {0}
    /\ \A k \in Controls : k.request \in Requests /\ k.action \in Actions
    /\ \A k \in Reports : k.request \in Requests /\ IsObservation(k.observation)

Desired == [artifact : Artifacts, generation : Nat \ {0}]
Deployment ==
    [desired : Seq(Desired), observations : Seq(Observations),
     reported : Observations \cup {None}, applied : Observations \cup {None},
     rollout : {"running", "paused", "cancel-requested", "completed",
                "completed-with-failures"},
     reconciliation : {"pending", "in-sync", "drifted", "failed", "unknown"},
     revision : Nat \ {0}]

VARIABLES
    deployment,
    requests,       \* the deployment as the answer to a request showed it
    published,      \* the artifact revisions that are not withdrawn
    calls

vars == <<deployment, requests, published, calls>>

\* wanted: the artifact a rollback has still to look up.
Call == [request : Requests, current : Deployment \cup {None}, next : Deployment,
         wanted : Artifacts \cup {None}]

\* None is no deployment, no observation and no call.
NoneIsNoRecord == None \notin Deployment \cup Observations \cup Call

TypeOK ==
    /\ deployment \in Deployment \cup {None}
    /\ requests \in [Requests -> Deployment \cup {None}]
    /\ published \subseteq Artifacts
    /\ calls \in [Processes -> Call \cup {None}]

Init ==
    /\ deployment = None
    /\ requests = [r \in Requests |-> None]
    /\ published = Artifacts
    /\ calls = [p \in Processes |-> None]

----------------------------------------------------------------------------
(* Transitions.                                                            *)

Intent(d) == Last(d.desired)

reconciliationFor(desired, applied) ==
    CASE applied = None -> "pending"
      [] applied # None /\ applied.kind = "failed" -> "failed"
      [] OTHER -> IF applied.generation = desired.generation
                     /\ applied.artifact = desired.artifact
                  THEN "in-sync" ELSE "drifted"

createEdgeDeployment(k) ==
    [desired |-> <<[artifact |-> k.artifact, generation |-> k.generation]>>,
     observations |-> <<>>, reported |-> None, applied |-> None,
     rollout |-> "running", reconciliation |-> "pending", revision |-> 1]

\* An order that is already carried out changes nothing, not even the revision.
Target == [pause |-> "paused", resume |-> "running", cancel |-> "cancel-requested"]
Sources == [pause |-> {"running"}, resume |-> {"paused"}, cancel |-> {"running", "paused"}]

IsAllowed(d, action) ==
    \/ action = "mark-unknown"
    \/ action # "mark-unknown" /\ d.rollout \in Sources[action] \cup {Target[action]}

Controlled(d, action) ==
    IF action = "mark-unknown"
    THEN [d EXCEPT !.reconciliation = "unknown", !.revision = @ + 1]
    ELSE IF d.rollout = Target[action] THEN d
    ELSE [d EXCEPT !.rollout = Target[action], !.revision = @ + 1]

\* A new intent, whose generation is newer; it runs, whatever the last one did.
RolledBack(d, k) ==
    LET desired == [artifact |-> k.artifact, generation |-> k.generation] IN
    [d EXCEPT !.desired = Append(@, desired), !.rollout = "running",
              !.reconciliation = reconciliationFor(desired, d.applied),
              !.revision = @ + 1]

isKnown(d, o) == \E i \in DOMAIN d.observations : d.observations[i].id = o.id
isLate(d, o) == o.generation < Intent(d).generation

RolloutAfter(d, o) ==
    CASE o.kind = "applied" -> "completed"
      [] o.kind \in {"failed", "rejected", "expired"} -> "completed-with-failures"
      [] OTHER -> d.rollout

\* recordEdgeDeploymentObservation, of one that is new: it is kept, and what is late
\* is only kept.
Observed(d, o) ==
    LET applied == IF o.kind \in Evidence THEN o ELSE d.applied
        kept == [d EXCEPT !.observations = Append(@, o), !.revision = @ + 1]
    IN IF isLate(d, o) THEN kept
       ELSE [kept EXCEPT !.reported = o, !.applied = applied,
                         !.rollout = RolloutAfter(d, o),
                         !.reconciliation = reconciliationFor(Intent(d), applied)]

----------------------------------------------------------------------------
(* Commands.                                                               *)

Begin(p, request, current, next, wanted) ==
    /\ calls[p] = None
    /\ calls' = [calls EXCEPT ![p] = [request |-> request, current |-> current,
                                      next |-> next, wanted |-> wanted]]
    /\ UNCHANGED <<deployment, requests, published>>

\* StartEdgeDeployment, up to the insertion.
StartRead(p, k) ==
    /\ k.artifact \in published
    /\ Begin(p, k.request, None, createEdgeDeployment(k), None)

\* ControlEdgeDeployment, up to the replacement; of a rollback, up to the search for
\* its artifact.
ControlRead(p, k) ==
    /\ deployment # None
    /\ IsAllowed(deployment, k.action)
    /\ Begin(p, k.request, deployment, Controlled(deployment, k.action), None)

RollbackRead(p, k) ==
    /\ deployment # None
    /\ k.generation > Intent(deployment).generation
    /\ Begin(p, k.request, deployment, RolledBack(deployment, k), k.artifact)

FindArtifact(p) ==
    /\ calls[p] # None
    /\ calls[p].wanted \in published
    /\ calls' = [calls EXCEPT ![p].wanted = None]
    /\ UNCHANGED <<deployment, requests, published>>

\* ReportEdgeDeploymentObservation, up to the replacement.  An observation that is
\* known returns, the same as before or refused; one of an intent the cloud does
\* not have is refused.
ReportRead(p, k) ==
    /\ deployment # None
    /\ ~isKnown(deployment, k.observation)
    /\ k.observation.generation <= Intent(deployment).generation
    /\ Begin(p, k.request, deployment, Observed(deployment, k.observation), None)

Return(p) == calls' = [calls EXCEPT ![p] = None]

\* A deviation: the last writer wins.
isAnyRevision(call) == call.current = None <=> deployment = None
isExpectedRevision(call) ==
    IF call.current = None THEN deployment = None
    ELSE deployment # None /\ deployment.revision = call.current.revision

\* insert and replace.  The request is looked up first: one that is known changes
\* nothing.  It is answered as before if what it would store has the fingerprint of what
\* was stored, which is of the intent, the rollout and the last report: not of the
\* revision, the reconciliation or the observations before.  Otherwise it conflicts.
Write(p) ==
    LET call == calls[p] IN
    /\ call # None
    /\ call.wanted = None
    /\ requests[call.request] = None
    /\ isExpectedRevision(call)
    /\ deployment' = call.next
    /\ requests' = [requests EXCEPT ![call.request] = call.next]
    /\ Return(p)
    /\ UNCHANGED published

\* A refusal or a replay of the store, a failure of it, a transition that throws.
Fail(p) ==
    /\ calls[p] # None
    /\ Return(p)
    /\ UNCHANGED <<deployment, requests, published>>

\* The artifact registry withdraws what it had published.
Withdraw ==
    /\ \E a \in published : published' = published \ {a}
    /\ UNCHANGED <<deployment, requests, calls>>

Step(p) ==
    \/ \E k \in Starts : StartRead(p, k)
    \/ \E k \in Controls : ControlRead(p, k)
    \/ \E k \in Rollbacks : RollbackRead(p, k)
    \/ \E k \in Reports : ReportRead(p, k)
    \/ FindArtifact(p) \/ Write(p) \/ Fail(p)

Next == Withdraw \/ \E p \in Processes : Step(p)

Spec == Init /\ [][Next]_vars

----------------------------------------------------------------------------
\* The facts of a deployment stand: whatever a caller was told is in what is stored,
\* nothing that was observed or wanted is taken back, and an older generation never
\* covers a newer one.  What is applied is the last evidence of the current intent,
\* if the edge has given any, and the reconciliation says just how the two compare.
GenerationOf(o) == IF o = None THEN 0 ELSE o.generation
Precedes(a, b) ==
    /\ IsPrefix(a.desired, b.desired) /\ IsPrefix(a.observations, b.observations)
    /\ a.revision <= b.revision
    /\ GenerationOf(a.applied) <= GenerationOf(b.applied)
    /\ GenerationOf(a.reported) <= GenerationOf(b.reported)

IsEvidenceOf(generation, o) == o.kind \in Evidence /\ o.generation = generation
IsLastEvidence(d, i) ==
    /\ IsEvidenceOf(Intent(d).generation, d.observations[i])
    /\ \A j \in DOMAIN d.observations :
          j > i => ~IsEvidenceOf(Intent(d).generation, d.observations[j])

FollowsEvidence(d) ==
    /\ \A i \in DOMAIN d.observations : IsLastEvidence(d, i) => d.applied = d.observations[i]
    /\ d.reconciliation \in {reconciliationFor(Intent(d), d.applied), "unknown"}

EdgeFactsStand ==
    /\ \A r \in Requests : requests[r] # None =>
          deployment # None /\ Precedes(requests[r], deployment)
    /\ deployment # None => FollowsEvidence(deployment)
=============================================================================
