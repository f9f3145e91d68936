---------------------------- MODULE RuntimeManifests ----------------------------
(***************************************************************************)
(* What a Gateway says it runs: ReportGatewayRuntimeManifest and           *)
(* GetGatewayRuntimeManifest, over the repository in the memory of a       *)
(* process.  A report is dated, authenticated, checked against its         *)
(* checksum and recorded; each of the three checks is awaited, so reports  *)
(* overtake each other and the credential may be revoked in between.  One  *)
(* Gateway and one process are looked at; content stands for the canonical *)
(* payload and digest for the checksum that is sent with it.               *)
(***************************************************************************)
EXTENDS Naturals

CONSTANTS
    None,
    Reporters,      \* commands that can be in flight at once
    Reports,        \* what the Gateway sends, when it says it saw it, until when it holds
    MaxTime         \* a bound on the clock

Report == [request : Nat, generation : Nat, content : Nat, digest : Nat,
           observedAt : 0..MaxTime, expires : Nat \ {0}, signed : BOOLEAN]

ManifestAssumption == MaxTime \in Nat /\ Reports \subseteq Report

Generations == {r.generation : r \in Reports}
RequestIds == {r.request : r \in Reports}
Observation == [report : Reports, receivedAt : 0..MaxTime]

VARIABLES
    now,
    credential,     \* of the Gateway
    observations,   \* by generation: the history
    latest,         \* the generation that is current
    identified,     \* by request: the generation and digest it was taken with
    reporting,      \* commands in flight
    told,           \* one of the answers to reports
    viewed          \* the generation a query was answered with last

vars == <<now, credential, observations, latest, identified, reporting, told, viewed>>
repository == <<observations, latest, identified>>

Dispositions == {"accepted-latest", "accepted-late", "replayed"}
Conflicts == {"generation-conflict", "idempotency-conflict"}
Call == [stage : {"authenticate", "integrity", "record"}, report : Reports,
         receivedAt : 0..MaxTime]
Answer == [outcome : Dispositions \cup Conflicts, report : Reports]

\* None is no generation, no record of one, no command and no answer.
NoneIsNoRecord ==
    None \notin Nat \cup Observation \cup (Generations \X Nat) \cup Call \cup Answer

TypeOK ==
    /\ now \in 0..MaxTime
    /\ credential \in {"active", "revoked"}
    /\ observations \in [Generations -> Observation \cup {None}]
    /\ latest \in Generations \cup {None}
    /\ identified \in [RequestIds -> (Generations \X Nat) \cup {None}]
    /\ reporting \in [Reporters -> Call \cup {None}]
    /\ told \in Answer \cup {None}
    /\ viewed \in Generations \cup {None}

Init ==
    /\ now = 0
    /\ credential = "active"
    /\ observations = [g \in Generations |-> None]
    /\ latest = None
    /\ identified = [q \in RequestIds |-> None]
    /\ reporting = [p \in Reporters |-> None]
    /\ told = None
    /\ viewed = None

Tick ==
    /\ now < MaxTime /\ now' = now + 1
    /\ UNCHANGED <<credential, repository, reporting, told, viewed>>

Revoke ==
    /\ credential' = "revoked"
    /\ UNCHANGED <<now, repository, reporting, told, viewed>>

Goes(p, call) == reporting' = [reporting EXCEPT ![p] = call]
Ends(p) == Goes(p, None)

\* Decoded, inside the time window of the command, and not from the future.
Receive(p, report) ==
    /\ reporting[p] = None
    /\ now < report.expires
    /\ report.observedAt <= now
    /\ Goes(p, [stage |-> "authenticate", report |-> report, receivedAt |-> now])
    /\ UNCHANGED <<now, credential, repository, told, viewed>>

\* A report that was signed brings the proof of its authentication with it: the expiry
\* is looked at again, the credential is not.
Authenticates(call) ==
    IF call.report.signed THEN call.receivedAt < call.report.expires
    ELSE credential = "active"

Authenticate(p) ==
    LET call == reporting[p] IN
    /\ call # None /\ call.stage = "authenticate"
    /\ Authenticates(call)
    /\ Goes(p, [call EXCEPT !.stage = "integrity"])
    /\ UNCHANGED <<now, credential, repository, told, viewed>>

\* NodeRuntimeManifestIntegrityVerifier: the digest is that of the content.
verifies(report) == report.digest = report.content

VerifyIntegrity(p) ==
    LET call == reporting[p] IN
    /\ call # None /\ call.stage = "integrity"
    /\ verifies(call.report)
    /\ Goes(p, [call EXCEPT !.stage = "record"])
    /\ UNCHANGED <<now, credential, repository, told, viewed>>

\* Invalid, expired, rejected, or the process fails the call.
Refuse(p) ==
    /\ reporting[p] # None
    /\ Ends(p)
    /\ UNCHANGED <<now, credential, repository, told, viewed>>

----------------------------------------------------------------------------
(* InMemoryRuntimeManifestRepository.record, one step.                     *)

sameReport(stored, report) == stored = <<report.generation, report.digest>>

Identify(report) ==
    identified' = [identified EXCEPT ![report.request] = <<report.generation, report.digest>>]

\* A deviation: what arrives last is the latest.
updatesAlways(generation) == TRUE
updatesLatest(generation) == latest = None \/ generation > latest

Outcome(report) ==
    LET prior == observations[report.generation] IN
    IF identified[report.request] # None
    THEN IF sameReport(identified[report.request], report)
         THEN "replayed" ELSE "idempotency-conflict"
    ELSE IF prior # None
    THEN IF prior.report.digest = report.digest THEN "replayed" ELSE "generation-conflict"
    ELSE IF updatesLatest(report.generation) THEN "accepted-latest" ELSE "accepted-late"

Record(p) ==
    LET call == reporting[p]
        report == call.report
        outcome == Outcome(report)
    IN
    /\ call # None /\ call.stage = "record"
    /\ Ends(p)
    /\ told' \in {told, [outcome |-> outcome, report |-> report]}
    /\ IF outcome \in Conflicts THEN UNCHANGED identified ELSE Identify(report)
    /\ IF outcome \in {"accepted-latest", "accepted-late"}
       THEN observations' = [observations EXCEPT ![report.generation] =
                               [report |-> report, receivedAt |-> call.receivedAt]]
       ELSE UNCHANGED observations
    /\ latest' = IF outcome = "accepted-latest" THEN report.generation ELSE latest
    /\ UNCHANGED <<now, credential, viewed>>

\* GetGatewayRuntimeManifest, by who may read it.
View ==
    /\ latest # None
    /\ viewed' = latest
    /\ UNCHANGED <<now, credential, repository, reporting, told>>

Next ==
    \/ Tick \/ Revoke \/ View
    \/ \E p \in Reporters :
         \/ \E report \in Reports : Receive(p, report)
         \/ Authenticate(p) \/ VerifyIntegrity(p) \/ Record(p) \/ Refuse(p)

Spec == Init /\ [][Next]_vars

----------------------------------------------------------------------------
\* The highest generation that was taken is the current one, in whatever order the
\* reports were recorded, and a reader is never taken back to an older one.
LatestIsHighest ==
    /\ \A g \in Generations : observations[g] # None => latest # None /\ g <= latest
    /\ latest # None => observations[latest] # None
    /\ viewed # None => viewed <= latest

\* A report that was answered as taken, or as a replay, stands in the history with its
\* content; one that was refused for a conflict met something else there, or under the
\* same request.  Two accepted answers never name one generation with two contents.
AnswersAgree ==
    told # None =>
        LET report == told.report
            stored == observations[report.generation]
        IN CASE told.outcome \in Dispositions ->
                  stored # None /\ stored.report.content = report.content
             [] told.outcome = "generation-conflict" ->
                  stored # None /\ stored.report.content # report.content
             [] OTHER ->
                  identified[report.request] \notin {None, <<report.generation, report.digest>>}

ManifestsStand == LatestIsHighest /\ AnswersAgree
=============================================================================
