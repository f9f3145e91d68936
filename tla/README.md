# Formal models of AetherCloud

TLA+ models of AetherCloud's core: what its use cases promise when they run at
the same time on one database, with workers that die, clocks that are read too
early and Gateways that reconnect. TLC checks the models on small instances;
TLAPS proves the most important results for every value of the constants.

## 1. The system

AetherCloud is the cloud side of a fleet of edge Gateways. The code is layered:
`packages/domain` holds immutable records and pure transitions,
`packages/application` the use cases (one class per command), `adapters/*` the
repositories (PostgreSQL, or memory) and the wire formats, `apps/*` the
processes. A use case decodes its input, reads the clock, checks credentials or
permissions, reads a record, applies a domain transition, and writes the result
back under a revision check or inside a locked transaction. Concurrency comes
from several API instances and workers on one database and from the `await`s
between the read and the write of one command.

| Component | State | Operations | Hard part |
|---|---|---|---|
| CloudLink sessions | head (last epoch, current session), session rows, open requests, stream cursors | open, heartbeat, durable cursor, find current | a whole row is written back from an old copy; opening fences the previous session; epochs |
| Session challenges | challenge rows, rate window of the head | issue, accept and open | hellos are verified outside the transaction; supersession; one challenge, one session |
| Session health | lease columns, audit and outbox rows | lease due rows, complete, scheduler close | workers die with leases; the batch is bounded; the clock reading is as old as the sweep |
| Signed uplinks | heartbeat high-water mark per session | authenticate, consume the fact later | two writes (high-water mark, session row) with a crash between them |
| Telemetry and durable acks | batches, stream positions and gaps, receipts, ack outbox | ingest, claim, publish, mark, release | out-of-order and repeated batches; at-least-once delivery under leases |
| Enrollment | Gateway identities, claims, tokens in memory | register, issue, claim | one-time tokens that a restart forgets, retries after an unknown outcome |
| Integration control | intents, offers, receipts, receipt stream | create, reoffer, publish, ingest receipt | a session change between offer and publication; receipts in order |
| Integration projection | topology snapshot and observations per stream | report topology, report observations | session fence checked before the write; stale topology |
| Governed jobs | job, receipts | create, confirm, control, ingest receipt | out-of-order receipts; expiry against confirmation |
| Edge deployment | desired, reported and applied facts | start, pause, resume, cancel, rollback, observe | observations of an older generation |
| Webhooks | deliveries, subscriptions | enqueue, process, redrive, disable | a crash while an attempt is out; retry budget |
| Alarms | facts, the current alarm of an occurrence | ingest, acknowledge | facts out of order, of two generations, repeated under other requests |
| Data exports, artifacts, runtime manifests | one versioned record each | request, report; publish; report, query | several workers or reporters of one record, checks that are awaited one after the other |
| Paged queries (catalog, fleet, audit, history) | none of their own | list a page | rows are written between two pages |
| API process | listener, requests, health scheduler, pools | serve, sweep, close | shutdown while a request or a sweep waits for a database, or before it listens |
| MQTT application | connection, ingress queues, session assertions and manifests in memory | start, handle, drain, close | shutdown at any moment; what a restart forgets |
| Deployment stack planning | plan records; workspaces, state leases, processes, plan artifacts | plan | a process that is told to end runs on; the lease must outlive it |
| Web console | pages, requests in flight | register, list, select, leave | answers that arrive out of order or after the page was left |
| Everything else (provider discovery, most routes, MCP tools, metrics export) | none of its own, or external | | |

The components meet in three places. The session plane hands the current
session, its epoch and revision to every uplink consumer, which uses them as a
fence. Telemetry, projection and control record stream positions that a
reconnect resumes from. The bridge keeps what a session declared and decides
what reaches a use case. All of them write audit and outbox rows in the
transaction of the change.

What makes each correct, in a sentence: a Gateway has one live connection and
a newer epoch fences the older one; a session is closed for silence only after
silence, and every silent one is; a challenge opens one session; a stream
position advances by one and is acknowledged only when stored; a job, intent,
deployment or delivery moves only forward, once per identity, whatever the
order of its receipts.

## 2. Modules

| Module | Models | Runs |
|---|---|---|
| `CloudLinkSession` | the session record and its transitions (`packages/domain/src/cloudlink-session.ts`) | in all session runs |
| `SessionRepository` | heads, rows, leases, cursors, outbox, and the four use cases that write them | in all session runs |
| `SessionChallenge` | challenges, the rate window, hellos in flight | in all session runs |
| `SessionPlane` | the composition; types and properties | `session_*` |
| `SessionAuthority` | the abstract specification: owners, epochs, positions | refinement in `session_plane` |
| `SessionHealthSweep` | health workers over unbounded time, scheduler, batches | `workers` |
| `SessionRowLocks` | the same transactions, statement by statement, with row locks | `workers` |
| `SessionPlaneTypes`, `SessionPlaneProofs` | theorems | proofs |
| `SignedUplink` | uplinks that are signed one by one, over the session store in memory | `workers` |
| `CloudLinkBridge` | what the bridge remembers of a Gateway: assertions, manifests, bindings | `workers` |
| `IngressLifecycle` | the ingress process from its start to its exit | `workers` |
| `ApiLifecycle` | the API process from its start to its exit | `workers` |
| `DurableAckOutbox` | the acknowledgement outbox and its workers | `workers`, `telemetry*` |
| `AckDelivery` | the outbox on its own, with fairness | `workers` |
| `TelemetryIngestion` | ingestion of one stream by several processes, over the outbox | `telemetry*` |
| `TelemetryProofs` | theorems | proofs |
| `IntegrationControl` | power actions of one Gateway: create, reoffer, publish, receipts | `integration_control`, `integration_reoffer` |
| `IntegrationControlProofs` | theorems | proofs |
| `IntegrationProjection` | topologies and observations, delivered or reported directly | `integration_projection`, `projection_times` |
| `IntegrationProjectionProofs` | theorems | proofs |
| `ApiCommands` | the records of the application layer side by side (`GovernedJob` and the parts below) | `api_commands` |
| `ApiCommandsProofs` | theorems | proofs |
| `GovernedJob` | jobs: create, confirm, control, receipts | `api_commands` |
| `GovernedJobProofs` | theorems | proofs |
| `GatewayEnrollment` | one Gateway: register, issue, claim; the tokens of a process | `api_commands` |
| `EdgeDeployment` | one rollout: start, control, roll back, report | `api_commands` |
| `AlarmProjection` | alarms: facts of the edge, acknowledgement in the cloud | `api_commands` |
| `WebhookDelivery`, `WebhookSubscription` | one delivery with its attempts; one subscription | `api_commands` |
| `DataExport` | one export and the workers that produce it | `api_commands` |
| `ArtifactRegistry` | publication with its two verifications | `api_commands` |
| `RuntimeManifests` | what a Gateway says it runs, and who reads it | `api_commands` |
| `PagedQueries` | the four lists that are read page by page | `api_commands` |
| `Workers` | what the processes do in the background and in the browser, side by side (the modules with the run `workers`) | `workers` |
| `WorkersProofs` | theorems | proofs |
| `StackPlanning` | plans of deployment stacks and the OpenTofu engine | `workers` |
| `FleetConsole`, `IntegrationsPage` | two pages of the web console | `workers` |

`ApiCommands` and `Workers` each instantiate ten modules. Their variables are
disjoint, and so are the tables and the memory behind them: no operation of one part
reads or writes the state of another. The parts take their steps in any order; those
of `ApiCommands` share the clock, those of `Workers` nothing. That is what the
theorems are about. For TLC, `MCApiCommands` and `MCWorkers` let a behaviour be one of
one part, which the variable `scenario` names in its initial state, while the other
parts stay where they began. This loses no interleaving that matters to a property,
because every property speaks of one part, or is a conjunction of such.

### The session plane

`SessionRepository` keeps one variable per table or column group: `head`,
`session`, `lease`, `openRequests`, `cursor`, `outbox`. A handler that works
across an `await` has a variable for what it carries: `heartbeats` holds the
new row and the expected revision between `findById` and `replace`, `sweeps`
holds the leased snapshots and the clock reading of a health sweep, `hellos`
(in `SessionChallenge`) the challenge and the clock reading of a signed hello
while its signature is verified.

| Action | Code |
|---|---|
| `Open` | `OpenCloudLinkSession`, `PostgresCloudLinkSessionRepository.open` |
| `HeartbeatRead`, `HeartbeatReplace`, `HeartbeatDrop` | `RecordCloudLinkHeartbeat`, `replace` |
| `leaseDue`, `SweepComplete`, `SweepLeaseLost`, `SweepAbort` | `ReconcileCloudLinkSessionHealth`, `leaseDue`, `complete` |
| `recordDurableCursor` | `RecordCloudLinkDurableCursor`, `recordDurableCursor` |
| `issue`, `IssueAgain` | `RequestGatewaySignedCloudLinkSession`, `issue` |
| `AcceptHello`, `acceptAndOpen`, `HelloDrop` | `AcceptGatewaySignedCloudLinkSession`, `acceptAndOpen` |
| `Tick` | the wall clock |

A transaction is one step. That is justified by `SessionRowLocks`, which takes
the same transactions apart into statements with row locks, READ COMMITTED
re-reads after a wait, rollback and deadlock detection, and checks that what is
committed is what the atomic steps would have committed (`CommittedOneLive`,
`NoLostUpdate`) and that no transaction hangs (`EveryTransactionEnds`, a part of
`WorkEnds`).

Left out of the session plane: the protocol version, credentials as such (a
credential verifies or the command ends), encodings and signatures (a hello
either carries a fingerprint or is dropped), the audit row (it is written with
the outbox row). A request that changes nothing (a replay, a rejection) is a
stuttering step.

The memory repository follows the same rules in one synchronous step per call.
It is not modelled separately here; `SignedUplink` is over it.

### Signed uplinks

A composition with Gateway-signed uplinks authenticates each message by itself.
`SignedUplink` has the sessions, `marks` (the highest heartbeat that
`acceptHeartbeat` took for a session), the stream `position`, the lease and the
`sweep` of a health worker, and `uplinkCalls`, what each handler carries from
one call of the store to the next. `taken` remembers what was consumed and when,
for the properties only. This needs the store in memory, the only one with
`acceptHeartbeat`, so a call is one synchronous step.

| Action | Code |
|---|---|
| `Open`, `AcceptAndOpen` | a trusted connector or a signed hello opens a session |
| `FindCurrent`, `Evaluate` | the authentication of an uplink: the session, the signature, the clock, and the mark of a heartbeat |
| `ConsumeHeartbeat`, `ReplaceSession` | `RecordCloudLinkHeartbeat` with the fact that the authentication minted |
| `ConsumeDelivery`, `RecordDurableCursor` | a signed business delivery and its stream position |
| `LeaseDue`, `Complete` | the health worker |
| `Drop` | a refusal, or a handler that ends between two calls |

A signature is valid or the message is refused; transcripts, digests and the
content of a delivery are left out.

### The bridge and the ingress process

`CloudLinkBridge` has what is in the memory of the process (`sessions`: the
assertion of the session with the protocols that were declared in it; `history`
and `latest`: the manifests) and what is in the database and outlives it
(`epoch`, `live`, `cursor`). The ingress hands on one message of a Gateway at a
time, so one chain of calls is `handling`; any of them may fail, before or after
what it does is committed, and the process may `Restart` between any two. Reports
arrive more than once and in any order, and the Gateway may at any time be with
another process, which opens a session or moves a cursor in the same database
(`Elsewhere`). `served` is history: the session whose assertion last replaced the
others. It is not always the newest: a hello may fail after its session is
committed (`OpenSession`, then `Fail`), and then drops nothing.
`signed`, which no step changes, chooses between the two ways the bridge is composed.

| Action | Code |
|---|---|
| `OpenSession` | the call of `openSession` or `acceptGatewaySignedSession` that commits a new session (`Open`) or finds that of an earlier hello (`Replay`) |
| `AcceptSession` | the rest of the hello: the loop that deletes the other assertions, and the restoration of what was declared, which may fail |
| `Deliver`, `RecordManifest`, `RecordCursor`, `PublishDurableAck` | `reportManifest`: record, advance the stream, acknowledge |
| `Deliver`, `HandOn` | `reportIntegrationTopology` and the other integration uplinks, `recordIntegrationStreamBinding`; the use case of a signed one is fenced (`Unfenced`) and may store nothing |
| `CloseSilent`, `Elsewhere` | a health worker, another process: the bridge is told of neither |
| `Fail`, `Restart` | a call that throws or whose answer is refused, a hello included; a new process |

`IngressLifecycle` is the process around it: `start` and `close` are what
`runtime.start()` and `runtime.close()` await, `uplinks` counts for each Gateway
what was received, handed to the bridge and done. Signals come at any moment,
also while the process still connects. Nobody answers a subscription, a drain or
the close of a connection for certain; a connect is bounded by a timeout and a
shutdown by `closeOrExit`. The wire decoders are data: a message is one the
decoder accepts.

### The API process

`ApiLifecycle` is the process of `apps/api`: the listener, the requests that are
being handled (`handlers`: which pool one has a client of), the scheduler of
health sweeps with the sweep under way, and the pools of the stores that are not
in memory. `stop` is what `runtime.close()` awaits.

| Action | Code |
|---|---|
| `Listen` | `app.listen` in `server.ts` |
| `Arrives`, `Queries`, `Released`, `Answered` | a request and its transactions, one after the other |
| `Sweep`, `Swept` | the scheduler, as `SessionHealthSweep` has it in detail |
| `Signal`, `ListenFailed` | `shutdown` and the `catch` of the listen; the close they begin is one |
| `AppCloses`, `AppCloseFails`, `SchedulerCloses`, `PoolEnds`, `PoolsEnd` | `close` in `runtime.ts` |
| `Exit`, `ExitFailed`, `Deadline` | `closeOrExit` and the end of the process |

Two things are assumed of the libraries: Fastify ends its connections although a
request is being handled (the handler goes on), and a pool that ends waits for the
clients that are out.

### Telemetry and durable acknowledgements

`TelemetryIngestion` has one variable per table (`stream`, `batches`,
`requests`, `usage`) and `calls`, what each process carries through
`persistInTransaction`. A delivery is a member of a set given by the instance:
positions, a digest for its content, the request, the session and the
credential generation. The transaction runs at READ COMMITTED and is taken
apart where another can come in between:

| Action | Code |
|---|---|
| `ReplayRequest`, `ReplayBatch` | the two duplicate branches, with the renewed acknowledgement |
| `Check` | nothing known in the range; not protected by any lock |
| `LockStream`, `PositionConflict` | `selectStreamForUpdateSql` and the window; waits while the row is locked, and locks nothing when there is no row |
| `Measure` | `selectFollowingPositionsSql`, or nothing behind a gap |
| `Commit` | everything from the quota on: that row is locked until the commit, so no other transaction of the Gateway gets past it |
| `Fail` | any statement that fails, a quota that is used up, a process that dies, an answer that is lost |
| `Answer` | what the command makes of the receipt, and whether the bridge acknowledges |

Between `LockStream` and `Commit` only a call that found a row holds the lock;
after the quota everything is one step because every other call of the Gateway
has to update the same usage row.

`DurableAckOutbox` is the table `cloudlink_durable_ack_outbox` and
`DeliverCloudLinkDurableAcknowledgements`: claim, publish one row after the
other, mark or release, end on a lease conflict. It is used in two ways: under
`TelemetryIngestion`, which decides what is stored in it, and under
`AckDelivery`, which asks for acknowledgements at any moment and adds fairness.
Time is relative there (time left of a lease, time to wait), so it has no bound.

Left out: the history query (read only), what a record says (its digest), the
audit and integration events (written with the batch, under identities derived
from it), several streams and Gateways at once (rows of different streams meet
only in the quota, which is a sum). Gateways are called in turn by the MQTT
ingress of one process, but a Gateway can move to another process, so two calls
of it may overlap.

### Integration control

`IntegrationControl` has one variable per table (`intents`, `requests`,
`offers`, `binding`, `cursor`, `deliveries`, `acks`), `calls` for what a command
carries from one `await` to the next, and `published` for what reached the
broker. An intent is its digest, a receipt what its digest says, a session its
epoch and whether it is active, suspect or closed.

| Action | Code |
|---|---|
| `CreateRead`, `PersistIntentAndOffer` | `CreateIntegrationPowerControl`, `persistIntentAndOffer` |
| `ReofferStart`, `ReofferList`, `PersistReoffer` | `ReofferIntegrationPowerControls`: the pending offers, then the unresolved intents, then one transaction for each |
| `PublishStart`, `PublishList`, `Publish`, `markOfferPublished` | `PublishIntegrationControlOffers`, called after a reoffer and by the pump |
| `ReceiptCheck`, `ReceiptReplay`, `PersistReceipt` | `IngestIntegrationControlReceipt`, `persistReceipt` |
| `Fail` | a refusal, a failing statement or publisher, a process that dies, before the commit or after it |
| `Reconnect`, `SessionHealth`, `Tick` | the session plane and the clock, as this component sees them |

A transaction is one step. `persistIntentAndOffer` and `persistReoffer` take an
advisory lock on the job first, `persistReceipt` one on the receipt stream of
the Gateway, and both `persistReoffer` and `persistReceipt` lock the row of the
intent; a create whose intent exists locks it too, and one whose intent does not
exist meets no receipt of it. `markOfferPublished` locks the row of the offer.

The model takes the jobs of a reoffer and the offers of a publication in any
order; the code takes the oldest first, so the model has more behaviours. The
edge answers what was published, whichever session that was in, with any
receipt of the instance. Publishing the acknowledgement is not a step of its
own: the bridge publishes what the transaction returned. A receipt is stored
even if its session was fenced after `ReceiptCheck`, as in the code.

Left out: permissions, confirmation, targets and signatures (checked before
anything is read or written), the Runtime Manifest (a session that does not
declare the protocol reoffers nothing), audit rows.

### Integration projection

`IntegrationProjection` keeps the session row (`session`), what is shown of an
Integration (`current`), the topologies it had (`history`), the observations
that were stored (`batches`), and for deliveries the `inbox` and the `streams`,
each bound to an Integration and a kind. `deliveries` are the messages on their
way, `work` is what a command carries between its transactions, and `store`
says which of the two repositories is used.

| Action | Code |
|---|---|
| `Deliver`, `Call` | a delivery of the bridge, a direct report |
| `PersistTopology` | `ReportIntegrationTopology`, one transaction |
| `ReadCurrent`, `ReadHistory`, `PersistObservations` | `ReportIntegrationObservations`: the current topology, an older one if the observation is of an older generation, and the write; three transactions with awaits between |
| `PersistUnanswered`, `Abandon` | a commit whose answer is lost; a refusal or a failure |
| `SessionChanges` | a reconnect, a rotated credential, a health worker |

A transaction is one step, because each takes the advisory lock of its
Integration first, one that delivers also the lock of the stream, and the
session row is read `FOR SHARE`. Values are a digest and the time at which they
were seen; topologies are their generation and points.

### Governed jobs

`GovernedJob` has the two maps of `InMemoryGovernedJobStore`, the only store of
jobs in the repository: `jobs`, and `requests`, the job that answered a request.
`calls` holds, for a command between its `find` and its `insert` or `replace`,
the copy it has read and the job it will write. The receipts of a job are a set:
`advanceContiguousReceipts` looks them up by their number, and identities and
numbers are unique. The six operators on the life of a job differ only in where
they lead, from where, and whether they look at the expiry, so they are one
operator over three tables (`Target`, `Sources`, `InTime`).

| Action | Code |
|---|---|
| `CreateRead`, `Insert` | `CreateGovernedJob`, `insert` |
| `ControlRead`, `Replace` | `ConfirmGovernedJob`, `ControlGovernedJob`, `replace` |
| `ReceiptRead`, `Replace` | `IngestGovernedJobReceipt`, `replace` |
| `Fail` | a refusal of the store, a failure of it, a process that dies |
| `Tick` | the wall clock |

`Insert` and `Replace` are synchronous in the store. The store keeps its maps in
one process, whose commands interleave at every `await`. A refusal, a replayed
receipt and a replayed request are stuttering steps. Left out: permissions, the
capability catalogue, who confirmed and when (whether, is in `marks`), digests,
the audit and outbox records (one of each with every remembered request).

### The other records of the API

All of them follow one pattern. A command is decoded, authorised and dated, reads
its record and the answer to its request, awaits, and writes what it made of the
copy together with its answer; the store refuses a revision that is not the one
that was read, and answers a request that it knows as before. The modules keep
the record, the remembered `requests` and the copies under way (`calls`), and
have a step for each `await`. A command that is refused before it reads is one
that is not called.

| Module | Actions ↔ code | Left out |
|---|---|---|
| `GatewayEnrollment` | `Begin`, `FindRow`, `WriteRow`, `FindAgain` ↔ `RegisterGateway`, `IssueGatewayEnrollment`, `ClaimGatewayEnrollment` over `PostgresGatewayIdentityRepository`: a conflict is followed by another read; `Restart` ↔ a process whose token service begins empty; `Fail`, `Tick`. Services in `Remembering` are an `InMemoryEnrollmentTokenService`, the others a `NodeEnrollmentTokenService`, which makes a new token each time | the digest of a token is the token; audit and outbox rows |
| `EdgeDeployment` | `StartRead`, `ControlRead`, `RollbackRead`, `ReportRead`, `FindArtifact`, `Write`, `Fail` ↔ `StartEdgeDeployment`, `ControlEdgeDeployment`, `ReportEdgeDeploymentObservation`; `Withdraw` ↔ `withdrawArtifactRevision` | progress in percent |
| `AlarmProjection` | `Ingest`, `IngestAgain`, `Acknowledge` ↔ the two commands; the store carries out each in one step | when an alarm was raised and cleared |
| `WebhookDelivery` | `Enqueue`; `ProcessRead`, `Write`, `Send`, `WriteAgain` ↔ `ProcessWebhookDelivery`, which takes an attempt, calls the endpoint and records the answer; `RedriveRead`; `Fail`, `Tick` | what is sent, the signature, the length of the back-off |
| `WebhookSubscription` | `Create`, `DisableRead`, `DisableWrite`, `Return` | the endpoint and the filter |
| `DataExport` | `RequestDataExport`, `ReadOutcome`, `WriteOutcome`, `ReplayOutcome`, `Fail` | the object, and expiry, which no use case calls |
| `ArtifactRegistry` | `Publish`, `verifyContent`, `verifySignature`, `Store`, `Return` ↔ `PublishArtifactRevision`; `putContent`, `trustSignature` ↔ the stores behind it | deprecation, which no use case calls |
| `RuntimeManifests` | `Receive`, `Authenticate`, `VerifyIntegrity`, `Record`, `Refuse` ↔ `ReportGatewayRuntimeManifest`; `View` ↔ `GetGatewayRuntimeManifest`; `Revoke` ↔ the credential | the content of a manifest is its digest |

The stores are those in memory except for enrollment, which has a PostgreSQL
repository; there is no other store of the rest in the repository.

`PagedQueries` is one caller that reads one list (`kind`): the catalog of
Integrations, the fleet, the audit search and the history of a stream. `walk` is
what it has seen and its cursor; rows are stored, and transactions with audit
events are opened, committed and rolled back, between any two pages (`open`,
`ahead`: sequence numbers are taken before the commit).

### Planning

`StackPlanning` joins `PlanDeploymentStack` and the OpenTofu engine:
`executions` says where each is, `records` the stored plans, `holder` the lease
of a state, `directories` the workspaces, `artifacts` the stored plans' files,
`child` the process of an execution. `Request` and the steps up to `Insert`
follow the command through its ports; each port may fail. `Spawn`, `Terminate`
and `Closed` are a process that is started, told to end (a deadline, an abort, too
much output) and does. `Abort` is the caller. What a plan says is left out.

### The console

`FleetConsole` is the fleet page with the list of Gateways, the pairing token it
shows, and the requests in flight (`fetches`), against the answers of the API's
routes (`enrollments`, `fleet`). `IntegrationsPage` is the page of Integrations:
what is selected, the pane next to the catalog, the readings of both. A request
is answered in its own time, after the page was left too, or is lost. The audit
page, forms, the session and the badge of the API are left out.

### Abstract specification

`SessionAuthority` knows only owners, epochs, grants and positions.
`SessionPlane!ImplementsAuthority` maps the owners to the unclosed session
*rows*, not to the head's pointer, so the refinement holds only if fencing,
inserting and closing keep the two together.

## 3. Runs

Bounds are the constants of the `.cfg` files: `MaxTime`, `MaxEpoch`,
`MaxPosition`, `MaxRevision` cap counters in the guards, `MaxDelay` is how old
a clock reading may be when it is used.

| Run | Question | Bounds |
|---|---|---|
| `session_plane` | races of open, hello, two heartbeat commands, two health workers and stream positions; refinement | two sessions of one Gateway, instants 0 to 4 with a grace of one, so that a session is suspected and times out, or recovers and is suspected again; positions 1 and 2 |
| `session_handshake` | concurrent hellos, superseded challenges, rotated credentials, stale clocks | two challenges, two acceptors, three sessions, readings up to one instant old |
| `session_lease` | a documented property that the code does not have (below) | one session, one worker |
| `workers` | what runs in the background ends, does what is due, and shows or hands on nothing it may not; ten scenarios | below |
| `telemetry` | the cursor, what bridges acknowledge, quota and receipts | two processes, five positions, ten deliveries of one or two records, three sessions, two credentials, window of one, quota of four |
| `integration_control` | one action per job, one offer per session, receipts without gap, acknowledgements | two processes, one job, three callers (one disagrees, one expires earlier), two sessions, two instants, five receipts: in order, repeated at another position, other content at the same position, another stream |
| `integration_projection` | what is acknowledged is applied, the projection is the sum of its receipts and never goes back | two commands at a time, two Integrations, two generations, two points, two streams of up to three positions, two instants, two changes of the session, both stores |
| `api_commands` | every record tells the history its callers were told; ten scenarios | below |
| `integration_reoffer` | a documented property that the code does not have (below) | the same with one caller |
| `telemetry_new_stream`, `telemetry_outbox` | documented properties that the code does not have (below) | the deliveries of the bridge; one worker in the second |
| `projection_times` | what the bridge delivers is stored: it is not (below) | the messages of the bridge, PostgreSQL |

| Scenario of `workers` | Distinct states | Bounds | Properties |
|---|---|---|---|
| sweep | 64,504 | two sessions of a Gateway each, two workers of which one may stop, batches of one, one failure | `SweepsStayJustified`, `SilentSessionsClose`, `ShutdownsEnd` |
| delivery | 40,603 | two rows, two workers, a lease of two ticks, one failure, four requests | `PublishedMeansAnswered`, `AcksAreSettled` |
| rows | 75,873 | two openers, two completers, one heartbeat, one recorder, two sessions | `CommittedOneLive`, `NoLostUpdate`, `WorkEnds` |
| ingress | 2,804 | two Gateways with two uplinks each | `CleanClose`, `ShutdownsEnd` |
| api | 2,050 | two requests, each store in memory or with a pool, with and without a health worker | `CleanClose`, `ShutdownsEnd` |
| bridge | 102,664 | composed for signed or for trusted uplinks; two sessions, opened here or by another process, one Integration stream, three reports of two manifest streams, of which one takes a declaration back | `FailsClosed` |
| planning | 82,797 | two executions of one request that is sent with two contents | `PlansStand`, `WorkEnds` |
| uplink | 50,563 | one handler, heartbeats at 1 and 3, a delivery that expires at 2, instants 0 to 4, two sessions | `UplinkTruth` |
| fleet page | 81,255 | two Gateways, pages of one, two requests in flight, one of which may be lost | `ConsoleIsHonest`, `WorkEnds` |
| integrations page | 533 | two Integrations, two readings, two loads | `ConsoleIsHonest` |

| Scenario of `api_commands` | Bounds | Property |
|---|---|---|
| jobs | two commands, one job with or without confirmation, two instants, six orders, five receipts: three that follow on one another, one that contradicts the first, one without evidence; a creation and a confirmation share a request | `ProjectionFollowsReceipts`, `OneHistory` |
| enrollment | two processes of which one remembers its tokens, one command in each, two tokens, two credential requests | `OneEnrollment` |
| deployment | two processes, a rollout that is applied, or fails and is rolled back, while one request pauses it or gives it up | `EdgeFactsStand` |
| alarms | one occurrence in two generations, out of order, with other content, from another Gateway | `AlarmFollowsFacts` |
| webhooks | two workers, two attempts, two requests | `WebhookTruth` |
| export, subscriptions | two workers or callers, three or four requests | `RecordsStand` |
| artifacts | two publishers, two revisions that are after one channel, one with two contents | `RecordsStand` |
| manifests | two reporters, two generations, a request with both, a manifest whose checksum is another's | `RecordsStand` |
| queries | two Gateways, two Integrations, three places, pages of one and two | `PagesAreComplete` |

The runs have 503,646 and 524,265 distinct states in all.

The window of one stands for 4096 positions: what matters is a batch that
reaches across its end. In `telemetry` the batch of positions 2 and 3 is admitted
behind the gap at 1, although 3 is outside the window, and 1 closes the gap: the
read that moves the cursor ends with 2. The fourth position is outside the
window until then, and the quota is used up by the four.

One Gateway is enough where rows of different Gateways never meet: every
statement is keyed by the Gateway, except the health lease, which picks rows of
all Gateways (the scenario sweep has one Gateway per session). Two sessions are
enough to have a fenced and a current one; the proofs cover any number.
One job is enough in `integration_control` because jobs meet only in the receipt
stream, whose positions the five receipts already fill; the proofs cover any
number of jobs, callers and receipts.
One job is enough in the scenario jobs too: jobs meet only in the identities of
requests, which the creations and a confirmation of the one job already share.
One record of each other kind is enough for the same reason; the projection has
two Integrations because a stream may be taken for the wrong one. Two commands
suffice to overtake each other between a read and a write. A third generation,
attempt or page repeats the step from the first to the second.
Identities are symmetric: no definition distinguishes two of them. Liveness is
checked without symmetry.

`CHECK_DEADLOCK FALSE` stands in the runs whose bounds or one-shot transactions
end every behaviour.

### Divergences

`docs/concepts/cloudlink-and-core-state-machines.md:96` says that "an expired or
lost lease cannot emit evidence". A *lost* lease cannot. An *expired* one can:
`completeHealthSql` compares the lease's expiry with the clock reading from the
start of the sweep, not with the time of the write. Run `session_lease` shows a
worker that writes its event after its lease has run out. The row itself is
still protected: once another worker leases it or a heartbeat replaces it, the
write fails (`OutboxTruthful`, `SweepsStayJustified`).

Two runs show telemetry falling short of `docs/concepts/iot-telemetry.md`
(lines 86 to 94) and of the bridge's own comment:

- `telemetry_new_stream`: a stream without a row has nothing to lock. Two first
  batches that are ingested at once leave the cursor at the first although the
  second is stored, and no later call moves it past that.
- `telemetry_outbox`: the bridge withholds an acknowledgement behind a gap, but
  the row is in the outbox and the worker publishes it.

The same model contains three more behaviours that a maintainer should know,
without a run of their own. The window (`InWindow`) is checked for the first
position of a batch while the read that moves the cursor (`Coalesces`) counts
records, so a batch that reaches across the end of the window leaves the cursor
inside itself, for good (in run `telemetry` this happens; `CursorIsContiguous` says
that the cursor stops early there and nowhere else). The replay of a batch that was stored behind a gap is answered
with the receipt of that time (`ReplayBatch`) and refused although the gap is
gone (`Acknowledges`). The replay of a batch that was stored under an earlier
credential is refused, for its receipt names that credential (`Acknowledges`).

None of the telemetry behaviours loses a stored record or lets the cursor pass one:
`CursorWithinHistory` is proved.

`docs/concepts/home-assistant-governed-control.md:71` says that "once any receipt
exists, the cloud does not automatically reoffer the physical effect". Run
`integration_reoffer`: a job is published, and reoffered after a reconnect; the
publication lists the new offer, a receipt of the first one is stored, and the
offer is published nevertheless. The edge has to recognise the job identity
(`OneIntentPerJob` says that it can).

Four more behaviours of integration control are in the model without a run of
their own. A second reoffer in a session that has already published the offer of
an unresolved job signs it with a new time, conflicts with the stored offer and
ends, and so do the jobs behind it (`mayStage`). The same happens when a create
stages the offer between the two lists of a reoffer (`ReofferStart`,
`ReofferList`). A second create of the same intent with another expiry, in
another session, leaves an offer with an expiry that is not the intent's. And
the latest receipt of a job is the one stored last, not the one with the highest
number (`Reported`).

Four behaviours of governed jobs are in the model without a run of their own.
`docs/adr/0011` says in decision 4 that "a late terminal Receipt remains
authoritative", but the cloud may expire a job that it has already offered
(`Sources`), and `receiptTransitionIsAllowed` then refuses every receipt of it.
A receipt that waits behind a gap is not checked before the gap closes; if it is
not allowed, the receipt that closes the gap is refused for ever (`AreAllowed`).
A job that is cancelled while it is queued was never offered, so that no edge
will answer it, and it stays in `cancel-requested` or `unknown`. And a request
that is repeated is compared with the job as it would be made *now*: under a
later clock or after another order the repetition is a conflict, not a replay.

Run `projection_times` shows that the PostgreSQL repository refuses what the
bridge delivers. The bridge sets on each delivery when it was sent and when it
expires, the tables keep neither, and `sameDelivery`
(`postgres-integration-projection-repository.ts:1274`), which compares the stored
acknowledgement with the delivery, looks at both: the transaction is rolled back.
In `integration_projection` the deliveries carry no times, so that the rest is
checked for PostgreSQL as well as for the memory store.

The models of the other parts contain behaviours that a maintainer should know,
without a run of their own.

- *Projection.* An observation that was validated against a topology which is
  replaced before it is persisted is refused, and so is everything behind it on
  its stream (`postgres-integration-projection-repository.ts:1935`) until the
  Gateway gives that position up.
- *Enrollment.* The token is told once: if that answer is lost nobody has it,
  and the request that is repeated is answered without it. An expired claim is not
  replaced by another, where `docs/concepts/gateway-identity-and-enrollment.md:106`
  has claims "short-lived and replaceable".
- *Rollouts.* The fingerprint of an observation leaves out what the
  reconciliation made of it; a rollout that is rejected or expires after it was
  applied counts as completed with failures; a control that is repeated after a
  later observation is a conflict, not a replay.
- *Alarms.* An acknowledgement carries over to the next generation of an
  occurrence. A fact that clears an alarm is applied at once although numbers
  before it are missing, where
  `docs/concepts/cloudlink-and-core-state-machines.md:365` has the alarm wait. A
  later fact of the same generation raises it again.
- *Webhooks.* An attempt that is in flight is sent again by every worker that
  finds it, without bound, and only the answer that is recorded first counts. A
  subscription that was disabled is consulted by nobody. An enqueue that is
  repeated later is a conflict.
- *Exports and artifacts.* An export that runs does so for ever if its worker is
  gone; a release channel has one revision for ever.
- *Manifests.* A replayed report is answered with its own times while those that
  were stored first stay. The credential may be revoked between its check and
  the record. No app hosts the query.
- *Signed uplinks.* A suspect session is brought back only by a heartbeat that
  was authenticated before the suspicion, for authentication demands an active
  session; `docs/concepts/cloudlink-and-core-state-machines.md:111` has "suspect
  -> active or closed". The mark and the session row are two writes: after a
  handler that ends between them the repeated heartbeat counts as replayed, and
  the bridge acknowledges it without recording it
  (`cloudlink-mqtt-application-bridge.ts:1798`);
  `scripts/HOME_ASSISTANT_E2E.md` lists this as open. Only the store in memory
  has `acceptHeartbeat`. The outcome `conflict` of a heartbeat cannot be reached
  with the Ed25519 verifier.
- *Bridge.* The report that comes last decides what a session declares, although
  it may not be the latest manifest (`cloudlink-mqtt-application-bridge.ts:1899`).
  Manifests are in memory: after a restart a session declares nothing until its
  Gateway reports again. A hello that commits its session and then throws, or
  whose answer is refused (`cloudlink-mqtt-application-bridge.ts:1153` to 1172, and
  1273 to 1316), leaves the assertion of the session it fenced, and a session
  that another process opens is not told to this one. *Trusted* uplinks under
  the fenced session are then still handed on, and stored: their use case carries no
  session fence (`postgres-integration-projection-repository.ts:1552`), where
  `docs/concepts/cloudlink-and-core-state-machines.md:114` has "A newer epoch fences
  the old connection, including late messages from the old socket". Signed ones are
  fenced in the authentication and again when they are stored. So `FailsClosed` goes
  by the session the bridge served last, not by the newest.
- *Ingress.* A subscription that fails closes the connection without draining
  what came before. A start that fails with a connection that does not close has
  no deadline.
- *API process.* The pools are told to end after the server is closed, not after
  its requests: a request that asks for a client after that fails, and one that
  holds a client holds up the close, until the deadline ends the process.
- *Planning.* A workspace whose mode cannot be set stays, where
  `docs/guides/plan-infrastructure.md` has it removed on success or failure. A
  lease that could not be released is not told if the clean-up fails too. Plan
  artifacts of aborted and overtaken executions stay. A process counts as ended
  when its pipes are closed, which its children may hold open. No app hosts the
  engine.
- *Console.* Readings of the list, of the audit events and of the catalog are
  not aborted, so that an older answer may replace a newer one. The cursor of
  the audit search is not bound to its filter, which the console drops on the
  next page. A pairing token is gone when the page is left or another Gateway is
  paired. A registration that is repeated after a lost answer is a conflict. A
  pairing whose Gateway is behind the first page is never put away. After a
  successful registration `event.currentTarget.reset()` (`app.tsx:415`) throws,
  since `currentTarget` is null after an `await`.

### Fairness

The safety runs assume none. `SessionHealthSweep` assumes that time passes, that
the timer of a running worker fires (`setTimeout` in
`apps/api/src/cloudlink-health-scheduler.ts`), that a sweep proceeds through its
batch (each `await` returns or throws, both end the row), and that an awaited
shutdown returns. It does not assume that a Gateway beats or that storage
works: failures are bounded by `MaxFailures` instead, and the bound includes
sweeps that outlive their lease, because two workers that are *always* slower
than a lease take rows from each other for ever. `SessionRowLocks` assumes that
PostgreSQL executes a statement it was given when the lock is free.
`AckDelivery` assumes that time passes and that each worker proceeds (is called
again by its scheduler, and its calls return or throw). It does not assume that
publications succeed in time: failures, deaths and deliveries that outlive their
lease are bounded by `MaxFailures`, replays by `MaxRequests`, because a worker
that is always too slow, or a Gateway that replays during every publication,
does starve the rows behind.

`IngressLifecycle` assumes that a connect is answered or times out, that what
failed is closed, that a handler which was begun comes to an end, that the timer
of a deadline fires, and that a process with nothing left exits. It assumes of
nobody that a subscription, a drain or a close is answered, or that a signal is
sent. `ApiLifecycle` assumes that a listen comes to something, that a request
which waits for no database is answered, and the same of deadline and exit; it
assumes of nobody that a query, a sweep or a close is answered. `StackPlanning` assumes that every port answers and that every process
ends, aborted or not (the engine kills it after its deadline). `FleetConsole`
assumes that requests are answered or fail and that the timer of two seconds
fires; strongly, because the bound on requests in flight, which may keep it from
polling, is one of the model and not of the browser.

In `workers` each assumption is about the step of one part within its scenario,
which is what it is in the specification of that part: in the other scenarios
the step is never enabled. Liveness is stated with `<>[]` and `[]<>` where a
state that is reached is kept ("a transaction ends for good", "again and again no
claimed token is shown"): there it says the same as `~>`, and is checked
with less effort.

## 4. Proofs

`SessionPlaneTypes` proves `Spec => []TypeOK` for any constants that satisfy
the named assumptions (`IntervalAssumption`, `NoneAssumption`,
`RepositoryAssumption`, `ChallengeAssumption`, `NoneIsNoRow`). The inductive
invariant is `TypeOK /\ PointersResolve`: the head names an existing row of its
Gateway, because a fence reads the row that the head names.

`SessionPlaneProofs` proves the invariants, the action properties and the refinement
of the session plane. Most of it rests on

    Inv == TypeOK /\ PointersResolve /\ IInv
    IInv == OneLiveSession /\ EpochFencing /\ ClosedWithReason
            /\ SilenceBeforeTimeout /\ OutboxTruthful /\ CopiesAreCurrent

`CopiesAreCurrent` is proved and not run: it is what the others rest on. None of
the parts is inductive alone. A heartbeat and a health completion write
a row that was computed from an old copy; that this does not break
`OneLiveSession` or `SilenceBeforeTimeout` follows only from
`CopiesAreCurrent`: a copy whose revision is still the stored one is a copy of
the stored row. That in turn needs every change of a row to raise its revision
(`RowsAdvance`), fencing included. `ClosedWithReason` links the state of a row
to its reason of closure, which is what the outbox events speak of.

| Theorem | States |
|---|---|
| `TypeCorrect` | `Spec => []TypeOK` |
| `OneConnection` | `Spec => []OneLiveSession` |
| `EpochsFence` | `Spec => []EpochFencing` |
| `TimeoutsAreJustified` | `Spec => []SilenceBeforeTimeout` |
| `OutboxTellsTheTruth` | `Spec => []OutboxTruthful` |
| `RevisionsIdentifyCopies` | `Spec => []CopiesAreCurrent` |
| `ClosedStaysClosed` | `Spec => ClosedIsFinal` |
| `NoHeartbeatIsLost` | `Spec => HeartbeatsAreKept` |
| `ResumesNeverRegress` | `Spec => []ResumeMonotone` |
| `ChallengesOpenOnce` | `Spec => []ChallengeOpensOnce` |
| `PlaneIsAuthority` | `Spec => ImplementsAuthority` |

`ResumeMonotone` is inductive with `Inv`: positions only grow, a new row takes those
of its transaction, no row changes them afterwards, and the epoch of a new row is
above all others of its Gateway (`EpochFencing`).

`ChallengeOpensOnce` needs `HandshakeInv`: a Gateway has one pending challenge
(`OnePendingChallenge`), the columns of a consumption are written together and
agree with the session they name (`ChallengeRows`), no two challenges name one
session (`OneChallengeEach`), every signed session is named by one
(`SignedByChallenge`), and a hello is dated after its challenge was issued, however
old its reading of the clock (`HelloAfterIssue`). That a hello is verified outside
of the transaction does no harm because the challenge is looked at again inside.

`PlaneIsAuthority` takes the actions one by one: an open is a grant, which replaces
the fenced owner and takes the next epoch in the same step, a completed timeout a
release, a recorded position an advance; everything else leaves owners, epochs and
positions alone. Owners are the unclosed *rows*, so that it rests on
`OneLiveSession` and on fencing and inserting being one transaction.

`TelemetryProofs` proves, for any set of deliveries, processes and workers, any
window, quota and history,

| Theorem | States |
|---|---|
| `TelemetryTypes` | `Spec => []TelemetryTypeOK` |
| `CursorNeverSkips` | `Spec => []CursorWithinHistory` |
| `AcknowledgedOnlyStored` | `Spec => []AcknowledgedIsStored` |
| `QuotaIsExact` | `Spec => []UsageIsExact` |
| `ReceiptsAlwaysStand` | `Spec => []ReceiptsStand` |
| `CursorKeepsUp` | `Spec => []CursorIsContiguous`, if the stream has a row |

The first three rest on the invariant `CursorWithinHistory /\ ReceiptsCarryHistory /\
BatchesWereDelivered /\ CallsCarryHistory /\ AcknowledgedIsStored`. Its idea is
that records are never deleted: what a call has read about them (up to the
cursor, up to where they follow on its batch) stays true although it is old,
with or without the lock on the stream. That is why `CursorWithinHistory` holds
even for a new stream, while `CursorIsContiguous` needs what was read to be still
*all* there is. `BatchesWereDelivered` and the assumption `DigestAssumption` (a
digest identifies a content) say that the receipt of a duplicate ends where the
replay ends.

`QuotaIsExact` and `ReceiptsAlwaysStand` come from `StoreInv`, the two properties
with the order of a batch (`BatchesRunForward`): the usage is the number of stored
positions, and grows by the length of the batch that is committed because that one
is disjoint from what is stored.

`CursorKeepsUp` has one hypothesis, and it is needed. `History >= 0` gives the
stream a row: `LockInv` then says that at most one call has read the stream and not
committed, and that what it has read is current. Without a row there is nothing to
lock and the property fails (run `telemetry_new_stream`). Batches may be of any
lengths: one that is admitted begins inside the window (`BeginsInReach`), so that the
read which closes the gap before it reaches its first position, and the cursor can
stop early only inside it (`postgres-telemetry-repository.ts:834`).

`IntegrationControlProofs` proves, for any jobs, callers, receipts, streams,
sessions and processes,

| Theorem | States |
|---|---|
| `TypeCorrect` | `Spec => []TypeOK` |
| `OneOffer` | `Spec => []OneOfferPerSession` |
| `OneIntent` | `Spec => []OneIntentPerJob` |
| `ContiguousEvidence` | `Spec => []EvidenceIsContiguous` |
| `AcknowledgedStored` | `Spec => []AcknowledgedIsStored` |

`OutboxInv` (a row is at its key; whatever a command has listed, is sending or
has sent is the stored offer of its session) holds because a stored offer never
changes except for its mark (`LedgerKept`). `IntentInv` adds that offers and
receipts follow the intent of their job, which a receipt is checked against
again inside its transaction. `EvidenceIsContiguous` is inductive with it:
`ReceiptIsAppended` says what one receipt does to the ledger, and the revision
of its intent then counts one place more.

`IntegrationProjectionProofs` proves, for any Integrations, streams, reports,
processes and changes of the session, and for both stores,

| Theorem | States |
|---|---|
| `ProjectionTypeCorrect` | `Spec => [](TypeOK /\ WorkTypeOK)` |
| `StreamsStayContiguous` | `Spec => []StreamsAreContiguous` |
| `AcknowledgedStaysApplied` | `Spec => []AcknowledgedIsApplied` |
| `ProjectionStaysSum` | `Spec => []ProjectionIsSum` |
| `ProjectionNeverBackwards` | `Spec => NeverBackwards` |

from the inductive invariant

    IInv == BatchesFit /\ InboxIsBacked /\ HistoryIsCurrent
            /\ StreamsAreContiguous /\ AcksAreStored /\ ProjectionIsSum

Evidence only grows, and the history has one topology of a generation. So a batch
that was validated before it is persisted, against a topology that may have been
replaced meanwhile, still fits one that is or was the Integration's (`BatchesFit`),
and is refused if that is not the current one. A delivery that is persisted takes
the position after the cursor (`StreamsAreContiguous`); a replay is answered only
if the delivery or the receipt is stored, whose effect is recorded
(`InboxIsBacked`). `AcknowledgedIsApplied` then follows from `AcksAreStored`. It is
assumed that a digest identifies a content (`DigestAssumption`).

`GovernedJobProofs` proves, for any jobs, requests, creations, orders, receipts
and number of commands,

| Theorem | States |
|---|---|
| `TypeCorrect` | `Spec => []TypeOK` |
| `ReceiptsAreFollowed` | `Spec => []ProjectionFollowsReceipts` |
| `AnswersAreOneHistory` | `Spec => []OneHistory` |
| `ResultsAreFinal` | `Spec => TerminalIsFinal` |

The invariant is the first three with `CallsFollow`: what a command holds
follows from the copy it has read (`Follows`), and that copy is a point of the
history of the stored job. Hence a copy whose revision is the stored one *is* the
stored job (`SameRevision`), and what is written follows on it. The transitions
are lemmas about one job (`ControlledJob`, `RecordedJob`, `ControlledFollows`,
`RecordedFollows`). That the receipts which follow on one another have a last one
(`FirstGap`, `EndExists`) is a least-number argument, for which the set of
intervals up to a gap is ordered by inclusion.

`ApiCommandsProofs` proves of the composition `ApiCommands`, for any number of
commands, workers, publishers, reporters and restarts, any requests and any
records they may bring,

| Theorem | States |
|---|---|
| `EnrolledOnce` | `ApiSpec => []OneEnrollment` |
| `EdgeFactsAlwaysStand` | `ApiSpec => []EdgeFactsStand` |
| `AlarmsFollowFacts` | `ApiSpec => []AlarmFollowsFacts` |
| `DeliveriesSayTruth` | `ApiSpec => []WebhookTruth` |
| `RecordsAlwaysStand` | `ApiSpec => []RecordsStand` |
| `PagesStayComplete` | `ApiSpec => []PagesAreComplete` |

Each part has an inductive invariant over its own variables and the clock:

| Invariant | Adds to the types and the property |
|---|---|
| `EnrollmentInv` | the revision of a row says how far it is, and nothing lies ahead of it; a command that is about to write has read the row that its transition is for |
| `DeploymentInv` | no observation is of an intent the cloud does not have; what a command will write is itself true to its evidence (`DeploymentIsTrue`) and goes on from its copy (`DeploymentGoesOn`) |
| `AlarmInv` | what is shown is the last of the facts and its gap is real (`AlarmShows`); it is acknowledged by who gave an order (`AlarmAcknowledged`) |
| `DeliveryInv` | what a worker holds is a state the delivery was in, with evidence of what the endpoint said (`DeliveryCopy`) |
| `ExportInv`, `SubscriptionInv` | what is to be written is made of the copy, which had no outcome, or was active, if it is the stored one |
| `RegistryInv` | what a command waits for tells what it has verified (`Verified`), and what is verified stays so |
| `ManifestInv` | every generation in the history was verified, and a request identifies one that is stored |
| `PagesInv` | what is on the pages lies up to the cursor, and what was there at the beginning is on them or still comes after it (`WalkStands`) |

The argument is nearly the same everywhere: what a command holds between its read
and its write is a state that its record was in; the record has gone on, and its
revision tells how far; so the copy whose revision is the stored one *is* the
record, and a write that is let through is the next state of it. That states go on
from one another is transitive (`Precedes`, `Shows`), which keeps old answers
behind the record. Alarms have no copies, for the store carries a command out in
one step; there the work is in the order of facts and in what the arrival of one
does to a gap.

The parts are put together in the last section: a step of one part moves the clock
by a tick or not at all (`ClockTicks`), so that for every other part it is a tick of
its own or a stutter (`PartsIdle`); hence a step of the composition is a step or a
stutter of each part (`PartsStep`). The assumptions are those of the modules
(`CommandsAssumption`), among them that `None` is no record (`NoneIsNoRecord`); TLC
evaluates them in `api_commands`.

A page is what its statement promises: a sequence, in order, of the rows that come
after the cursor, which leaves one out only if it is full and that one comes after
all of it (`FirstOf`). That there is such a sequence for every finite set is not
proved, being induction over the set, and not needed: without it a page would only
not be read. In the run there always is one. The order has to be transitive and
records of telemetry have to differ by their number, both of which are proved
(`BeforeIsTransitive`, `HistoryKeeps`). Rows that are written between two pages, also
those with a lower sequence that commit late, are beside the point, for the
property speaks of what was there when the caller began.

`WorkersProofs` proves of the composition `Workers`, for any numbers of sessions,
workers, transactions, rows, uplinks, plans and requests, and for any values of the
bounds,

| Theorem | States |
|---|---|
| `SweepsAreJustified` | `WorkersSpec => []SweepsStayJustified` |
| `PublishedIsAnswered` | `WorkersSpec => []PublishedMeansAnswered` |
| `OneLiveIsCommitted` | `WorkersSpec => []CommittedOneLive` |
| `UpdatesAreKept` | `WorkersSpec => NoLostUpdate` |
| `ClosesAreClean` | `WorkersSpec => []CleanClose` |
| `BridgeFailsClosed` | `WorkersSpec => []FailsClosed` |
| `PlansAlwaysStand` | `WorkersSpec => []PlansStand` |
| `UplinksAreTrue` | `WorkersSpec => []UplinkTruth` |
| `ConsoleStaysHonest` | `WorkersSpec => []ConsoleIsHonest` |

| Invariant | Adds to the types and the property |
|---|---|
| `SweepInv` | nothing: a copy that would still be written is of an overdue row, and every step keeps that, because a heartbeat outdates the copies of a row as it makes it young, and a lease that is taken over is no longer its first worker's |
| `DeliveryInv` | a worker that has published a row, and still holds it, published it after it was last asked for (`PublishedStands`): asking takes the row from its worker; rows are not removed (`ClaimsStand`) |
| `RowsInv` | who holds which lock, by the statement each transaction is at (`HeadLocked`, `RowsLocked`), and what each knows there (`TransactionsAreAt`): a copy is of a row that has gone on from it, and is the row itself once it is locked and compared |
| `IngressInv` | how far start and close may be apart, and what one leaves to the other (`StartAndClose`): whoever closes the connection of a started ingress has drained it, whichever of the two notices the signal |
| `ApiInv` | how far a close has come and what it has stopped by then (`ApiClosing`) |
| `BridgeInv` | what is handled came under a session the bridge may serve, the one it served last or, if it is signed, a newer one (`MayServe`), and its assertion allows only what was declared since the process began (`HandlingStands`, `AssertionsStand`); a report is recorded before the stream moves, and the stream moves before it is acknowledged |
| `PlanningInv` | what each stage says about the workspace, the lease, the process, the artifact and the result (`PlanIsAt`); what an answered plan has left behind and says so (`AnswerStands`); what a record stands for (`RecordsStand`) |
| `UplinkInv` | epochs are given out in order and only the newest session can be live (`NewestOpened`); what a handler or the health worker has read of a session went on from there (`CallsFollow`, `SweepFollows`), and an accepted heartbeat is below the mark |
| `FleetInv` | no list, in flight or shown, is ahead of the API (`Reached`), a request that goes on after a token was told is of a Gateway whose token was told (`FetchStands`), and so is the pairing (`PairingStands`) |
| `DetailInv` | at most one reading is not given up, and it is of what is selected |

`CommittedOneLive` and `NoLostUpdate` are what allows the session plane to take a
transaction as one step, so that the theorems about the plane do not hang on
anything that was only looked at for a few transactions. The locks are the heart of
it: `RowsInv` does not say that transactions exclude one another, it says exactly
who holds what, and that what was read under a lock cannot have moved.
`NoLostUpdate` is an action property and follows from the invariant step by step
(`RowsNext` proves both).

A step of the composition is one of one part, and leaves the variables of the
others alone (`PartsApart`); an invariant speaks of its own variables only, so that
it survives a step of another part (`SweepStutters`, ...).

The assumptions are those of the parts (`WorkersAssumption`), which TLC evaluates
in `workers`. Three say something of the code. The kinds of transactions are
apart: a command is one kind (`RowLocksAssumption`). A digest identifies the
content of a manifest (`BridgeAssumption`), as `runtime-manifest.ts` has it with
SHA-256. The grace of a signed heartbeat is at least one interval
(`UplinkAssumption`), as it is three. The others say that `None` is no record,
worker, row, answer or state.

Proved and not listed among the properties of a run are the type invariants,
`CursorWithinHistory`, `StreamsAreContiguous`, `CopiesAreCurrent`, `ClosedIsFinal`
and `TerminalIsFinal`: the invariants rest on them, and a check of them adds nothing
to their proofs.

Only model-checked are the liveness properties (`SilentSessionsClose`,
`AcksAreSettled`, `WorkEnds`, `ShutdownsEnd`), since the prover has no rule for
fairness here.
Every invariant and every action property that a passing run checks is proved, the
refinement of `SessionAuthority` included. No module with theorems has anything that
rests on induction over data or on a recursive operator. The documented properties
that the code does not have are shown by counterexamples of TLC.

## 5. Deviations

Definitions introduced by "A deviation" are plausible mistakes in the code (a
dropped revision check, a fence that forgets the revision, a lease that never
expires). They are not part of any specification. Each stands before the
definition it would replace, and replacing it breaks the property that
`PROJECT.json` pairs with it.

## 6. Not modelled

- Provider discovery and capability definitions validate static descriptions and
  keep no state.
- The routes of the API and the tools of the MCP interface decode a request,
  authenticate it and call one use case; the fleet routes are in `FleetConsole`
  as the answers they give, the process around them in `ApiLifecycle`, and the health
  scheduler in `SessionHealthSweep`.
- In the console, the audit page, forms, sessions and the layout of dashboards.
- Observability exports metrics and spans and has no state of the domain.
- Contracts, scripts, test harnesses and deployment files.
- Within the parts that are modelled: permissions and confirmations (a refused
  command changes nothing), encodings, signatures as such, and the audit and
  outbox rows, which are written in the transaction of the change they speak of.
- Several Gateways, streams or records at once where their rows never meet.

## 7. Plan

The operations that change state are modelled, and the theorems cover every
invariant and action property of the runs. What could come next:

1. Models of what is partly modelled: the join of three reads in the fleet query, the
   deprecation of artifacts and the expiry of exports once a use case calls them, and
   the audit page of the console.
2. The step from `SessionRowLocks` to the session plane as a refinement of modules.
   Now it is an argument: what the statements commit is what the atomic steps write.
3. Several streams under one quota, if ingestion ever looks at more than one at once.
