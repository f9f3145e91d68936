----------------------------- MODULE ApiCommands -----------------------------
(***************************************************************************)
(* The commands and queries of the application layer that work on records  *)
(* of their own, side by side.  A command reads a record, decides, and     *)
(* writes it with the answer to the request: governed jobs, the enrollment *)
(* of a Gateway, edge deployments, alarms, Webhook deliveries and          *)
(* subscriptions, data exports, the artifact registry, and the runtime     *)
(* manifests that Gateways report.  A query reads a list page by page.     *)
(* The records are stored apart and no command touches two of them: the    *)
(* parts take their steps in any order, and only the clock is shared.  The *)
(* API hosts enrollment and the queries; the other use cases have no host  *)
(* yet.  What each part promises is a definition of its own module.        *)
(***************************************************************************)
EXTENDS GovernedJob

CONSTANTS EnrollmentCalls, Services, Remembering, ServiceOf, EnrollmentCommands, MaxToken
CONSTANTS Artifacts, DeploymentRequests, Starts, Controls, Rollbacks, DeploymentReports
CONSTANTS Occurrences, AlarmDeliveries, AlarmOrders
CONSTANTS Workers, WebhookRequests, MaxAttempts, ExportRequests, Expiry
CONSTANTS Callers, SubscriptionRequests
CONSTANTS Publishers, Publications
CONSTANTS ListedGateways, Integrations, Places, EventActions, Limits
CONSTANTS Reporters, ManifestReports

VARIABLES gateway, issues, minted, enrolling, enrolled
VARIABLES deployment, deploymentRequests, published, deploying
VARIABLES facts, ingested, alarm, acknowledged
VARIABLES delivery, deliveryRequests, delivering, endpointAnswers
VARIABLES export, exportRequests, reports, shown
VARIABLES subscription, subscriptionRequests, disabling
VARIABLES content, trusted, revisions, channels, publicationRequests, publishing
VARIABLES list, rows, open, ahead, walk
VARIABLES credential, observations, latest, identified, reporting, told, viewed

jobVars == <<jobs, requests, calls>>
enrollmentVars == <<gateway, issues, minted, enrolling, enrolled>>
deploymentVars == <<deployment, deploymentRequests, published, deploying>>
alarmVars == <<facts, ingested, alarm, acknowledged>>
deliveryVars == <<delivery, deliveryRequests, delivering, endpointAnswers>>
exportVars == <<export, exportRequests, reports, shown>>
subscriptionVars == <<subscription, subscriptionRequests, disabling>>
artifactVars == <<content, trusted, revisions, channels, publicationRequests, publishing>>
queryVars == <<list, rows, open, ahead, walk>>
manifestVars == <<credential, observations, latest, identified, reporting, told, viewed>>
apiVars == <<now, jobVars, enrollmentVars, deploymentVars, alarmVars, deliveryVars,
             exportVars, subscriptionVars, artifactVars, queryVars, manifestVars>>

Enrollment == INSTANCE GatewayEnrollment WITH
    Calls <- EnrollmentCalls, Commands <- EnrollmentCommands,
    calls <- enrolling, answers <- enrolled
Deployments == INSTANCE EdgeDeployment WITH
    Requests <- DeploymentRequests, Reports <- DeploymentReports,
    requests <- deploymentRequests, calls <- deploying
Alarms == INSTANCE AlarmProjection WITH
    Deliveries <- AlarmDeliveries, Orders <- AlarmOrders,
    deliveries <- ingested, current <- alarm, orders <- acknowledged
Webhooks == INSTANCE WebhookDelivery WITH
    Requests <- WebhookRequests,
    requests <- deliveryRequests, calls <- delivering, answers <- endpointAnswers
Exports == INSTANCE DataExport WITH Requests <- ExportRequests, requests <- exportRequests
Subscriptions == INSTANCE WebhookSubscription WITH
    Requests <- SubscriptionRequests, requests <- subscriptionRequests, calls <- disabling
Registry == INSTANCE ArtifactRegistry WITH requests <- publicationRequests
Queries == INSTANCE PagedQueries WITH
    Gateways <- ListedGateways, Actions <- EventActions, kind <- list
Manifests == INSTANCE RuntimeManifests WITH Reports <- ManifestReports

ASSUME CommandsAssumption ==
    /\ Enrollment!EnrollmentAssumption /\ Enrollment!NoneIsNothing
    /\ Deployments!DeploymentAssumption /\ Deployments!NoneIsNoRecord
    /\ Alarms!AlarmAssumption /\ Alarms!NoneIsNoRecord
    /\ Webhooks!WebhookAssumption /\ Webhooks!NoneIsNoRecord
    /\ Exports!ExportAssumption /\ Exports!NoneIsNoRecord
    /\ Subscriptions!SubscriptionAssumption /\ Subscriptions!NoneIsNoRecord
    /\ Registry!NoneIsNoRecord
    /\ Queries!PagesAssumption /\ Queries!NoneIsNoRecord
    /\ Manifests!ManifestAssumption /\ Manifests!NoneIsNoRecord

ApiInit ==
    /\ Init /\ Enrollment!Init /\ Deployments!Init /\ Alarms!Init /\ Webhooks!Init
    /\ Exports!Init /\ Subscriptions!Init /\ Registry!Init /\ Manifests!Init /\ Queries!Init

InJobs ==
    /\ Next
    /\ UNCHANGED <<enrollmentVars, deploymentVars, alarmVars, deliveryVars,
                   exportVars, subscriptionVars, artifactVars, queryVars, manifestVars>>

InEnrollment ==
    /\ Enrollment!Next
    /\ UNCHANGED <<jobVars, deploymentVars, alarmVars, deliveryVars,
                   exportVars, subscriptionVars, artifactVars, queryVars, manifestVars>>

InDeployments ==
    /\ Deployments!Next
    /\ UNCHANGED <<now, jobVars, enrollmentVars, alarmVars, deliveryVars,
                   exportVars, subscriptionVars, artifactVars, queryVars, manifestVars>>

InAlarms ==
    /\ Alarms!Next
    /\ UNCHANGED <<now, jobVars, enrollmentVars, deploymentVars, deliveryVars,
                   exportVars, subscriptionVars, artifactVars, queryVars, manifestVars>>

InWebhooks ==
    /\ Webhooks!Next
    /\ UNCHANGED <<jobVars, enrollmentVars, deploymentVars, alarmVars,
                   exportVars, subscriptionVars, artifactVars, queryVars, manifestVars>>

InExports ==
    /\ Exports!Next
    /\ UNCHANGED <<jobVars, enrollmentVars, deploymentVars, alarmVars,
                   deliveryVars, subscriptionVars, artifactVars, queryVars, manifestVars>>

InSubscriptions ==
    /\ Subscriptions!Next
    /\ UNCHANGED <<jobVars, enrollmentVars, deploymentVars, alarmVars,
                   deliveryVars, exportVars, artifactVars, queryVars, manifestVars>>

InRegistry ==
    /\ Registry!Next
    /\ UNCHANGED <<now, jobVars, enrollmentVars, deploymentVars, alarmVars,
                   deliveryVars, exportVars, subscriptionVars, queryVars, manifestVars>>

InQueries ==
    /\ Queries!Next
    /\ UNCHANGED <<now, jobVars, enrollmentVars, deploymentVars, alarmVars,
                   deliveryVars, exportVars, subscriptionVars, artifactVars, manifestVars>>

InManifests ==
    /\ Manifests!Next
    /\ UNCHANGED <<jobVars, enrollmentVars, deploymentVars, alarmVars,
                   deliveryVars, exportVars, subscriptionVars, artifactVars, queryVars>>

ApiNext ==
    \/ InJobs \/ InEnrollment \/ InDeployments \/ InAlarms
    \/ InWebhooks \/ InExports \/ InSubscriptions \/ InRegistry
    \/ InQueries \/ InManifests

ApiSpec == ApiInit /\ [][ApiNext]_apiVars

----------------------------------------------------------------------------
\* A Gateway is enrolled once, with the token that was told (GatewayEnrollment).
OneEnrollment == Enrollment!OneEnrollment
\* What the edge reported stands in what a deployment shows (EdgeDeployment).
EdgeFactsStand == Deployments!EdgeFactsStand
\* The alarm that is shown follows from the facts that are stored (AlarmProjection).
AlarmFollowsFacts == Alarms!AlarmFollowsFacts
\* A Webhook delivery says what the endpoint answered (WebhookDelivery).
WebhookTruth == Webhooks!WebhookTruth
\* What a caller was told of an export, of a disabled subscription, of a published
\* artifact or of a reported manifest stands (DataExport, WebhookSubscription,
\* ArtifactRegistry, RuntimeManifests).
RecordsStand ==
    /\ Exports!OutcomeStands /\ Subscriptions!DisabledStands
    /\ Registry!PublishedStands /\ Manifests!ManifestsStand
\* What was listed when a caller began is on the pages, once, in order (PagedQueries).
PagesAreComplete == Queries!PagesAreComplete
=============================================================================
