------------------------------ MODULE DataExport ------------------------------
(***************************************************************************)
(* One data export: RequestDataExport, and ReportDataExportOutcome, with   *)
(* which the workers that produce the object say that they started, are    *)
(* ready or failed.  An outcome is read, decided and written in separate   *)
(* steps; starting what is running changes nothing, so that two workers    *)
(* may well produce the same export.                                       *)
(***************************************************************************)
EXTENDS Naturals

CONSTANTS
    None,
    Workers,
    Requests,       \* request identities
    Expiry,         \* when the export expires
    MaxTime         \* a bound on the clock

ExportAssumption == Expiry \in Nat \ {0} /\ MaxTime \in Nat

Outcomes == {"ready", "failed"}
Export == [state : {"queued", "running"} \cup Outcomes, by : Workers \cup {None},
           revision : Nat \ {0}]

VARIABLES
    now,
    export,         \* by: the worker whose object or failure it names
    requests,       \* the export as a request was answered with it
    reports,        \* outcomes between their read and their write
    shown           \* the outcomes a caller was shown

vars == <<now, export, requests, reports, shown>>

Report == [request : Requests, expected : Nat, next : Export]

\* None is no export and no report.
NoneIsNoRecord == None \notin Export \cup Report

TypeOK ==
    /\ now \in 0..MaxTime
    /\ export \in Export \cup {None}
    /\ requests \in [Requests -> Export \cup {None}]
    /\ reports \in [Workers -> Report \cup {None}]
    /\ shown \subseteq Export

Init ==
    /\ now = 0
    /\ export = None
    /\ requests = [r \in Requests |-> None]
    /\ reports = [w \in Workers |-> None]
    /\ shown = {}

Tick == now < MaxTime /\ now' = now + 1 /\ UNCHANGED <<export, requests, reports, shown>>

createDataExport == [state |-> "queued", by |-> None, revision |-> 1]

RequestDataExport(r) ==
    /\ now < Expiry
    /\ export = None
    /\ requests[r] = None
    /\ export' = createDataExport
    /\ requests' = [requests EXCEPT ![r] = createDataExport]
    /\ UNCHANGED <<now, reports, shown>>

\* startDataExport, completeDataExport and failDataExport.  What runs is not stopped
\* by its expiry.
Decided(w, action) ==
    IF action = "start"
    THEN IF export.state = "running" THEN export
         ELSE [export EXCEPT !.state = "running", !.revision = @ + 1]
    ELSE [export EXCEPT !.state = action, !.by = w, !.revision = @ + 1]

MayDecide(action) ==
    IF action = "start"
    THEN export.state = "running" \/ (export.state = "queued" /\ now < Expiry)
    ELSE export.state = "running"

ReadOutcome(w, r, action) ==
    /\ reports[w] = None
    /\ export # None
    /\ MayDecide(action)
    /\ reports' = [reports EXCEPT ![w] = [request |-> r, expected |-> export.revision,
                                          next |-> Decided(w, action)]]
    /\ UNCHANGED <<now, export, requests, shown>>

\* A deviation: whoever writes last is believed.
isAnyRevision(report) == TRUE
isExpectedRevision(report) == export.revision = report.expected

\* replace.
WriteOutcome(w) ==
    LET report == reports[w] IN
    /\ report # None
    /\ requests[report.request] = None
    /\ isExpectedRevision(report)
    /\ export' = report.next
    /\ requests' = [requests EXCEPT ![report.request] = report.next]
    /\ reports' = [reports EXCEPT ![w] = None]
    /\ shown' = shown \cup {report.next}
    /\ UNCHANGED now

\* The request was answered with just that before.
ReplayOutcome(w) ==
    LET report == reports[w] IN
    /\ report # None
    /\ requests[report.request] = report.next
    /\ reports' = [reports EXCEPT ![w] = None]
    /\ shown' = shown \cup {report.next}
    /\ UNCHANGED <<now, export, requests>>

\* A conflict, a failure of the store, a worker that is gone.
Fail(w) ==
    /\ reports[w] # None
    /\ reports' = [reports EXCEPT ![w] = None]
    /\ UNCHANGED <<now, export, requests, shown>>

Next ==
    \/ Tick
    \/ \E r \in Requests : RequestDataExport(r)
    \/ \E w \in Workers :
         \/ \E r \in Requests, action \in {"start"} \cup Outcomes : ReadOutcome(w, r, action)
         \/ WriteOutcome(w) \/ ReplayOutcome(w) \/ Fail(w)

Spec == Init /\ [][Next]_vars

----------------------------------------------------------------------------
\* An outcome stands: of the workers that produced the same export one is believed,
\* and what a caller was shown as the result stays the result.
OutcomeStands ==
    \A e \in shown : export # None /\ export.revision >= e.revision
                     /\ (e.state \in Outcomes => export = e)
=============================================================================
