------------------------------ MODULE FleetConsole ------------------------------
(***************************************************************************)
(* The fleet page of the web console.  Whoever uses it registers a Gateway *)
(* and gets its enrollment token, which the API tells once and the page    *)
(* shows until the Gateway is seen to have claimed it; while it is shown,  *)
(* the list is read again and again.  A request is answered in its own     *)
(* time, or fails, done or not; whoever leaves the page loses what the     *)
(* page held, while its requests go on.  The list belongs to the console   *)
(* and stays.                                                              *)
(*                                                                         *)
(* The edge (Claim) is outside.  The API is modelled by the answers its    *)
(* routes give (GatewayEnrollment has the commands behind them).  The list *)
(* of audit events, the badge of the API, the session, and whether the     *)
(* form is open and what it says are left out.                             *)
(***************************************************************************)
EXTENDS Naturals, FiniteSets

CONSTANTS
    None,
    Gateways,       \* identities, in the order they are listed in
    MaxFetches,     \* a bound on requests in flight, of which no two are alike
    PageSize,       \* 50 in the code
    MaxFailures     \* a bound on requests that fail

States == {"registered", "awaiting-claim", "claimed"}

ConsoleAssumption ==
    /\ Gateways \subseteq Nat /\ MaxFetches \in Nat
    /\ PageSize \in Nat \ {0} /\ MaxFailures \in Nat
    /\ None \notin States \cup {"ok", "refused"}

List == [Gateways -> States \cup {None}]
Empty == [g \in Gateways |-> None]

VARIABLES
    enrollments,    \* what the API has stored, by Gateway
    fleet,          \* the list as the console last read it
    page,           \* the fleet page, or None while another one is shown
    fetches,        \* requests in flight
    failures

vars == <<enrollments, fleet, page, fetches, failures>>

\* The identity the form will register, and the Gateway whose token is shown.
Page == [submitting : BOOLEAN, gatewayId : Gateways \cup {None},
         pairing : Gateways \cup {None}]

NoneIsNoRecord == None \notin Page

\* A fetch goes through up to three requests.  "task" is who sent it: the form, the
\* button of a Gateway, or a mere reload; "attached" says that the page that sent it
\* is still there.
Fetch == [task : {"register", "issue", "reload"}, gateway : Gateways \cup {None},
          request : {"register", "issue", "list"}, attached : BOOLEAN,
          answer : {None, "ok", "refused"}, list : List]

TypeOK ==
    /\ enrollments \in List
    /\ fleet \in List
    /\ page \in Page \cup {None}
    /\ fetches \subseteq Fetch /\ Cardinality(fetches) <= MaxFetches
    /\ failures \in 0..MaxFailures

Init ==
    /\ enrollments = Empty
    /\ fleet = Empty
    /\ page = None
    /\ fetches = {}
    /\ failures = 0

----------------------------------------------------------------------------
(* The API and the edge.                                                   *)

\* GET /api/v1/fleet/gateways: the first page; the console asks for no other.
Listed ==
    [g \in Gateways |->
       IF Cardinality({h \in Gateways : h < g /\ enrollments[h] # None}) < PageSize
       THEN enrollments[g] ELSE None]

Becomes(f, fetch) == fetches' = (fetches \ {f}) \cup {fetch}
Replies(f, answer) == Becomes(f, [f EXCEPT !.answer = answer])
Sent(f, request) == f.request = request /\ f.answer = None

ServeList(f) ==
    /\ Sent(f, "list")
    /\ Becomes(f, [f EXCEPT !.answer = "ok", !.list = Listed])
    /\ UNCHANGED <<enrollments, fleet, page, failures>>

\* POST /api/v1/fleet/gateways: 409 if it exists.  Every request has a new key.
ServeRegister(f) ==
    LET g == f.gateway IN
    /\ Sent(f, "register")
    /\ IF enrollments[g] = None
       THEN /\ enrollments' = [enrollments EXCEPT ![g] = "registered"]
            /\ Replies(f, "ok")
       ELSE /\ Replies(f, "refused")
            /\ UNCHANGED enrollments
    /\ UNCHANGED <<fleet, page, failures>>

\* POST .../enrollment-claims: 409 unless it is only registered, so a token is told once.
ServeIssue(f) ==
    LET g == f.gateway IN
    /\ Sent(f, "issue")
    /\ IF enrollments[g] = "registered"
       THEN /\ enrollments' = [enrollments EXCEPT ![g] = "awaiting-claim"]
            /\ Replies(f, "ok")
       ELSE /\ Replies(f, "refused")
            /\ UNCHANGED enrollments
    /\ UNCHANGED <<fleet, page, failures>>

\* POST .../enrollment-claims:claim, by the edge that was given the token.
Claim(g) ==
    /\ enrollments[g] = "awaiting-claim"
    /\ enrollments' = [enrollments EXCEPT ![g] = "claimed"]
    /\ UNCHANGED <<fleet, page, fetches, failures>>

----------------------------------------------------------------------------
(* The console.                                                            *)

Fresh == {g \in Gateways : enrollments[g] = None
                             /\ \A f \in fetches : f.gateway # g}

NewId == IF Fresh = {} THEN {None} ELSE Fresh

Send(task, gateway, request) ==
    /\ Cardinality(fetches) < MaxFetches
    /\ fetches' = fetches \cup
         {[task |-> task, gateway |-> gateway, request |-> request,
           attached |-> (task # "reload"), answer |-> None, list |-> Empty]}

\* The page is opened, with an identity for the next Gateway; it reads no list itself.
Enter ==
    /\ page = None
    /\ \E g \in NewId :
         page' = [submitting |-> FALSE, gatewayId |-> g, pairing |-> None]
    /\ UNCHANGED <<enrollments, fleet, fetches, failures>>

\* navigate: what the page held is gone, its requests are not.
Leave ==
    /\ page # None
    /\ page' = None
    /\ fetches' = {[f EXCEPT !.attached = FALSE] : f \in fetches}
    /\ UNCHANGED <<enrollments, fleet, failures>>

\* loadFleet: when the console is mounted, and by a button while no other list is read.
Reload ==
    /\ \A f \in fetches : f.request # "list"
    /\ Send("reload", None, "list")
    /\ UNCHANGED <<enrollments, fleet, page, failures>>

\* The timer, as long as a token is shown, whatever is in flight.
Poll ==
    /\ page # None /\ page.pairing # None
    /\ Send("reload", None, "list")
    /\ UNCHANGED <<enrollments, fleet, page, failures>>

Submit ==
    /\ page # None /\ ~page.submitting /\ page.gatewayId # None
    /\ page' = [page EXCEPT !.submitting = TRUE]
    /\ Send("register", page.gatewayId, "register")
    /\ UNCHANGED <<enrollments, fleet, failures>>

\* The button of a Gateway that is listed as registered; nothing disables it.
Issue(g) ==
    /\ page # None /\ fleet[g] = "registered"
    /\ page' = [page EXCEPT !.submitting = TRUE]
    /\ Send("issue", g, "issue")
    /\ UNCHANGED <<enrollments, fleet, failures>>

Dismiss ==
    /\ page # None /\ page.pairing # None
    /\ page' = [page EXCEPT !.pairing = None]
    /\ UNCHANGED <<enrollments, fleet, fetches, failures>>

\* A deviation: what is shown stays until it is closed.
asShown(shown, list) == shown
\* What is rendered next: a pairing whose Gateway is listed as claimed is put away.
settled(shown, list) ==
    IF shown # None /\ shown.pairing # None /\ list[shown.pairing] = "claimed"
    THEN [shown EXCEPT !.pairing = None] ELSE shown

\* The promise of a fetch ends.  A form that succeeds gets a new identity, one that
\* fails keeps its own.
Succeeds(fetch) ==
    IF ~fetch.attached \/ fetch.task = "reload" THEN {page}
    ELSE IF fetch.task = "issue"
    THEN {[page EXCEPT !.pairing = fetch.gateway, !.submitting = FALSE]}
    ELSE {[page EXCEPT !.pairing = fetch.gateway, !.submitting = FALSE, !.gatewayId = g] :
            g \in NewId}

Fails(fetch) ==
    IF ~fetch.attached \/ fetch.task = "reload" THEN page
    ELSE [page EXCEPT !.submitting = FALSE]

Then(f, request) == Becomes(f, [f EXCEPT !.request = request, !.answer = None])
Done(f) == fetches' = fetches \ {f}

\* registerGateway, then issueEnrollment, which waits for the list to be read again.
Registered(f) ==
    /\ f.request \in {"register", "issue"}
    /\ f.answer = "ok"
    /\ Then(f, IF f.request = "register" THEN "issue" ELSE "list")
    /\ UNCHANGED <<enrollments, fleet, page, failures>>

Refused(f) ==
    /\ f.answer = "refused"
    /\ page' = Fails(f)
    /\ Done(f)
    /\ UNCHANGED <<enrollments, fleet, failures>>

\* loadFleet: the reading that ends last is the one that is shown.
Ends(f, list) ==
    /\ fleet' = list
    /\ \E shown \in Succeeds(f) : page' = settled(shown, list)
    /\ Done(f)
    /\ UNCHANGED enrollments

Loaded(f) ==
    /\ f.request = "list" /\ f.answer = "ok"
    /\ Ends(f, f.list)
    /\ UNCHANGED failures

\* A request, or its answer, does not arrive.  For a list that is all the same: what
\* was shown stays, and whoever waited goes on.
Lost(f) ==
    /\ failures < MaxFailures
    /\ failures' = failures + 1
    /\ IF f.request = "list" THEN Ends(f, fleet)
       ELSE /\ page' = Fails(f)
            /\ Done(f)
            /\ UNCHANGED <<enrollments, fleet>>

Use ==
    \/ Enter \/ Leave \/ Dismiss \/ Reload \/ Submit
    \/ \E g \in Gateways : Claim(g) \/ Issue(g)
    \/ \E f \in fetches : Lost(f)

\* Requests go on being answered, answers to be received, and the timer runs.  (That
\* there may be no room for another request is of the model, so it does not put the
\* timer off.)
ServeSome == \E f \in fetches : ServeList(f)
LoadSome == \E f \in fetches : Loaded(f)
CommandSome ==
    \E f \in fetches : ServeRegister(f) \/ ServeIssue(f) \/ Registered(f) \/ Refused(f)

Fairness == SF_vars(Poll) /\ WF_vars(ServeSome) /\ WF_vars(LoadSome) /\ WF_vars(CommandSome)

Next == Use \/ Poll \/ ServeSome \/ LoadSome \/ CommandSome

Spec == Init /\ [][Next]_vars /\ Fairness

----------------------------------------------------------------------------
\* A token is shown for a Gateway that the API told it for, and never next to a list
\* that has the Gateway as claimed, whichever reading of the list ended last; and the
\* list shows nothing that the API has not got to.
PairingIsTrue ==
    /\ (page # None /\ page.pairing # None) =>
         /\ enrollments[page.pairing] \in {"awaiting-claim", "claimed"}
         /\ fleet[page.pairing] # "claimed"
    /\ \A g \in Gateways :
         /\ fleet[g] = "claimed" => enrollments[g] = "claimed"
         /\ fleet[g] = "awaiting-claim" => enrollments[g] # "registered"

Overdue == page # None /\ page.pairing # None /\ Listed[page.pairing] = "claimed"

\* A token that was claimed is put away in the end.  (Unless its Gateway is behind the
\* first page of the list.)
PairingIsLeft == []<>~Overdue
=============================================================================
