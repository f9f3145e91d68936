-------------------------- MODULE WebhookSubscription --------------------------
(***************************************************************************)
(* One Webhook subscription: CreateWebhookSubscription, and                *)
(* DisableWebhookSubscription, which reads it, decides and writes.         *)
(* Disabling again changes nothing and is answered as a success.           *)
(***************************************************************************)
EXTENDS Naturals

CONSTANTS
    None,
    Callers,        \* commands that can be in flight at once
    Requests,
    MaxTime         \* a bound on the clock

SubscriptionAssumption == MaxTime \in Nat

Subscription == [state : {"active", "disabled"}, createdAt : 0..MaxTime,
                 disabledAt : 0..MaxTime \cup {None}, revision : Nat \ {0}]

VARIABLES
    now,
    subscription,
    requests,       \* the subscription as a request was answered with it
    calls           \* commands between their read and their write

vars == <<now, subscription, requests, calls>>

Call == [request : Requests, expected : Nat, next : Subscription]

\* None is no subscription and no call.
NoneIsNoRecord == None \notin Subscription \cup Call

TypeOK ==
    /\ now \in 0..MaxTime
    /\ subscription \in Subscription \cup {None}
    /\ requests \in [Requests -> Subscription \cup {None}]
    /\ calls \in [Callers -> Call \cup {None}]

Init ==
    /\ now = 0
    /\ subscription = None
    /\ requests = [r \in Requests |-> None]
    /\ calls = [c \in Callers |-> None]

Tick == now < MaxTime /\ now' = now + 1 /\ UNCHANGED <<subscription, requests, calls>>

createWebhookSubscription ==
    [state |-> "active", createdAt |-> now, disabledAt |-> None, revision |-> 1]

Create(r) ==
    /\ subscription = None
    /\ requests[r] = None
    /\ subscription' = createWebhookSubscription
    /\ requests' = [requests EXCEPT ![r] = createWebhookSubscription]
    /\ UNCHANGED <<now, calls>>

disableWebhookSubscription ==
    IF subscription.state = "disabled" THEN subscription
    ELSE [subscription EXCEPT !.state = "disabled", !.disabledAt = now, !.revision = @ + 1]

DisableRead(c, r) ==
    /\ calls[c] = None
    /\ subscription # None
    /\ calls' = [calls EXCEPT ![c] = [request |-> r, expected |-> subscription.revision,
                                      next |-> disableWebhookSubscription]]
    /\ UNCHANGED <<now, subscription, requests>>

\* A deviation: the last writer wins.
isAnyRevision(call) == TRUE
isExpectedRevision(call) == subscription.revision = call.expected

DisableWrite(c) ==
    LET call == calls[c] IN
    /\ call # None
    /\ requests[call.request] = None
    /\ isExpectedRevision(call)
    /\ subscription' = call.next
    /\ requests' = [requests EXCEPT ![call.request] = call.next]
    /\ calls' = [calls EXCEPT ![c] = None]
    /\ UNCHANGED now

\* A replay, a conflict, a failure of the store.
Return(c) ==
    /\ calls[c] # None
    /\ calls' = [calls EXCEPT ![c] = None]
    /\ UNCHANGED <<now, subscription, requests>>

Next ==
    \/ Tick
    \/ \E r \in Requests : Create(r)
    \/ \E c \in Callers :
         (\E r \in Requests : DisableRead(c, r)) \/ DisableWrite(c) \/ Return(c)

Spec == Init /\ [][Next]_vars

----------------------------------------------------------------------------
\* Disabled is for good, at the time that was answered first.
DisabledStands ==
    \A r \in Requests : requests[r] # None =>
        /\ subscription # None
        /\ requests[r].state = "disabled" => subscription = requests[r]
=============================================================================
