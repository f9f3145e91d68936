---------------------------- MODULE WebhookDelivery ----------------------------
(***************************************************************************)
(* One Webhook delivery: EnqueueWebhookDelivery, ProcessWebhookDelivery,   *)
(* which takes an attempt, calls the endpoint and records what it said,    *)
(* and RedriveWebhookDelivery.  Workers process the same delivery at once: *)
(* an attempt that is in flight is taken up by whoever finds it, since its *)
(* worker may be gone.  The store remembers every answered request, the    *)
(* two writes of a Process under keys of their own.                        *)
(***************************************************************************)
EXTENDS Integers, SequencesExt

CONSTANTS
    None,
    Workers,
    Requests,
    MaxAttempts,
    MaxTime         \* a bound on the clock

WebhookAssumption == MaxAttempts \in 1..20 /\ MaxTime \in Nat

Answers == {"accepted", "retryable", "refused"}
Outcomes == Answers \cup {"in-flight"}
Final == {"delivered", "dead-lettered"}

\* due: when the next attempt may begin, 0 if any time will do.
\* evidence: the attempts of all drives, in order.
Evidence == [attempt : 1..MaxAttempts, at : 0..MaxTime, outcome : Outcomes]
Delivery ==
    [state : {"pending", "delivering", "retrying"} \cup Final,
     attempts : 0..MaxAttempts, redrives : Nat, due : Nat,
     evidence : Seq(Evidence), revision : Nat \ {0}]
Phases == {"begin", "send", "complete", "redrive"}

VARIABLES
    now,
    delivery,
    requests,       \* the delivery as the answer to a write showed it
    calls,
    answers         \* what the endpoint said, attempt by attempt

vars == <<now, delivery, requests, calls, answers>>

\* The two writes of a Process are known by the request and their own suffix.
Keys == Requests \X {"", ":begin", ":complete"}
KeyOf(call) == <<call.request, [redrive |-> "", begin |-> ":begin",
                                complete |-> ":complete"][call.phase]>>

Call == [request : Requests, phase : Phases, current : Delivery,
         next : Delivery, at : 0..MaxTime]

\* None is no delivery and no call.
NoneIsNoRecord == None \notin Delivery \cup Call

TypeOK ==
    /\ now \in 0..MaxTime
    /\ delivery \in Delivery \cup {None}
    /\ requests \in [Keys -> Delivery \cup {None}]
    /\ calls \in [Workers -> Call \cup {None}]
    /\ answers \subseteq [attempt : Nat \ {0}, answer : Answers]

Init ==
    /\ now = 0
    /\ delivery = None
    /\ requests = [k \in Keys |-> None]
    /\ calls = [w \in Workers |-> None]
    /\ answers = {}

----------------------------------------------------------------------------
(* Transitions.                                                            *)

createWebhookDelivery ==
    [state |-> "pending", attempts |-> 0, redrives |-> 0, due |-> 0,
     evidence |-> <<>>, revision |-> 1]

\* beginWebhookDelivery.  An attempt in flight is taken up as it is.
MayBegin(d, at) ==
    \/ d.state = "delivering"
    \/ d.state \in {"pending", "retrying"} /\ d.due <= at /\ d.attempts < MaxAttempts
beginWebhookDelivery(d, at) ==
    IF d.state = "delivering" THEN d
    ELSE [d EXCEPT !.state = "delivering", !.attempts = @ + 1, !.revision = @ + 1,
                   !.evidence = Append(@, [attempt |-> d.attempts + 1, at |-> at,
                                           outcome |-> "in-flight"])]

\* succeedWebhookDelivery and failWebhookDelivery, of a delivery that is in flight.
willRetry(d, answer) == answer = "retryable" /\ d.attempts < MaxAttempts
Completed(d, answer, at) ==
    LET done == [d EXCEPT !.evidence[Len(d.evidence)].outcome = answer, !.revision = @ + 1]
    IN CASE answer = "accepted" -> [done EXCEPT !.state = "delivered"]
         [] willRetry(d, answer) -> [done EXCEPT !.state = "retrying", !.due = at + 1]
         [] OTHER -> [done EXCEPT !.state = "dead-lettered", !.due = 0]

redriveWebhookDelivery(d, at) ==
    [d EXCEPT !.state = "pending", !.attempts = 0, !.redrives = @ + 1, !.due = at,
              !.revision = @ + 1]

----------------------------------------------------------------------------
(* Commands.                                                               *)

Tick == now < MaxTime /\ now' = now + 1 /\ UNCHANGED <<delivery, requests, calls, answers>>

Begin(w, r, phase, next) ==
    /\ calls[w] = None
    /\ calls' = [calls EXCEPT ![w] = [request |-> r, phase |-> phase, current |-> delivery,
                                      next |-> next, at |-> now]]
    /\ UNCHANGED <<now, delivery, requests, answers>>

\* EnqueueWebhookDelivery reads nothing first.
Enqueue(r) ==
    /\ delivery = None
    /\ requests[<<r, "">>] = None
    /\ delivery' = createWebhookDelivery
    /\ requests' = [requests EXCEPT ![<<r, "">>] = createWebhookDelivery]
    /\ UNCHANGED <<now, calls, answers>>

\* ProcessWebhookDelivery, up to its first write.  Of one that has come to an end it
\* answers what there is.
ProcessRead(w, r) ==
    /\ delivery # None
    /\ delivery.state \notin Final
    /\ MayBegin(delivery, now)
    /\ Begin(w, r, "begin", beginWebhookDelivery(delivery, now))

RedriveRead(w, r) ==
    /\ delivery # None
    /\ delivery.state = "dead-lettered"
    /\ Begin(w, r, "redrive", redriveWebhookDelivery(delivery, now))

Return(w) == calls' = [calls EXCEPT ![w] = None]

\* Begun, a Process goes on to the endpoint; the others are at their end.
GoOn(w) ==
    IF calls[w].phase = "begin"
    THEN calls' = [calls EXCEPT ![w].phase = "send", ![w].current = calls[w].next]
    ELSE Return(w)

\* A deviation: the last writer wins.
isAnyRevision(call) == TRUE
isExpectedRevision(call) == delivery.revision = call.current.revision

\* replace: the request is looked up first, then the revision.
Write(w) ==
    LET call == calls[w] IN
    /\ call # None
    /\ call.phase # "send"
    /\ requests[KeyOf(call)] = None
    /\ isExpectedRevision(call)
    /\ delivery' = call.next
    /\ requests' = [requests EXCEPT ![KeyOf(call)] = call.next]
    /\ GoOn(w)
    /\ UNCHANGED <<now, answers>>

\* The request is known and led to just this: the command goes on with that answer.
WriteAgain(w) ==
    LET call == calls[w] IN
    /\ call # None
    /\ call.phase # "send"
    /\ requests[KeyOf(call)] = call.next
    /\ GoOn(w)
    /\ UNCHANGED <<now, delivery, requests, answers>>

\* The endpoint answers.  One who took the attempt up by a clock behind that of its
\* beginning cannot record what it said.
Send(w) ==
    LET call == calls[w]
        active == call.current
    IN /\ call # None
       /\ call.phase = "send"
       /\ \E answer \in Answers :
            /\ answers' = answers \cup {[attempt |-> Len(active.evidence), answer |-> answer]}
            /\ calls' = [calls EXCEPT ![w] =
                  IF call.at < Last(active.evidence).at THEN None
                  ELSE [call EXCEPT !.phase = "complete",
                                    !.next = Completed(active, answer, call.at)]]
       /\ UNCHANGED <<now, delivery, requests>>

\* A refusal or a failure of the store, a sender that throws, a worker that is gone.
Fail(w) ==
    /\ calls[w] # None
    /\ Return(w)
    /\ UNCHANGED <<now, delivery, requests, answers>>

Step(w) ==
    \/ \E r \in Requests : ProcessRead(w, r) \/ RedriveRead(w, r)
    \/ Write(w) \/ WriteAgain(w) \/ Send(w) \/ Fail(w)

Next == Tick \/ (\E r \in Requests : Enqueue(r)) \/ \E w \in Workers : Step(w)

Spec == Init /\ [][Next]_vars

----------------------------------------------------------------------------
\* A delivery says what the endpoint said, however many workers tried it at once and
\* whichever of them was heard last: no recorded outcome without that answer to that
\* attempt, no outcome rewritten or lost once a caller was shown it, no delivery
\* that ends as a dead letter while its endpoint could be tried again.
Shows(a, b) ==
    /\ a.revision <= b.revision /\ a.redrives <= b.redrives
    /\ Len(a.evidence) <= Len(b.evidence)
    /\ \A i \in DOMAIN a.evidence : a.evidence[i].outcome \in {"in-flight", b.evidence[i].outcome}

WebhookTruth ==
    /\ \A k \in DOMAIN requests : requests[k] # None =>
          delivery # None /\ Shows(requests[k], delivery)
    /\ delivery # None =>
         LET e == delivery.evidence IN
         /\ \A i \in DOMAIN e : IF e[i].outcome = "in-flight"
               THEN i = Len(e) /\ delivery.state = "delivering"
               ELSE [attempt |-> i, answer |-> e[i].outcome] \in answers
         /\ delivery.state = "delivered" => Last(e).outcome = "accepted"
         /\ delivery.state = "dead-lettered" =>
              \/ Last(e).outcome = "refused"
              \/ Last(e).outcome = "retryable" /\ Last(e).attempt = MaxAttempts
=============================================================================
