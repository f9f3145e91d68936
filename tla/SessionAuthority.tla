-------------------------- MODULE SessionAuthority --------------------------
(***************************************************************************)
(* What the session plane promises, without rows, revisions, leases or     *)
(* challenges: each Gateway's connection has at most one owner, ownership  *)
(* is granted under a fresh and growing epoch, a grant takes it away from  *)
(* the previous owner in the same instant, an identity is granted once,    *)
(* and durable stream positions advance one at a time under an owner.      *)
(***************************************************************************)
EXTENDS Naturals

CONSTANTS Gateways, Sessions, Streams

VARIABLES
    owners,     \* the set of sessions that own a Gateway's connection
    epoch,      \* the epoch of the latest grant
    granted,    \* every session that ever owned a connection
    position    \* durable stream positions

authorityVars == <<owners, epoch, granted, position>>

Init ==
    /\ owners = [g \in Gateways |-> {}]
    /\ epoch = [g \in Gateways |-> 0]
    /\ granted = {}
    /\ position = [g \in Gateways |-> [st \in Streams |-> 0]]

Grant(g, s) ==
    /\ s \notin granted
    /\ owners' = [owners EXCEPT ![g] = {s}]
    /\ epoch' = [epoch EXCEPT ![g] = @ + 1]
    /\ granted' = granted \cup {s}
    /\ UNCHANGED position

Release(g) ==
    /\ owners[g] # {}
    /\ owners' = [owners EXCEPT ![g] = {}]
    /\ UNCHANGED <<epoch, granted, position>>

Advance(g, st) ==
    /\ owners[g] # {}
    /\ position' = [position EXCEPT ![g][st] = @ + 1]
    /\ UNCHANGED <<owners, epoch, granted>>

Next ==
    \E g \in Gateways :
        \/ \E s \in Sessions : Grant(g, s)
        \/ Release(g)
        \/ \E st \in Streams : Advance(g, st)

Spec == Init /\ [][Next]_authorityVars
=============================================================================
