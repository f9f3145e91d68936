-------------------------- MODULE SessionChallenge --------------------------
(***************************************************************************)
(* The Gateway-signed handshake.  A Gateway asks for a challenge; the      *)
(* cloud stores one pending challenge per Gateway and rate-limits the      *)
(* requests; a signed hello answers the challenge, consumes it and opens a *)
(* session in the same transaction.  A hello is looked up and its          *)
(* signature verified outside any transaction, so several hellos for one   *)
(* challenge, or for a challenge that is being replaced, can be in flight  *)
(* at once.                                                                *)
(***************************************************************************)
EXTENDS SessionRepository

CONSTANTS
    Challenges,         \* challenge identities; the generator never repeats one
    HelloStates,        \* request states: nonce, offered versions, positions
    Fingerprints,       \* authentication fingerprints of verified hellos
    Acceptors,          \* hellos that can be in flight at once
    ChallengeTtl,       \* challengeTtlMs
    RateWindow,         \* rateLimitWindowMs
    RateMaximum         \* rateLimitMaximumRequests

ASSUME ChallengeAssumption ==
    /\ None \notin Challenges
    /\ None \notin Fingerprints
    /\ {ChallengeTtl, RateWindow, RateMaximum} \subseteq Nat \ {0}

VARIABLES
    rate,           \* the challenge window of a Gateway's head row
    challenge,      \* cloudlink_session_challenges; None where there is no row
    hellos          \* signed hellos between their lookup and their transaction

challengeVars == <<rate, challenge, hellos>>

ChallengeInit ==
    /\ rate = [g \in Gateways |-> [startedAt |-> None, count |-> 0]]
    /\ challenge = [c \in Challenges |-> None]
    /\ hellos = [a \in Acceptors |-> None]

----------------------------------------------------------------------------
(* Issuing.                                                                *)

\* The window starts again once it is over.
ResetsWindow(g, at) ==
    rate[g].startedAt = None \/ at >= rate[g].startedAt + RateWindow

RateLimited(g, at) == ~ResetsWindow(g, at) /\ rate[g].count >= RateMaximum

CountRequest(g, at) ==
    rate' = [rate EXCEPT ![g] =
               IF ResetsWindow(g, at)
               THEN [startedAt |-> at, count |-> 1]
               ELSE [rate[g] EXCEPT !.count = @ + 1]]

\* The unconsumed, unsuperseded challenges of a Gateway: a partial unique
\* index allows one.
Pending(g) ==
    {c \in Challenges : /\ challenge[c] # None
                        /\ challenge[c].gateway = g
                        /\ challenge[c].consumedAt = None
                        /\ challenge[c].supersededAt = None}

Unexpired(c, at) == at < challenge[c].expiresAt

\* A new challenge takes the place of an expired pending one.
issue(g, generation, q, c, at) ==
    /\ challenge[c] = None
    /\ ~RateLimited(g, at)
    /\ \A p \in Pending(g) : ~Unexpired(p, at)
    /\ CountRequest(g, at)
    /\ challenge' =
         [x \in Challenges |->
            IF x = c
            THEN [gateway |-> g, generation |-> generation, request |-> q,
                  issuedAt |-> at, expiresAt |-> at + ChallengeTtl,
                  fingerprint |-> None, session |-> None,
                  consumedAt |-> None, supersededAt |-> None]
            ELSE IF x \in Pending(g) THEN [challenge[x] EXCEPT !.supersededAt = at]
            ELSE challenge[x]]
    /\ UNCHANGED <<hellos, repositoryVars>>

\* An unexpired pending challenge is returned again to the same request and
\* refused to a different one.  The request counts against the limit either
\* way.
IssueAgain(g, at) ==
    /\ ~RateLimited(g, at)
    /\ \E p \in Pending(g) : Unexpired(p, at)
    /\ CountRequest(g, at)
    /\ UNCHANGED <<challenge, hellos, repositoryVars>>

----------------------------------------------------------------------------
(* Accepting.                                                              *)

\* The hello names a challenge of its own credential generation that is not
\* superseded and repeats its request state; the challenge is unexpired when
\* the handler reads the clock.  The signature is verified after that.
AcceptHello(a, c, generation, q, f) ==
    /\ hellos[a] = None
    /\ challenge[c] # None
    /\ challenge[c].supersededAt = None
    /\ challenge[c].generation = generation
    /\ challenge[c].request = q
    /\ now < challenge[c].expiresAt
    /\ hellos' = [hellos EXCEPT ![a] =
                    [challenge |-> c, generation |-> generation,
                     fingerprint |-> f, evaluatedAt |-> now]]
    /\ UNCHANGED <<rate, challenge, repositoryVars>>

\* A deviation: the transaction trusts that the challenge is unconsumed.
canConsumeAgain(hello) ==
    LET row == challenge[hello.challenge]
    IN  /\ row.supersededAt = None
        /\ row.generation = hello.generation
        /\ hello.evaluatedAt < row.expiresAt

\* The transaction sees the challenge again: unsuperseded, of the same
\* binding, not consumed, unexpired at the hello's clock reading.
CanConsume(hello) ==
    LET row == challenge[hello.challenge]
    IN  /\ row.supersededAt = None
        /\ row.generation = hello.generation
        /\ row.fingerprint = None
        /\ hello.evaluatedAt < row.expiresAt

ConsumeChallenge(hello, s) ==
    challenge' = [challenge EXCEPT ![hello.challenge] =
                    [@ EXCEPT !.fingerprint = hello.fingerprint,
                              !.session = s,
                              !.consumedAt = hello.evaluatedAt]]

\* Consuming the challenge and opening the session are one transaction; the
\* opening time was read after the verification.
acceptAndOpen(a, s, openedAt) ==
    /\ hellos[a] # None
    /\ openedAt >= hellos[a].evaluatedAt
    /\ CanConsume(hellos[a])
    /\ FenceAndInsert(challenge[hellos[a].challenge].gateway, s,
                      hellos[a].generation, openedAt, TRUE)
    /\ ConsumeChallenge(hellos[a], s)
    /\ hellos' = [hellos EXCEPT ![a] = None]
    /\ UNCHANGED <<rate, now, lease, openRequests, cursor, outbox, heartbeats, sweeps>>

\* Every other outcome writes nothing: the signature is wrong, the challenge
\* was superseded, or it was consumed (by this very hello: a replay, answered
\* with the session it opened; by another: a conflict), the transaction threw
\* and was rolled back, or the process died.
HelloDrop(a) ==
    /\ hellos[a] # None
    /\ hellos' = [hellos EXCEPT ![a] = None]
    /\ UNCHANGED <<rate, challenge, repositoryVars>>

----------------------------------------------------------------------------
IssueNext ==
    \E g \in Gateways, at \in RecentInstants :
        \/ \E generation \in Generations, q \in HelloStates, c \in Challenges :
              issue(g, generation, q, c, at)
        \/ IssueAgain(g, at)

HelloNext ==
    \E a \in Acceptors :
        \/ \E c \in Challenges, generation \in Generations, q \in HelloStates,
              f \in Fingerprints : AcceptHello(a, c, generation, q, f)
        \/ \E s \in Sessions, openedAt \in RecentInstants :
              acceptAndOpen(a, s, openedAt)
        \/ HelloDrop(a)

ChallengeNext == IssueNext \/ HelloNext
=============================================================================
