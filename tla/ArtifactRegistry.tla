--------------------------- MODULE ArtifactRegistry ---------------------------
(***************************************************************************)
(* The artifact registry: PublishArtifactRevision has the content and the  *)
(* signature verified, one after the other, and then stores the revision,  *)
(* its channel and the answer to the request in one step.  Content and     *)
(* trusted signatures may arrive while it waits.                           *)
(***************************************************************************)
EXTENDS Naturals

CONSTANTS
    None,
    Publishers,     \* commands that can be in flight at once
    Publications    \* revision, digest and channel of a request

Revisions == {p.revision : p \in Publications}
Channels == {p.channel : p \in Publications}
Digests == {p.digest : p \in Publications}
PublicationRequests == {p.request : p \in Publications}

VARIABLES
    content,        \* digests the content store has
    trusted,        \* digests with a signature that verifies
    revisions,      \* the digest of a published revision
    channels,       \* the revision of a release channel
    requests,       \* the publication a request was answered with
    publishing      \* commands, and what they wait for

vars == <<content, trusted, revisions, channels, requests, publishing>>

Publishing == [publication : Publications, next : {"content", "signature", "store"}]

\* None is nothing that is published, and no command.
NoneIsNoRecord ==
    /\ None \notin Digests /\ None \notin Revisions
    /\ None \notin Publications /\ None \notin Publishing

TypeOK ==
    /\ content \subseteq Digests /\ trusted \subseteq Digests
    /\ revisions \in [Revisions -> Digests \cup {None}]
    /\ channels \in [Channels -> Revisions \cup {None}]
    /\ requests \in [PublicationRequests -> Publications \cup {None}]
    /\ publishing \in [Publishers -> Publishing \cup {None}]

Init ==
    /\ content = {} /\ trusted = {}
    /\ revisions = [r \in Revisions |-> None]
    /\ channels = [c \in Channels |-> None]
    /\ requests = [r \in PublicationRequests |-> None]
    /\ publishing = [p \in Publishers |-> None]

putContent(d) ==
    /\ d \notin content
    /\ content' = content \cup {d}
    /\ UNCHANGED <<trusted, revisions, channels, requests, publishing>>

trustSignature(d) ==
    /\ d \notin trusted
    /\ trusted' = trusted \cup {d}
    /\ UNCHANGED <<content, revisions, channels, requests, publishing>>

GoOn(p, next) ==
    /\ publishing' = [publishing EXCEPT ![p].next = next]
    /\ UNCHANGED <<content, trusted, revisions, channels, requests>>

Publish(p, publication) ==
    /\ publishing[p] = None
    /\ publishing' = [publishing EXCEPT ![p] =
                        [publication |-> publication, next |-> "content"]]
    /\ UNCHANGED <<content, trusted, revisions, channels, requests>>

At(p, next) == publishing[p] # None /\ publishing[p].next = next

verifyContent(p) ==
    /\ At(p, "content")
    /\ publishing[p].publication.digest \in content
    /\ GoOn(p, "signature")

verifySignature(p) ==
    /\ At(p, "signature")
    /\ publishing[p].publication.digest \in trusted
    /\ GoOn(p, "store")

\* A deviation: a channel is moved to what is published on it.
channelIsMoved(publication) == TRUE

\* A channel that has another revision is not moved.
channelIsFree(publication) == channels[publication.channel] \in {None, publication.revision}

\* publish of the registry: request, revision and channel are looked up in that order.
Store(p) ==
    LET publication == publishing[p].publication IN
    /\ At(p, "store")
    /\ requests[publication.request] = None
    /\ revisions[publication.revision] = None
    /\ channelIsFree(publication)
    /\ revisions' = [revisions EXCEPT ![publication.revision] = publication.digest]
    /\ channels' = [channels EXCEPT ![publication.channel] = publication.revision]
    /\ requests' = [requests EXCEPT ![publication.request] = publication]
    /\ publishing' = [publishing EXCEPT ![p] = None]
    /\ UNCHANGED <<content, trusted>>

\* A replay, a conflict, a verification or a store that fails.
Return(p) ==
    /\ publishing[p] # None
    /\ publishing' = [publishing EXCEPT ![p] = None]
    /\ UNCHANGED <<content, trusted, revisions, channels, requests>>

Next ==
    \/ \E d \in Digests : putContent(d) \/ trustSignature(d)
    \/ \E p \in Publishers :
         \/ \E publication \in Publications : Publish(p, publication)
         \/ verifyContent(p) \/ verifySignature(p) \/ Store(p) \/ Return(p)

Spec == Init /\ [][Next]_vars

----------------------------------------------------------------------------
\* What was answered as published stays published, on its channel, with content and
\* signature that were verified; and whatever is published was answered.
PublishedStands ==
    /\ \A r \in PublicationRequests : requests[r] # None =>
         /\ revisions[requests[r].revision] = requests[r].digest
         /\ channels[requests[r].channel] = requests[r].revision
    /\ \A r \in Revisions : revisions[r] # None =>
         /\ revisions[r] \in content \cap trusted
         /\ \E q \in PublicationRequests : requests[q] # None /\ requests[q].revision = r
=============================================================================
