------------------------- MODULE MCTelemetryIngestion -------------------------
(* Instances of TelemetryIngestion for TLC. *)
EXTENDS TelemetryIngestion

CONSTANTS s1, s2, s3, x, y, z

D(name, first, last, digest, session) ==
    [request |-> <<name, first>>, first |-> first, last |-> last, digest |-> digest,
     session |-> session, generation |-> IF session = s3 THEN 2 ELSE 1]

MCAcks == [session : {s1, s2, s3}, position : Positions]

\* Single records as the bridge delivers them, out of order: one is replayed in
\* a second session under a new request, in a third with a new credential, and
\* comes with other content.
BridgeDeliveries ==
    {D("a", p, p, x, s1) : p \in Positions}
      \cup {D("b", 1, 1, x, s2), D("a", 1, 1, x, s3), D("a", 1, 1, y, s1)}

\* Beside them direct calls with several records, which overlap.
AllDeliveries ==
    BridgeDeliveries \cup {D("c", 1, 2, z, None), D("d", 2, 3, z, None)}

NewStream == -1
=============================================================================
