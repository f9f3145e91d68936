---------------------------- MODULE MCApiCommands ----------------------------
(***************************************************************************)
(* An instance of ApiCommands for TLC.  The parts share no state, so a     *)
(* behaviour is one of one of them, the "scenario", while the other parts  *)
(* stay where they began.                                                  *)
(***************************************************************************)
EXTENDS ApiCommands, TLC

CONSTANTS j1, p1, p2, x, y, z, a, b, r1, r2

\* Handlers are alike, and so are the requests that carry nothing else.
ProcessSymmetry == Permutations({p1, p2}) \cup Permutations({r1, r2})

----------------------------------------------------------------------------
(* Governed jobs.                                                          *)

\* The number of a request tells the command.
MCCreations == {[request |-> 0, job |-> j1, explicit |-> TRUE, expires |-> 1],
                [request |-> 1, job |-> j1, explicit |-> FALSE, expires |-> 1]}

Order(n, action) == [request |-> n, job |-> j1, action |-> action]
MCOrders == {Order(2, "confirm"), Order(3, "queue"), Order(4, "offer"),
             Order(5, "expire"), Order(6, "unknown"), Order(7, "cancel")}

M(n, id, sequence, kind, evidence) ==
    [request |-> n, job |-> j1, receipt |-> [id |-> id, sequence |-> sequence,
                                             kind |-> kind, evidence |-> evidence]]

\* The job runs and succeeds; it is also said to be rejected, and to succeed
\* without evidence.
MCMessages == {M(8, x, 1, "accepted", FALSE), M(9, y, 2, "running", FALSE),
               M(10, z, 3, "succeeded", TRUE), M(11, y, 1, "rejected", FALSE),
               M(12, z, 2, "succeeded", FALSE)}

----------------------------------------------------------------------------
(* The other records.                                                      *)

\* Two processes, of which one remembers the tokens it has made, and two credential
\* requests.
Command(kind, n, value) == [kind |-> kind, request |-> n, value |-> value]
MCServiceOf == 1 :> x @@ 2 :> y
MCEnrollmentCommands == {Command("register", 1, 1), Command("issue", 1, 1),
                         Command("claim", 1, 1), Command("claim", 1, 2)}

\* A rollout that is reported as applied, or failed and then rolled back, while it is
\* paused or given up by one request.
Reported(n, id, generation, kind, artifact) ==
    [request |-> n, observation |-> [id |-> id, generation |-> generation, kind |-> kind,
                                     artifact |-> artifact]]
MCStarts == {[request |-> 0, artifact |-> a, generation |-> 1]}
MCControls == {[request |-> 1, action |-> "pause"], [request |-> 1, action |-> "mark-unknown"]}
MCRollbacks == {[request |-> 4, artifact |-> b, generation |-> 2]}
MCDeploymentReports == {Reported(5, x, 1, "applied", a), Reported(6, y, 1, "failed", None),
                        Reported(7, z, 2, "applied", b)}

\* One occurrence in two generations: facts out of order, one that is sent with other
\* content, one that clears what another updates, and one of another Gateway.
Fact(id, generation, sequence, kind, value) ==
    [id |-> id, occurrence |-> "o", generation |-> generation, sequence |-> sequence,
     kind |-> kind, content |-> value]
Brought(n, origin, fact) == [request |-> n, gateway |-> origin, fact |-> fact]
MCAlarmDeliveries == {Brought(1, "g", Fact("a", 0, 0, "raised", 1)),
                      Brought(2, "g", Fact("b", 0, 1, "updated", 1)),
                      Brought(3, "g", Fact("c", 0, 2, "cleared", 1)),
                      Brought(4, "g", Fact("d", 1, 0, "raised", 1)),
                      Brought(5, "g", Fact("e", 1, 1, "cleared", 1)),
                      Brought(6, "g", Fact("a", 0, 0, "raised", 1)),
                      Brought(6, "g", Fact("a", 0, 0, "raised", 2)),
                      Brought(6, "g", Fact("f", 0, 1, "cleared", 1)),
                      Brought(7, "h", Fact("k", 0, 3, "raised", 1))}
MCAlarmOrders == {[request |-> 8, subject |-> "u", occurrence |-> "o"],
                  [request |-> 9, subject |-> "v", occurrence |-> "o"],
                  [request |-> 10, subject |-> "u", occurrence |-> "o"]}

\* Two revisions that are after one channel, a request that is sent with both, and a
\* revision that is sent with two contents.
Publication(n, revision, digest, channel) ==
    [request |-> n, revision |-> revision, digest |-> digest, channel |-> channel]
MCPublications == {Publication(1, a, 1, x), Publication(1, b, 2, x),
                   Publication(2, b, 2, x), Publication(3, a, 2, y)}

\* A request that is sent with two generations, generations out of order, and a manifest
\* whose checksum is that of another.
Manifest(n, generation, value, digest, at, until, isSigned) ==
    [request |-> n, generation |-> generation, content |-> value, digest |-> digest,
     observedAt |-> at, expires |-> until, signed |-> isSigned]
MCManifestReports == {Manifest(1, 1, 1, 1, 0, 1, FALSE), Manifest(1, 2, 2, 2, 0, 2, TRUE),
                      Manifest(2, 2, 1, 1, 1, 2, FALSE), Manifest(3, 1, 2, 1, 0, 2, TRUE)}

----------------------------------------------------------------------------
VARIABLE scenario

MCInit ==
    /\ scenario \in {"jobs", "enrollment", "deployment", "alarms", "webhooks", "export",
                     "subscriptions", "artifacts", "queries", "manifests"}
    /\ ApiInit
    /\ scenario # "queries" => list = "fleet"

In(name, Part) == scenario = name /\ Part /\ UNCHANGED scenario

MCNext ==
    \/ In("jobs", InJobs) \/ In("enrollment", InEnrollment)
    \/ In("deployment", InDeployments) \/ In("alarms", InAlarms)
    \/ In("webhooks", InWebhooks) \/ In("export", InExports)
    \/ In("subscriptions", InSubscriptions) \/ In("artifacts", InRegistry)
    \/ In("queries", InQueries) \/ In("manifests", InManifests)

MCSpec == MCInit /\ [][MCNext]_<<scenario, apiVars>>
=============================================================================
