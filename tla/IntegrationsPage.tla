---------------------------- MODULE IntegrationsPage ----------------------------
(***************************************************************************)
(* The page of the web console that shows what integrations reported: a    *)
(* catalog, read page by page, and the projection of the integration that  *)
(* is selected.  Readings are answered in any order and may fail.  A       *)
(* reading of a projection is aborted when something else is selected or   *)
(* the session is renewed; a reading of the catalog never is.              *)
(***************************************************************************)
EXTENDS Naturals

CONSTANTS
    None,
    Integrations,   \* what can be selected
    Readings,       \* of a projection, in flight at once
    Loads           \* of the catalog, in flight at once

VARIABLES
    selected,       \* the integration, or None
    detail,         \* the pane next to the catalog
    readings,       \* of projections, in flight: for what, and aborted or not
    catalog,        \* what is shown of the catalog
    loads           \* readings of the catalog, in flight

vars == <<selected, detail, readings, catalog, loads>>

\* projection: whose it is.
Detail == [projection : Integrations \cup {None}, error : BOOLEAN, loading : BOOLEAN]
Catalog == [shown : BOOLEAN, error : BOOLEAN, loading : BOOLEAN]
Reading == [integration : Integrations, aborted : BOOLEAN]

NoneIsNoRecord == None \notin Integrations \cup Reading

TypeOK ==
    /\ selected \in Integrations \cup {None}
    /\ detail \in Detail
    /\ readings \in [Readings -> Reading \cup {None}]
    /\ catalog \in Catalog
    /\ loads \subseteq Loads

Nothing == [projection |-> None, error |-> FALSE, loading |-> FALSE]
Waiting == [projection |-> None, error |-> FALSE, loading |-> TRUE]

\* The page is mounted: nothing is selected, and the catalog is being read.
Init ==
    /\ selected = None
    /\ detail = Nothing
    /\ readings = [r \in Readings |-> None]
    /\ catalog = [shown |-> FALSE, error |-> FALSE, loading |-> TRUE]
    /\ \E l \in Loads : loads = {l}

----------------------------------------------------------------------------
(* The projection of the selected integration.                             *)

\* A deviation: what was asked for before is left to come.
leave == readings
\* The effect's cleanup.
abort ==
    [r \in Readings |-> IF readings[r] = None THEN None
                        ELSE [readings[r] EXCEPT !.aborted = TRUE]]

\* The effect: what was shown is cleared, and the projection is asked for.
Ask(integration) ==
    \E r \in Readings :
        /\ readings[r] = None
        /\ readings' = [abort EXCEPT ![r] = [integration |-> integration, aborted |-> FALSE]]
        /\ detail' = Waiting

Select(integration) ==
    /\ catalog.shown /\ selected # integration
    /\ selected' = integration
    /\ Ask(integration)
    /\ UNCHANGED <<catalog, loads>>

\* By the button of the pane, or by selecting it again.
Deselect ==
    /\ selected # None
    /\ selected' = None
    /\ readings' = abort
    /\ detail' = Nothing
    /\ UNCHANGED <<catalog, loads>>

Done(r) == readings' = [readings EXCEPT ![r] = None]

Receive(r) ==
    /\ readings[r] # None /\ ~readings[r].aborted
    /\ Done(r)
    /\ detail' = [detail EXCEPT !.projection = readings[r].integration, !.loading = FALSE]
    /\ UNCHANGED <<selected, catalog, loads>>

Fail(r) ==
    /\ readings[r] # None /\ ~readings[r].aborted
    /\ Done(r)
    /\ detail' = [detail EXCEPT !.error = TRUE, !.loading = FALSE]
    /\ UNCHANGED <<selected, catalog, loads>>

\* Whatever an aborted reading comes to.
Ignore(r) ==
    /\ readings[r] # None /\ readings[r].aborted
    /\ Done(r)
    /\ UNCHANGED <<selected, detail, catalog, loads>>

----------------------------------------------------------------------------
(* The catalog.                                                            *)

\* load: the first page again, or the next one.
Load(l) ==
    /\ l \notin loads
    /\ loads' = loads \cup {l}
    /\ catalog' = [catalog EXCEPT !.loading = TRUE, !.error = FALSE]

LoadCatalog(l) == Load(l) /\ UNCHANGED <<selected, detail, readings>>

\* The session is renewed: both effects run again.
Renew(l) ==
    /\ Load(l)
    /\ IF selected = None THEN UNCHANGED <<readings, detail>> ELSE Ask(selected)
    /\ UNCHANGED selected

\* One reading of the catalog ends; the others go on, and the last to end is shown.
Loaded(l) ==
    /\ l \in loads
    /\ loads' = loads \ {l}
    /\ catalog' = [catalog EXCEPT !.shown = TRUE, !.loading = FALSE]
    /\ UNCHANGED <<selected, detail, readings>>

LoadFails(l) ==
    /\ l \in loads
    /\ loads' = loads \ {l}
    /\ catalog' = [shown |-> FALSE, error |-> TRUE, loading |-> FALSE]
    /\ UNCHANGED <<selected, detail, readings>>

Next ==
    \/ \E i \in Integrations : Select(i)
    \/ Deselect
    \/ \E r \in Readings : Receive(r) \/ Fail(r) \/ Ignore(r)
    \/ \E l \in Loads : LoadCatalog(l) \/ Renew(l) \/ Loaded(l) \/ LoadFails(l)

Spec == Init /\ [][Next]_vars

----------------------------------------------------------------------------
\* The pane shows the projection of what is selected, or says that it is still waiting,
\* or that it failed, and only one of them; nothing of a reading that was given up.
DetailIsOfSelection ==
    /\ selected = None => detail = Nothing
    /\ selected # None =>
         /\ detail.projection \in {None, selected}
         /\ detail.loading <=> \E r \in Readings : readings[r] # None /\ ~readings[r].aborted
         /\ detail.loading => detail = Waiting
         /\ ~detail.loading => (detail.error <=> detail.projection = None)

\* A catalog that is not shown is being read, or is said to have failed.
CatalogIsAnswered ==
    (~catalog.shown /\ loads = {}) => catalog.error

PageIsHonest == DetailIsOfSelection /\ CatalogIsAnswered
=============================================================================
