---------------------------- MODULE PagedQueries ----------------------------
(***************************************************************************)
(* The lists that are read a page at a time, while what they list grows:   *)
(* integrations (ListIntegrationProjections), Gateways                     *)
(* (ListFleetGateways), audit events (SearchAuditEvents) and the telemetry *)
(* of a stream (GetTelemetryHistory).  Every page is a statement of its    *)
(* own; from one to the next the caller takes a cursor.  Nothing that is   *)
(* listed is ever deleted.  One list and one caller are looked at.         *)
(***************************************************************************)
EXTENDS Naturals, Sequences

CONSTANTS
    None,
    Gateways,       \* of the catalog, by number
    Integrations,   \* of a Gateway, by number
    Places,         \* of a Gateway in the fleet, an audit event, a telemetry record
    Actions,        \* of audit events
    Limits          \* the page sizes a caller asks for

PagesAssumption ==
    /\ Gateways \cup Integrations \cup Places \cup Actions \subseteq Nat
    /\ Limits \subseteq Nat \ {0}

Kinds == {"catalog", "fleet", "audit", "history"}

VARIABLES
    kind,           \* the list
    rows,           \* what is committed
    open,           \* rows of transactions that have their place but did not commit
    ahead,          \* rows with a time the reading process has not come to yet
    walk            \* what one caller asked for, and was given

vars == <<kind, rows, open, ahead, walk>>

\* An integration is found by its Gateway and its own name, the others by one number.
RowsOf(list) ==
    CASE list = "catalog" -> Gateways \X Integrations
      [] list = "audit" -> Places \X Actions
      [] OTHER -> Places \X {0}
Row == RowsOf(kind)
Filters ==
    CASE kind = "catalog" -> Gateways \cup {None}
      [] kind = "audit" -> Actions \cup {None}
      [] OTHER -> {None}

Walk == [filter : Filters, cursor : Row \cup {None}, seen : Seq(Row),
         ended : BOOLEAN, before : SUBSET Row]

NoneIsNoRecord == \A list \in Kinds : None \notin RowsOf(list)

TypeOK ==
    /\ kind \in Kinds
    /\ rows \subseteq Row /\ open \subseteq Row /\ ahead \subseteq rows
    /\ walk \in Walk \cup {None}

Init ==
    /\ kind \in Kinds
    /\ rows = {} /\ open = {} /\ ahead = {}
    /\ walk = None

Numbers(set) == {row[1] : row \in set}

----------------------------------------------------------------------------
(* What is written.                                                        *)

\* An integration, a Gateway or a record of telemetry: in any order.  The time of an
\* integration is of the process that received it.
Store(row) ==
    /\ kind # "audit"
    /\ row \notin rows
    /\ rows' = rows \cup {row}
    /\ \/ UNCHANGED ahead
       \/ kind = "catalog" /\ ahead' = ahead \cup {row}
    /\ UNCHANGED <<kind, open, walk>>

\* An audit event gets its sequence, in order, when it is inserted; the transactions
\* commit in any order, or not at all.
InsertAuditEvent(row) ==
    /\ kind = "audit"
    /\ \A n \in Numbers(rows \cup open) : n < row[1]
    /\ open' = open \cup {row}
    /\ UNCHANGED <<kind, rows, ahead, walk>>

CommitAuditEvent(row) ==
    /\ row \in open
    /\ open' = open \ {row}
    /\ rows' = rows \cup {row}
    /\ UNCHANGED <<kind, ahead, walk>>

RollBackAuditEvent(row) ==
    /\ row \in open
    /\ open' = open \ {row}
    /\ UNCHANGED <<kind, rows, ahead, walk>>

\* The clocks agree again.
CatchUp ==
    /\ ahead # {}
    /\ ahead' = {}
    /\ UNCHANGED <<kind, rows, open, walk>>

\* A new topology or observation of a listed integration.
ReceiveAgain(row) ==
    /\ kind = "catalog"
    /\ row \in rows \ ahead
    /\ ahead' = ahead \cup {row}
    /\ UNCHANGED <<kind, rows, open, walk>>

----------------------------------------------------------------------------
(* The statements: the selected rows that come after a key, in order.      *)

Ascending(a, b) == a[1] < b[1] \/ (a[1] = b[1] /\ a[2] < b[2])
Descending(a, b) == Ascending(b, a)
Before(a, b) == IF kind = "audit" THEN Descending(a, b) ELSE Ascending(a, b)

Shown(found) == {found[m] : m \in DOMAIN found}

\* The first n of a set, in order.  All of it, if it has no more: what is left out comes
\* after n others.  There is one such sequence of every set.
FirstOf(set, n) ==
    {found \in UNION {[1..m -> set] : m \in 0..n} :
        /\ \A m, k \in DOMAIN found : m < k => Before(found[m], found[k])
        /\ \A row \in set \ Shown(found) :
              Len(found) = n /\ \A m \in DOMAIN found : Before(found[m], row)}

Selected(filter, row) ==
    filter = None \/ IF kind = "audit" THEN row[2] = filter ELSE row[1] = filter

After(key, row) == key = None \/ Before(key, row)

listCatalogSql(gateway, after, n) ==
    FirstOf({row \in rows : Selected(gateway, row) /\ After(after, row)}, n)
listFleetGatewaysSql(cursor, n) ==
    FirstOf({row \in rows : After(cursor, row)}, n)
searchSql(action, cursor, n) ==
    FirstOf({row \in rows : Selected(action, row) /\ After(cursor, row)}, n)
selectHistorySql(from, n) ==
    FirstOf({row \in rows : row[1] >= from}, n)

----------------------------------------------------------------------------
(* The pages.                                                              *)

Begin(filter) ==
    /\ walk = None
    /\ walk' = [filter |-> filter, cursor |-> None, seen |-> <<>>, ended |-> FALSE,
                before |-> {row \in rows : Selected(filter, row)}]
    /\ UNCHANGED <<kind, rows, open, ahead>>

\* A deviation: the cursor is the row behind the last one that is shown.
firstHidden(found, limit) == found[limit + 1]

\* One row more than asked for tells whether there is a next page; the cursor is the
\* last row that was shown.
lastShown(found, limit) == found[limit]

Turn(found, limit) ==
    walk' = IF Len(found) > limit
            THEN [walk EXCEPT !.seen = @ \o SubSeq(found, 1, limit),
                              !.cursor = lastShown(found, limit)]
            ELSE [walk EXCEPT !.seen = @ \o found, !.ended = TRUE]

Reading(list) == kind = list /\ walk # None /\ ~walk.ended

\* decodeCursor: a cursor goes with the Gateway filter it was given out under.
isOfFilter(gateway) == walk.cursor = None \/ gateway = walk.filter

\* One row from the future makes the page invalid.
ListIntegrationProjections(gateway, limit) ==
    /\ Reading("catalog")
    /\ walk.cursor = None => gateway = walk.filter
    /\ isOfFilter(gateway)
    /\ \E found \in listCatalogSql(gateway, walk.cursor, limit + 1) :
         /\ Shown(found) \cap ahead = {}
         /\ Turn(found, limit)
    /\ UNCHANGED <<kind, rows, open, ahead>>

ListFleetGateways(limit) ==
    /\ Reading("fleet")
    /\ \E found \in listFleetGatewaysSql(walk.cursor, limit + 1) : Turn(found, limit)
    /\ UNCHANGED <<kind, rows, open, ahead>>

\* The caller repeats the filter; the cursor is a sequence and does not know it.
SearchAuditEvents(limit) ==
    /\ Reading("audit")
    /\ \E found \in searchSql(walk.filter, walk.cursor, limit + 1) : Turn(found, limit)
    /\ UNCHANGED <<kind, rows, open, ahead>>

\* A page has no cursor: the caller goes on behind its last position as long as the
\* pages are full.
GetTelemetryHistory(limit) ==
    LET from == IF walk.cursor = None THEN 0 ELSE walk.cursor[1] + 1 IN
    /\ Reading("history")
    /\ \E found \in selectHistorySql(from, limit) :
         walk' = [walk EXCEPT !.seen = @ \o found,
                              !.cursor = IF found = <<>> THEN @ ELSE found[Len(found)],
                              !.ended = Len(found) < limit]
    /\ UNCHANGED <<kind, rows, open, ahead>>

Next ==
    \/ \E row \in Row : \/ Store(row) \/ ReceiveAgain(row) \/ InsertAuditEvent(row)
                        \/ CommitAuditEvent(row) \/ RollBackAuditEvent(row)
    \/ CatchUp
    \/ \E filter \in Filters : Begin(filter)
    \/ \E limit \in Limits :
         \/ \E gateway \in Gateways \cup {None} : ListIntegrationProjections(gateway, limit)
         \/ ListFleetGateways(limit) \/ SearchAuditEvents(limit) \/ GetTelemetryHistory(limit)

Spec == Init /\ [][Next]_vars

----------------------------------------------------------------------------
\* What was there when a caller began is on the pages, once and in order, as far as
\* the caller has come and altogether when there is no next page, whatever is written
\* meanwhile; and nothing is on them that was not asked for.
InOrder == \A m, n \in DOMAIN walk.seen : m < n => Before(walk.seen[m], walk.seen[n])
Passed(row) == walk.ended \/ (walk.cursor # None /\ ~After(walk.cursor, row))
PagesAreComplete == walk # None =>
    /\ InOrder
    /\ \A row \in walk.before : Passed(row) => row \in Shown(walk.seen)
    /\ \A row \in Shown(walk.seen) : row \in rows /\ Selected(walk.filter, row)
=============================================================================
