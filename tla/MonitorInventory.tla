-------------------------- MODULE MonitorInventory --------------------------
(***************************************************************************)
(* The Runs inventory of the Monitor's browser client (app.js): what of a  *)
(* list snapshot is kept, how its rows are filtered, ordered, searched and *)
(* paged, how a dead end finds the parent of a child Session, and how the  *)
(* Workspace Overview splits a source's rows.  Everything here is a pure   *)
(* function of a snapshot and a route; MonitorClient says when the client  *)
(* computes it.                                                            *)
(*                                                                         *)
(* A row is [id, text, children, attention, reasons, facets, latest,       *)
(* duration].  Ids are numbers in the order of the strings, 0 the empty    *)
(* one; text is the set of queries its id or title contains, letter case   *)
(* apart; attention is counts.attention_units; facets are the values the   *)
(* other filters read.  A boundary is [completeness, value, fine]: the     *)
(* instant or the milliseconds, Unreadable when it does not parse, and the *)
(* digits below the millisecond.                                           *)
(***************************************************************************)
EXTENDS Integers, SequencesExt

CONSTANTS
    RunsPage,           \* LIMITS.runs
    RenderAllCap,       \* ATTENTION_RENDER_ALL_CAP
    UnlinkableIds,      \* ids that encodeURIComponent refuses
    Unreadable,         \* an instant Date.parse refuses, a duration not finite
    NoUnit              \* a child whose owning unit the parent does not name

ASSUME InventoryAssumption ==
    /\ RunsPage \in Nat \ {0} /\ RenderAllCap \in Nat \ {0}
    /\ UnlinkableIds \subseteq Nat \ {0}
    /\ Unreadable \notin Int /\ NoUnit \notin Nat

Groups == {"Needs attention", "Recent"}
Least(a, b) == IF a < b THEN a ELSE b
Greatest(a, b) == IF a > b THEN a ELSE b

(***************************************************************************)
(* What is kept of a snapshot.                                             *)
(***************************************************************************)
EncodableId(id) == id \notin UnlinkableIds
ValidListRow(row) == row.id # 0 /\ EncodableId(row.id)
ListRows(snapshot) == SelectSeq(snapshot.runs, ValidListRow)

\* Mutant: every row that is left out is counted, those without an id too.
ConfessedAll(snapshot) ==
    LET invalid == Len(snapshot.runs) - Len(ListRows(snapshot)) IN
    IF invalid = 0 THEN snapshot
    ELSE [runs |-> ListRows(snapshot),
          inventory |-> [projected_runs |-> Greatest(0, snapshot.inventory.projected_runs - invalid),
                         dropped_logs |-> snapshot.inventory.dropped_logs + invalid]]

(* Rows no address can name leave the list and are counted as Logs that    *)
(* were not projected; a row without an id is no Log of the inventory.     *)
ConfessUnlinkableListRows(snapshot) ==
    LET unlinkable(row) == row.id # 0 /\ ~ValidListRow(row)
        invalid == Len(SelectSeq(snapshot.runs, unlinkable))
    IN  IF invalid = 0 THEN snapshot
        ELSE [runs |-> ListRows(snapshot),
              inventory |->
                [projected_runs |-> Greatest(0, snapshot.inventory.projected_runs - invalid),
                 dropped_logs |-> snapshot.inventory.dropped_logs + invalid]]

(***************************************************************************)
(* The pinned order of the rows.                                           *)
(***************************************************************************)
CompletenessRank(completeness) ==
    CASE completeness = "complete" -> 0
      [] completeness = "incomplete" -> 1
      [] completeness = "malformed" -> 3
      [] OTHER -> 2

(* A boundary called complete that does not parse sorts with the           *)
(* incomplete ones.  Only an instant has digits below the millisecond.     *)
SortRank(row, sort) ==
    LET byDuration == sort \in {"duration_desc", "duration_asc"}
        boundary == IF byDuration THEN row.duration ELSE row.latest
        rising == sort \in {"duration_asc", "recency_asc"}
    IN  IF boundary.completeness = "complete" /\ boundary.value # Unreadable
        THEN [rank |-> 0,
              value |-> IF rising THEN boundary.value ELSE -boundary.value,
              normalized |-> IF byDuration THEN 0 ELSE boundary.fine]
        ELSE [rank |-> Greatest(CompletenessRank(boundary.completeness), 1),
              value |-> 0, normalized |-> 0]

\* Mutant: the digits below the millisecond are not compared, nor the id.
ComparesInstants(sort, a, b) ==
    LET left == SortRank(a, sort)
        right == SortRank(b, sort)
    IN  IF left.rank # right.rank THEN left.rank < right.rank ELSE left.value < right.value

RunsComparator(sort, a, b) ==
    LET left == SortRank(a, sort)
        right == SortRank(b, sort)
    IN  IF left.rank # right.rank THEN left.rank < right.rank
        ELSE IF left.value # right.value THEN left.value < right.value
        ELSE IF left.normalized # right.normalized
        THEN IF sort = "recency_desc" THEN left.normalized > right.normalized
             ELSE left.normalized < right.normalized
        ELSE a.id < b.id

(* Array.prototype.sort, which keeps the order of rows that compare equal. *)
Sorted(rows, sort) ==
    LET before(i, j) == \/ RunsComparator(sort, rows[i], rows[j])
                        \/ ~RunsComparator(sort, rows[j], rows[i]) /\ i < j
    IN  [n \in DOMAIN rows |->
           rows[CHOOSE i \in DOMAIN rows : Cardinality({j \in DOMAIN rows : before(j, i)}) = n - 1]]

(***************************************************************************)
(* Filters, search and groups.                                             *)
(***************************************************************************)
RowValue(row, name) ==
    IF name = "attention" THEN (IF row.attention > 0 THEN "yes" ELSE "no") ELSE row.facets[name]
Filtered(row, filters) == \A name \in DOMAIN filters : RowValue(row, name) = filters[name]

NoQuery == 0
ObservedChildren(row, session) ==
    SelectSeq(row.children, LAMBDA child : child.session = session)

\* Mutant: the note of a row found by a child names the row's first child.
MatchesAnyChild(row, q) ==
    IF q = NoQuery THEN [matched |-> TRUE, via |-> "everything"]
    ELSE IF ObservedChildren(row, q) # <<>>
    THEN [matched |-> TRUE, via |-> "child_session", child |-> Head(row.children)]
    ELSE [matched |-> q \in row.text, via |-> IF q \in row.text THEN "run" ELSE "nothing"]

(* A child Session wins over the id and the title of the run.              *)
SearchMatch(row, q) ==
    IF q = NoQuery THEN [matched |-> TRUE, via |-> "everything"]
    ELSE IF ObservedChildren(row, q) # <<>>
    THEN [matched |-> TRUE, via |-> "child_session", child |-> Head(ObservedChildren(row, q))]
    ELSE [matched |-> q \in row.text, via |-> IF q \in row.text THEN "run" ELSE "nothing"]

GroupFor(row) == IF row.attention > 0 THEN "Needs attention" ELSE "Recent"

(* Every observer of the Session, in the order of the held rows.           *)
ResolveParentObservedChild(session, rows) ==
    LET of(row) == [i \in DOMAIN ObservedChildren(row, session) |->
                      [runId |-> row.id, unitId |-> ObservedChildren(row, session)[i].unit]]
        named == SelectSeq(rows, LAMBDA row : row.id # 0)
    IN  IF session = 0 THEN <<>>
        ELSE FlattenSeq([i \in DOMAIN named |-> of(named[i])])

(***************************************************************************)
(* renderRuns: the pages of a group.  Attention rows are all shown up to   *)
(* the cap; past it they are paged like the others.                        *)
(***************************************************************************)
AttentionRowBudget(total, page) ==
    IF total <= RenderAllCap THEN total ELSE Least(total, page * RunsPage)

Searched(snapshot, route) ==
    SelectSeq(Sorted(SelectSeq(ListRows(snapshot), LAMBDA row : Filtered(row, route.filters)),
                     route.sort),
              LAMBDA row : SearchMatch(row, route.q).matched)
Grouped(snapshot, route, group) ==
    SelectSeq(Searched(snapshot, route), LAMBDA row : GroupFor(row) = group)

\* Mutant: a page ends where the attention cap does.
BudgetCapped(group, total, page) ==
    Least(IF group = "Needs attention" THEN AttentionRowBudget(total, page) ELSE page * RunsPage,
          RenderAllCap)

Budget(group, total, page) ==
    IF group = "Needs attention" THEN AttentionRowBudget(total, page) ELSE page * RunsPage

(* The table of a group: its rows, how many the group has, and under a row *)
(* found by a child Session the link to the unit that owns the child.      *)
RunTable(rows, total, q) ==
    LET match(row) == SearchMatch(row, q)
        found == {i \in DOMAIN rows : match(rows[i]).via = "child_session"}
    IN  [rows |-> rows, total |-> total,
         matchLink |-> [i \in found |-> [runId |-> rows[i].id, unitId |-> match(rows[i]).child.unit]]]

(* The table of one group on one page, and what the continuation button    *)
(* says it will add, 0 without a button.                                   *)
RunGroup(snapshot, route, group, page) ==
    LET rows == Grouped(snapshot, route, group)
        shown == Least(Budget(group, Len(rows), page), Len(rows))
    IN  [table |-> RunTable(SubSeq(rows, 1, shown), Len(rows), route.q),
         nextReveal |-> IF shown < Len(rows)
                        THEN Least(Budget(group, Len(rows), page + 1), Len(rows)) - shown
                        ELSE 0]

(***************************************************************************)
(* The row the server lists (source.ex) and the Workspace Overview, which  *)
(* asks it for the attention record only a unit of a detail carries.       *)
(***************************************************************************)
ServedAttention(row) == [basis |-> "parent_log", reasons |-> row.reasons]

OverviewAttention(row) ==
    LET attention == ServedAttention(row)
    IN  "required" \in DOMAIN attention /\ attention["required"] = TRUE
OverviewAttentionRows(snapshot) == SelectSeq(ListRows(snapshot), OverviewAttention)
OverviewRemainingRows(snapshot) ==
    SelectSeq(ListRows(snapshot), LAMBDA row : ~OverviewAttention(row))

(***************************************************************************)
(* Properties, for a snapshot and a route.                                 *)
(***************************************************************************)
Instant(row, sort) ==
    LET boundary == IF sort \in {"duration_desc", "duration_asc"} THEN row.duration ELSE row.latest
    IN  IF boundary.completeness = "complete" THEN boundary.value ELSE Unreadable

(* Whatever order the server lists the rows in, the client paints them in  *)
(* one and the same: those with an instant first, in its direction.        *)
OrderIsPinned(rows, sort) ==
    LET painted == Sorted(rows, sort)
        known(i) == Instant(painted[i], sort) # Unreadable
    IN  /\ Sorted(Reverse(rows), sort) = painted
        /\ rows # <<>> => Sorted(Append(Tail(rows), Head(rows)), sort) = painted
        /\ \A i, j \in DOMAIN rows : i < j =>
             /\ known(j) => known(i)
             /\ known(i) /\ known(j) =>
                  IF sort \in {"duration_asc", "recency_asc"}
                  THEN Instant(painted[i], sort) <= Instant(painted[j], sort)
                  ELSE Instant(painted[i], sort) >= Instant(painted[j], sort)

(* Pressing the continuation as often as it is offered shows every row the *)
(* filters and the search let through, once, in its group and in order;    *)
(* each press adds exactly what the button announced, and no attention row *)
(* waits for a press while the group is within the cap.                    *)
EveryRunIsReachable(snapshot, route) ==
    LET wanted == {i \in DOMAIN ListRows(snapshot) :
                     LET row == ListRows(snapshot)[i] IN
                     Filtered(row, route.filters) /\ SearchMatch(row, route.q).matched}
        table(group, page) == RunGroup(snapshot, route, group, page).table
        nextReveal(group, page) == RunGroup(snapshot, route, group, page).nextReveal
        last == Len(snapshot.runs) + 1
    IN  /\ OrderIsPinned(ListRows(snapshot), route.sort)
        /\ \A group \in Groups :
             /\ nextReveal(group, last) = 0
             /\ ToSet(table(group, last).rows) =
                  {ListRows(snapshot)[i] : i \in {k \in wanted : GroupFor(ListRows(snapshot)[k]) = group}}
             /\ Len(table(group, last).rows) = table(group, last).total
             /\ \A page \in 1..last :
                  /\ IsPrefix(table(group, page).rows, table(group, page + 1).rows)
                  /\ Len(table(group, page + 1).rows)
                       = Len(table(group, page).rows) + nextReveal(group, page)
             /\ group = "Needs attention" /\ table(group, 1).total <= RenderAllCap
                  => nextReveal(group, 1) = 0
        /\ table("Needs attention", 1).total + table("Recent", 1).total = Cardinality(wanted)

(* The counts beside the list go on adding up when rows are refused; doing *)
(* it twice changes nothing; what is left can all be addressed.  A parent  *)
(* offered for a dead end is a row that searching for that id finds as the *)
(* parent of a child, and both lead to the same unit of it.                *)
ListReconciles(snapshot, session) ==
    LET kept == ConfessUnlinkableListRows(snapshot)
        offered == ResolveParentObservedChild(session, ListRows(kept))
        table == RunTable(ListRows(kept), Len(ListRows(kept)), session)
        offeredBy(id) == SelectSeq(offered, LAMBDA offer : offer.runId = id)
    IN  /\ ConfessUnlinkableListRows(kept) = kept
        /\ ListRows(kept) = ListRows(snapshot)
        /\ Len(SelectSeq(snapshot.runs, LAMBDA row : row.id # 0))
             <= snapshot.inventory.projected_runs
             => /\ kept.inventory.projected_runs + kept.inventory.dropped_logs
                     = snapshot.inventory.projected_runs + snapshot.inventory.dropped_logs
                /\ Len(ListRows(kept)) <= kept.inventory.projected_runs
        /\ session # 0 =>
             /\ {offered[i].runId : i \in DOMAIN offered}
                  = {table.rows[i].id : i \in DOMAIN table.matchLink}
             /\ \A i \in DOMAIN table.matchLink :
                  table.matchLink[i] = Head(offeredBy(table.rows[i].id))
        /\ \A i \in DOMAIN offered : EncodableId(offered[i].runId)

(* "Group Runs solely from counts.attention_units" (projection-v1.md:773): *)
(* the Overview names the rows that the list would put under attention.    *)
OverviewNamesAttention(snapshot) ==
    LET needs(row) == GroupFor(row) = "Needs attention"
    IN  /\ OverviewAttentionRows(snapshot) = SelectSeq(ListRows(snapshot), needs)
        /\ OverviewRemainingRows(snapshot) = SelectSeq(ListRows(snapshot), LAMBDA row : ~needs(row))
=============================================================================
