--------------------------- MODULE MCMonitorViews ---------------------------
(***************************************************************************)
(* Bounded inputs for the pure parts of the Monitor's browser client: one  *)
(* step picks an address, a link, a list of runs, a snapshot, a graph or   *)
(* the units of a fan-out, and each property is evaluated on it.  The      *)
(* addresses are read in workspace-set mode and, through Single, in single *)
(* mode.                                                                   *)
(***************************************************************************)
EXTENDS MonitorRoutes, MonitorInventory, MonitorZoom, MonitorFanout

CONSTANT Junk       \* a parameter that is not a decimal number

VARIABLE input

MCWorkspaces == <<"w1", "w2">>
MCFilters == [strategy |-> {"workflow"}, execution |-> {"failed"}]
MCFamilies == <<"execution", "evidence">>
MCStates == <<"failed", "unknown", "completed">>
MCFamilyOf ==
    [r \in {"failed", "partial", "child_log_missing", "odd", "other"} |->
       CASE r \in {"failed", "partial"} -> "execution"
         [] r = "child_log_missing" -> "evidence"
         [] OTHER -> NoFamily]

Single == INSTANCE MonitorRoutes WITH Workspaces <- <<>>

\* The vocabulary the inputs below are written in.
ASSUME InputsAssumption ==
    /\ {"workspaces", "runs", "units", "manual", "w1", "w2", "w9", "r1", "u1", "s1"}
         \subseteq STRING
    /\ Workspaces = MCWorkspaces /\ FilterVocabulary = MCFilters
    /\ "duration_asc" \in SortVocabulary

UpTo(S, n) == UNION {[1..k -> S] : k \in 0..n}

(***************************************************************************)
(* Addresses and links.                                                    *)
(***************************************************************************)
Params ==
    {[NoParams EXCEPT !.manual = manual, !.attempt = attempt] :
       manual \in {None, "s1", "???", ""}, attempt \in {"a1", ""}}
      \cup {[NoParams EXCEPT !.zoom = digits, !.members = digits, !.edges = digits, !.follow = "1"]
              : digits \in {0, 3, Unsafe, Junk}}
      \cup {[NoParams EXCEPT !.filters = [strategy |-> "workflow", execution |-> "odd"],
                             !.sort = sort, !.q = q, !.cluster = "c", !.arc = "", !.manual = "index"]
              : sort \in {None, "recency_desc", "duration_asc", "odd"}, q \in {<<>>, <<1, 2, 3>>}}
Places == {<<>>, <<"workspaces">>, <<"workspaces", "w2">>, <<"workspaces", "w9">>}
Tails == UpTo({"runs", "units", "manual", "r1", Undecodable}, 3)
           \cup {<<"runs", run, "units", unit>> : run \in {"r1", "units"}, unit \in {"u1", Undecodable}}
Addresses ==
    {[lead |-> lead, segs |-> prefix \o tail, params |-> params] :
       lead \in {0, 2}, prefix \in Places, tail \in Tails, params \in Params}

Hash(segs, params) == [lead |-> 1, segs |-> segs, params |-> params]
Currents ==
    {Hash(<<"runs">>, NoParams), Hash(<<"manual", "s1">>, NoParams), Hash(<<"workspaces">>, PaneOnly("s1")),
     Hash(<<"workspaces", "w2", "runs", "r1", "units", "u1">>, PaneOnly("index")),
     Hash(<<"workspaces", Undecodable>>, PaneOnly("s1"))}
Targets == {<<None, None>>, <<"r1", None>>, <<"r1", "u1">>, <<"units", "u1">>,
            <<Unlinkable, None>>, <<Unlinkable, "u1">>, <<"r1", Unlinkable>>}
Literals ==
    {[view |-> "runs", invalidPath |-> None, workspace |-> workspace, runId |-> target[1],
      unitId |-> target[2], attemptId |-> None,
      filters |-> [strategy |-> "workflow", execution |-> None], sort |-> sort, q |-> <<1>>,
      follow |-> follow, zoomStart |-> zoom, selectedCluster |-> None, selectedArc |-> "a",
      memberPage |-> None, edgePage |-> 2, manual |-> manual] :
       workspace \in {None, "w2"}, target \in Targets, sort \in {None, "duration_asc"},
       follow \in BOOLEAN, zoom \in {None, 3}, manual \in {Omitted, None, "s1"}}

(***************************************************************************)
(* Lists of runs.                                                          *)
(***************************************************************************)
At(completeness, value, fine) == [completeness |-> completeness, value |-> value, fine |-> fine]
Kinds ==
    <<[attention |-> 0, latest |-> At("complete", 5, 0), duration |-> At("complete", 2, 0)],
      [attention |-> 1, latest |-> At("complete", 5, 3), duration |-> At("complete", 2, 0)],
      [attention |-> 0, latest |-> At("complete", 5, 3), duration |-> At("incomplete", Unreadable, 0)],
      [attention |-> 2, latest |-> At("complete", 7, 0), duration |-> At("complete", 1, 0)],
      [attention |-> 1, latest |-> At("complete", Unreadable, 0), duration |-> At("odd", 4, 0)],
      [attention |-> 0, latest |-> At("malformed", Unreadable, 0), duration |-> At("complete", Unreadable, 0)]>>
Row(id, k) ==
    [id |-> id, text |-> {12, 20 + id},
     children |-> IF k \in {2, 4} THEN <<[session |-> 11, unit |-> k], [session |-> 20 + k, unit |-> NoUnit]>>
                  ELSE <<>>,
     attention |-> Kinds[k].attention, latest |-> Kinds[k].latest, duration |-> Kinds[k].duration,
     reasons |-> IF Kinds[k].attention > 0 THEN {"failed"} ELSE {},
     facets |-> [execution |-> IF k \in {1, 4} THEN "failed" ELSE "odd"]]
RowLists ==
    {[i \in DOMAIN ids |-> Row(ids[i], kinds[i])] :
       ids \in {<<3, 1, 2>>, <<2, 4, 1>>, <<1, 0, 2>>}, kinds \in [1..3 -> 1..6]}
      \cup {[i \in 1..4 |-> Row(<<3, 2, 5, 1>>[i], kinds[i])] : kinds \in [1..4 -> {2, 3, 4, 5}]}
Snapshots ==
    {[runs |-> rows, inventory |-> [projected_runs |-> projected, dropped_logs |-> dropped]] :
       rows \in RowLists, projected \in {0, 2, 4}, dropped \in {0, 1}}
Wanted ==
    {[filters |-> filters, q |-> q, sort |-> sort] :
       filters \in {[name \in {} |-> "all"], [attention |-> "yes"], [execution |-> "failed"]},
       q \in {NoQuery, 11, 22}, sort \in {"recency_desc", "duration_asc"}}
      \cup {[filters |-> [name \in {} |-> "all"], q |-> 12, sort |-> sort] :
              sort \in {"recency_asc", "duration_desc"}}

(***************************************************************************)
(* Graphs and fan-outs.                                                    *)
(***************************************************************************)
Lengths ==
    UpTo(0..2, 3) \cup [1..4 -> 0..2] \cup [1..6 -> {1, 2}] \cup [1..7 -> {0, 1}] \cup [1..3 -> {1, 3, 5}]
      \cup {<<1, 2, 0, 1, 1, 2, 1, 0, 1, 2>>, <<4, 1, 2, 0, 3>>, <<5, 4>>, <<6, 2>>, <<9>>}
Waves(lengths) ==
    LET before(i) == FoldFunction(+, 0, [j \in 1..i - 1 |-> lengths[j]])
    IN  [i \in DOMAIN lengths |-> [n \in 1..lengths[i] |-> before(i) + lengths[i] + 1 - n]]
States == <<"ready", "blocked", "unknown">>
Edge(from, to, state) == [from |-> from, to |-> to, state |-> state]
Graph(lengths) ==
    LET waves == Waves(lengths)
        wave(id) == CHOOSE i \in DOMAIN waves : id \in ToSet(waves[i])
        units == Len(FlattenSeq(waves))
        all == [n \in 1..units * units |->
                  LET from == ((n - 1) % units) + 1
                  IN  Edge(from, ((n - 1) \div units) + 1, States[(from % 3) + 1])]
        dependency(edge) == wave(edge.from) < wave(edge.to) /\ (edge.from + edge.to) % 3 # 0
    IN  [waves |-> waves,
         edges |-> SelectSeq(all, dependency)
                     \o <<Edge(1, 99, "ready"), Edge(1, 2, "odd"), Edge(99, 1, "blocked")>>]
Lookup(graph) ==
    [id \in {u \in ToSet(FlattenSeq(graph.waves)) : u % 4 # 0} |->
       [attention |-> IF id % 3 = 0 THEN "absent" ELSE IF id % 5 = 0 THEN "required" ELSE "not_required"]]

Sibling(required, reasons, execution) ==
    [required |-> required, reasons |-> reasons, execution |-> execution,
     limitations |-> IF reasons = <<>> \/ Head(reasons) = "odd" THEN {"unit_limited"} ELSE {}]
SiblingKinds ==
    {Sibling("no", <<>>, execution) : execution \in {"failed", "completed", "odd"}}
      \cup {Sibling("yes", reasons, "failed") :
              reasons \in {<<>>, <<"failed">>, <<"odd">>, <<"failed", "child_log_missing">>,
                           <<"partial", "odd">>, <<"odd", "other">>,
                           <<"child_log_missing", "child_log_missing">>}}
      \cup {Sibling("absent", reasons, "completed") : reasons \in {<<>>, <<"child_log_missing">>}}
Named(kinds) ==
    [i \in DOMAIN kinds |-> [id |-> i, required |-> kinds[i].required, reasons |-> kinds[i].reasons,
                             execution |-> kinds[i].execution, limitations |-> kinds[i].limitations]]

(***************************************************************************)
(* One input at a time.  The beginning says which kind, so that several    *)
(* workers share them.                                                     *)
(***************************************************************************)
Scenes == {"address", "link", "runs", "snapshot", "graph", "fanout"}
Init == \E next \in Scenes : input = [scene |-> "none", next |-> next]

Asks(scene) == input.scene = "none" /\ input.next = scene
OpensAddress ==
    /\ Asks("address")
    /\ \E hash \in Addresses : input' = [scene |-> "address", hash |-> hash]
FollowsLink ==
    /\ Asks("link")
    /\ \E literal \in Literals, current \in Currents :
         input' = [scene |-> "link", literal |-> literal, current |-> current]
ReadsRuns ==
    /\ Asks("runs")
    /\ \E rows \in RowLists, route \in Wanted :
         input' = [scene |-> "runs", route |-> route, snapshot |-> [runs |-> rows]]
HoldsSnapshot ==
    /\ Asks("snapshot")
    /\ \E snapshot \in Snapshots, session \in {0, 11, 22} :
         input' = [scene |-> "snapshot", snapshot |-> snapshot, session |-> session]
OpensGraph ==
    /\ Asks("graph")
    /\ \E lengths \in Lengths \ {<<>>} : \E start \in 0..Len(lengths) :
         input' = [scene |-> "graph", lengths |-> lengths, start |-> start]
OpensFanout ==
    /\ Asks("fanout")
    /\ \E kinds \in UpTo(SiblingKinds, 3), limited \in {{}, {"run_limited"}} :
         input' = [scene |-> "fanout", run |-> [units |-> Named(kinds), limitations |-> limited]]

Next ==
    \/ OpensAddress \/ FollowsLink \/ ReadsRuns
    \/ HoldsSnapshot \/ OpensGraph \/ OpensFanout
Spec == Init /\ [][Next]_input

(***************************************************************************)
(* Properties.                                                             *)
(***************************************************************************)
(* The manual's pane never moves the reader: for every address, in both    *)
(* modes (parseRoute, routeHash, manualRoute, underlyingKey).              *)
PaneNeverMovesTheReader ==
    input.scene = "address" =>
      \A slug \in {None, "s1", "???"} :
        PaneIsOverlay(input.hash, slug) /\ Single!PaneIsOverlay(input.hash, slug)

(* Every link the client renders leads to the run, the unit and the        *)
(* workspace of its literal, or stays on the list (routeHash).             *)
LinksReachTheirRuns ==
    input.scene = "link" =>
      /\ LinkReachesItsRun(input.literal, input.current)
      /\ Single!LinkReachesItsRun(input.literal, input.current)

(* Paging shows every run that was asked for, in one order (renderRuns).   *)
RunsAreAllReachable == input.scene = "runs" => EveryRunIsReachable(input.snapshot, input.route)

(* A list that refused rows still adds up, and what it offers for a dead   *)
(* end is what a search finds (confessUnlinkableListRows).                 *)
RefusedRowsAreCounted == input.scene = "snapshot" => ListReconciles(input.snapshot, input.session)

(* No aggregate of a graph hides a unit, an edge or a value, at any level  *)
(* of the zoom (deriveSemanticZoom).                                       *)
ZoomHidesNothing ==
    input.scene = "graph" =>
      ZoomCoversTheGraph(Graph(input.lengths), input.start, Lookup(Graph(input.lengths)))

(* No sibling falls between two groups of a fan-out (fanoutGrouping).      *)
SiblingsAreAllGrouped == input.scene = "fanout" => FanoutCountsEveryUnit(input.run)

(* The Workspace Overview names the runs that need attention, as the list  *)
(* groups them (projection-v1.md:773).                                     *)
OverviewNamesItsAttention == input.scene = "snapshot" => OverviewNamesAttention(input.snapshot)
=============================================================================
