------------------------- MODULE MonitorViewsProofs -------------------------
(***************************************************************************)
(* The runs of MCMonitorViews choose their addresses and their links among *)
(* those the theorems of MonitorRoutesProofs are about, in both modes.     *)
(***************************************************************************)
EXTENDS MCMonitorViews, MonitorRoutesProofs

R == INSTANCE MonitorRoutesProofs WITH Workspaces <- <<>>

-----------------------------------------------------------------------------
(***************************************************************************)
(* Single mode.                                                            *)
(***************************************************************************)
LEMMA SingleAssumption ==
  /\ <<>> \in Seq(STRING \ {""})
  /\ R!RoutesAssumption
<1>1. <<>> \in Seq(STRING \ {""})
  OBVIOUS
<1> QED BY <1>1, RoutesAssumption

\* The addresses the run reads in single mode are those of the theorems there.
LEMMA SameReading ==
  /\ \A params : Single!NoRoute(params) = R!NoRoute(params)
  /\ \A route, w, segs, params : Single!RunsPath(route, w, segs, params) = R!RunsPath(route, w, segs, params)
  /\ \A hash : Single!ParseRoute(hash) = R!ParseRoute(hash)
<1>1. \A v : Single!ManualField(v) = R!ManualField(v)
  BY DEF Single!ManualField, R!ManualField
<1>2. \A a, b : Single!FirstOf(a, b) = R!FirstOf(a, b)
  BY DEF Single!FirstOf, R!FirstOf
<1>3. \A v, n : Single!Digits(v, n) = R!Digits(v, n)
  BY DEF Single!Digits, R!Digits
<1>4. \A q : Single!Truncated(q) = R!Truncated(q)
  BY DEF Single!Truncated, R!Truncated
<1>5. Single!WorkspaceSetMode = R!WorkspaceSetMode
  BY DEF Single!WorkspaceSetMode, R!WorkspaceSetMode
<1>6. \A params : Single!NoRoute(params) = R!NoRoute(params)
  BY DEF Single!NoRoute, R!NoRoute, Single!ManualField, R!ManualField, Single!FirstOf, R!FirstOf,
         Single!Digits, R!Digits, Single!Truncated, R!Truncated,
         Single!WorkspaceSetMode, R!WorkspaceSetMode
<1>7. \A route, w, segs, params :
        Single!RunsPath(route, w, segs, params) = R!RunsPath(route, w, segs, params)
  BY DEF Single!RunsPath, R!RunsPath
<1>8. \A segs : Single!InWorkspace(segs) = R!InWorkspace(segs)
  BY DEF Single!InWorkspace, R!InWorkspace, Single!Configured, R!Configured
<1>9. \A hash : Single!ParseRoute(hash) = R!ParseRoute(hash)
  BY <1>1, <1>2, <1>5, <1>6, <1>7, <1>8 DEF Single!ParseRoute, R!ParseRoute
<1> QED BY <1>6, <1>7, <1>9

LEMMA SameWriting ==
  /\ \A route, current : Single!RouteHash(route, current) = R!RouteHash(route, current)
  /\ \A route, slug, current :
       Single!ManualRoute(route, slug, current) = R!ManualRoute(route, slug, current)
  /\ \A route, current : Single!UnderlyingKey(route, current) = R!UnderlyingKey(route, current)
<1>1. \A v : Single!ManualField(v) = R!ManualField(v)
  BY DEF Single!ManualField, R!ManualField
<1>2. \A a, b : Single!FirstOf(a, b) = R!FirstOf(a, b)
  BY DEF Single!FirstOf, R!FirstOf
<1>3. Single!WorkspaceSetMode = R!WorkspaceSetMode
  BY DEF Single!WorkspaceSetMode, R!WorkspaceSetMode
<1>4. \A route, current : Single!RouteManualField(route, current) = R!RouteManualField(route, current)
  BY <1>1, SameReading DEF Single!RouteManualField, R!RouteManualField
<1>5. \A route : Single!DetailSegments(route) = R!DetailSegments(route)
  BY DEF Single!DetailSegments, R!DetailSegments, Single!FirstOf, R!FirstOf,
         Single!EncodableComponent, R!EncodableComponent
<1>6. \A m : Single!PaneOnly(m) = R!PaneOnly(m)
  BY DEF Single!PaneOnly, R!PaneOnly, Single!NoParams, R!NoParams, Single!NoFilters, R!NoFilters
<1>7. \A route, m : Single!InvalidHash(route, m) = R!InvalidHash(route, m)
  BY <1>6 DEF Single!InvalidHash, R!InvalidHash
<1>8. \A route, m : Single!RouteParams(route, m) = R!RouteParams(route, m)
  BY DEF Single!RouteParams, R!RouteParams, Single!FirstOf, R!FirstOf, Single!Truncated, R!Truncated
<1>9. \A route, current : Single!WorkspacePath(route, current) = R!WorkspacePath(route, current)
  BY <1>2, <1>3, SameReading DEF Single!WorkspacePath, R!WorkspacePath
<1>10. \A route, current : Single!RouteHash(route, current) = R!RouteHash(route, current)
  BY <1>3, <1>4, <1>5, <1>6, <1>7, <1>8, <1>9 DEF Single!RouteHash, R!RouteHash
<1>11. \A route, slug, current :
         Single!ManualRoute(route, slug, current) = R!ManualRoute(route, slug, current)
  BY <1>1, <1>10 DEF Single!ManualRoute, R!ManualRoute
<1>12. \A route, current : Single!UnderlyingKey(route, current) = R!UnderlyingKey(route, current)
  BY <1>10 DEF Single!UnderlyingKey, R!UnderlyingKey
<1> QED BY <1>10, <1>11, <1>12

LEMMA SinglePane ==
  ASSUME NEW hash, R!Typed(hash), NEW slug
  PROVE  Single!PaneIsOverlay(hash, slug)
<1>1. R!PaneIsOverlay(hash, slug)
  BY SingleAssumption, R!PaneIsOverlayCorrect
<1>2. \A v : Single!ManualField(v) = R!ManualField(v)
  BY DEF Single!ManualField, R!ManualField
<1>3. \A route : Single!Place(route) = R!Place(route)
  BY DEF Single!Place, R!Place, Single!FirstOf, R!FirstOf
<1>4. \A route : Single!PlaceOnly(route) = R!PlaceOnly(route)
  BY DEF Single!PlaceOnly, R!PlaceOnly
<1> QED BY <1>1, <1>2, <1>3, <1>4, SameReading, SameWriting DEF Single!PaneIsOverlay, R!PaneIsOverlay

LEMMA SingleLink ==
  ASSUME NEW literal, R!Rendered(literal), NEW current, R!Typed(current)
  PROVE  Single!LinkReachesItsRun(literal, current)
<1>1. R!LinkReachesItsRun(literal, current)
  BY SingleAssumption, R!LinkReachesItsRunCorrect
<1>2. \A v : Single!ManualField(v) = R!ManualField(v)
  BY DEF Single!ManualField, R!ManualField
<1>3. \A a, b : Single!FirstOf(a, b) = R!FirstOf(a, b)
  BY DEF Single!FirstOf, R!FirstOf
<1>4. Single!WorkspaceSetMode = R!WorkspaceSetMode
  BY DEF Single!WorkspaceSetMode, R!WorkspaceSetMode
<1> QED BY <1>1, <1>2, <1>3, <1>4, SameReading, SameWriting
        DEF Single!LinkReachesItsRun, R!LinkReachesItsRun
-----------------------------------------------------------------------------
(***************************************************************************)
(* The inputs.                                                             *)
(***************************************************************************)
LEMMA InputWords ==
  {"workspaces", "runs", "units", "manual", "w2", "w9", "r1", "u1", "s1"} \subseteq Words
BY InputsAssumption DEF Words

LEMMA SameTyped ==
  \A hash : Typed(hash) => R!Typed(hash)
BY DEF Typed, R!Typed, Segment, R!Segment, Words, R!Words, Queries, R!Queries

LEMMA PrefixesTyped ==
  ASSUME NEW prefix \in Places
  PROVE  prefix \in Seq(Segment)
<1>1. {"workspaces", "w2", "w9"} \subseteq Segment
  BY InputWords DEF Segment
<1>2. /\ <<>> \in Seq(Segment) /\ <<"workspaces">> \in Seq(Segment)
      /\ <<"workspaces", "w2">> \in Seq(Segment) /\ <<"workspaces", "w9">> \in Seq(Segment)
  BY <1>1
<1> QED BY <1>2 DEF Places

LEMMA TailsTyped ==
  ASSUME NEW tail \in Tails
  PROVE  tail \in Seq(Segment)
<1> DEFINE S == {"runs", "units", "manual", "r1", Undecodable}
<1>1. S \cup {"u1"} \subseteq Segment
  BY InputWords DEF Segment
<1>2. CASE tail \in UpTo(S, 3)
  <2>1. PICK k \in 0..3 : tail \in [1..k -> S]
    BY <1>2 DEF UpTo
  <2>2. \A i \in 1..k : tail[i] \in Segment
    BY <1>1, <2>1
  <2>3. tail \in [1..k -> Segment] /\ k \in Nat
    BY <2>1, <2>2
  <2> QED BY <2>3
<1>3. CASE tail \notin UpTo(S, 3)
  <2>1. tail \in {<<"runs", run, "units", unit>> : run \in {"r1", "units"}, unit \in {"u1", Undecodable}}
    BY <1>3 DEF Tails
  <2>2. PICK run \in {"r1", "units"}, unit \in {"u1", Undecodable} : tail = <<"runs", run, "units", unit>>
    BY <2>1
  <2>3. run \in Segment /\ unit \in Segment /\ "runs" \in Segment /\ "units" \in Segment
    BY <1>1
  <2>4. <<"runs", run, "units", unit>> \in Seq(Segment)
    BY <2>3
  <2> QED BY <2>2, <2>4
<1> QED BY <1>2, <1>3

LEMMA ParamsTyped ==
  ASSUME NEW params \in Params
  PROVE  params.q \in Queries
<1>1. <<>> \in Queries /\ <<1, 2, 3>> \in Queries /\ None \in Queries
  BY DEF Queries
<1>2. NoParams.q = None
  BY DEF NoParams
<1>3. params.q \in {None, <<>>, <<1, 2, 3>>}
  <2> DEFINE N == NoParams
  <2>1. "q" \in DOMAIN N /\ N.q = None
    BY DEF NoParams
  <2> HIDE DEF N
  <2>2. \A manual, attempt : [N EXCEPT !.manual = manual, !.attempt = attempt].q = None
    BY <2>1
  <2>3. \A digits : [N EXCEPT !.zoom = digits, !.members = digits, !.edges = digits,
                             !.follow = "1"].q = None
    BY <2>1
  <2>4. \A filters, sort, q :
          [N EXCEPT !.filters = filters, !.sort = sort, !.q = q, !.cluster = "c", !.arc = "",
                    !.manual = "index"].q = q
    BY <2>1
  <2> DEFINE panes == {[N EXCEPT !.manual = manual, !.attempt = attempt] :
                         manual \in {None, "s1", "???", ""}, attempt \in {"a1", ""}}
             numbers == {[N EXCEPT !.zoom = digits, !.members = digits, !.edges = digits, !.follow = "1"]
                           : digits \in {0, 3, Unsafe, Junk}}
             searches == {[N EXCEPT !.filters = [strategy |-> "workflow", execution |-> "odd"],
                                    !.sort = sort, !.q = q, !.cluster = "c", !.arc = "", !.manual = "index"]
                            : sort \in {None, "recency_desc", "duration_asc", "odd"},
                              q \in {<<>>, <<1, 2, 3>>}}
  <2>5. params \in panes \/ params \in numbers \/ params \in searches
    BY DEF Params, N
  <2>6. CASE params \in panes
    <3>1. PICK manual \in {None, "s1", "???", ""}, attempt \in {"a1", ""} :
            params = [N EXCEPT !.manual = manual, !.attempt = attempt]
      BY <2>6
    <3> QED BY <2>2, <3>1
  <2>7. CASE params \in numbers
    BY <2>3, <2>7
  <2>8. CASE params \in searches
    <3>1. PICK sort \in {None, "recency_desc", "duration_asc", "odd"}, q \in {<<>>, <<1, 2, 3>>} :
            params = [N EXCEPT !.filters = [strategy |-> "workflow", execution |-> "odd"],
                               !.sort = sort, !.q = q, !.cluster = "c", !.arc = "", !.manual = "index"]
      BY <2>8
    <3>2. params.q = q
      BY <2>4, <3>1
    <3> QED BY <3>2
  <2> QED BY <2>5, <2>6, <2>7, <2>8
<1> QED BY <1>1, <1>3

LEMMA AddressesTyped ==
  ASSUME NEW hash \in Addresses
  PROVE  Typed(hash)
<1>1. PICK lead \in {0, 2}, prefix \in Places, tail \in Tails, params \in Params :
        hash = [lead |-> lead, segs |-> prefix \o tail, params |-> params]
  BY DEF Addresses
<1>2. lead \in Nat /\ prefix \in Seq(Segment) /\ tail \in Seq(Segment) /\ params.q \in Queries
  BY PrefixesTyped, TailsTyped, ParamsTyped
<1>3. prefix \o tail \in Seq(Segment)
  BY <1>2, ConcatProperties
<1> QED BY <1>1, <1>2, <1>3 DEF Typed

LEMMA CurrentsTyped ==
  ASSUME NEW hash \in Currents
  PROVE  Typed(hash)
<1>1. {"workspaces", "runs", "units", "manual", "w2", "r1", "u1", "s1", Undecodable} \subseteq Segment
  BY InputWords DEF Segment
<1>2. None \in Queries /\ NoParams.q = None /\ \A m : PaneOnly(m).q = None
  BY DEF Queries, NoParams, PaneOnly
<1>3. \A segs \in Seq(Segment) : \A params : params.q = None => Typed(Hash(segs, params))
  BY <1>2 DEF Typed, Hash
<1>4. /\ <<"runs">> \in Seq(Segment) /\ <<"manual", "s1">> \in Seq(Segment)
      /\ <<"workspaces">> \in Seq(Segment) /\ <<"workspaces", Undecodable>> \in Seq(Segment)
      /\ <<"workspaces", "w2", "runs", "r1", "units", "u1">> \in Seq(Segment)
  BY <1>1
<1>5. PICK segs, params : segs \in Seq(Segment) /\ params.q = None /\ hash = Hash(segs, params)
  BY <1>2, <1>4 DEF Currents
<1> QED BY <1>3, <1>5

LEMMA LiteralsRendered ==
  ASSUME NEW literal \in Literals
  PROVE  Rendered(literal) /\ R!Rendered(literal)
<1>1. PICK workspace \in {None, "w2"}, target \in Targets, sort \in {None, "duration_asc"},
           follow \in BOOLEAN, zoom \in {None, 3}, manual \in {Omitted, None, "s1"} :
        literal =
          [view |-> "runs", invalidPath |-> None, workspace |-> workspace, runId |-> target[1],
           unitId |-> target[2], attemptId |-> None,
           filters |-> [strategy |-> "workflow", execution |-> None], sort |-> sort, q |-> <<1>>,
           follow |-> follow, zoomStart |-> zoom, selectedCluster |-> None, selectedArc |-> "a",
           memberPage |-> None, edgePage |-> 2, manual |-> manual]
  BY DEF Literals
<1>2. /\ target[1] \in Ids /\ target[2] \in Ids /\ (target[1] = None => target[2] = None)
  <2>1. {"r1", "u1", "units", None, Unlinkable} \subseteq Ids
    BY InputWords DEF Ids
  <2>2. None \notin {"r1", "u1", "units", Unlinkable}
    BY InputWords, WordsLink, Tokens
  <2> QED BY <2>1, <2>2 DEF Targets
<1>3. Normal([strategy |-> "workflow", execution |-> None])
  BY InputsAssumption DEF Normal, MCFilters
<1>4. "w2" \in Sources
  <2>1. Len(Workspaces) = 2 /\ Workspaces[2] = "w2"
    BY InputsAssumption DEF MCWorkspaces
  <2>2. Workspaces # <<>>
    BY <2>1
  <2> QED BY <2>1, <2>2 DEF Sources, WorkspaceSetMode
<1>5. sort \in SortVocabulary \cup {None} /\ <<1>> \in Queries
  BY InputsAssumption DEF Queries
<1>6. Rendered(literal)
  BY <1>1, <1>2, <1>3, <1>4, <1>5 DEF Rendered
<1>7. ~R!WorkspaceSetMode
  BY DEF R!WorkspaceSetMode
<1> QED BY <1>6, <1>7 DEF Rendered, R!Rendered, Ids, R!Ids, Words, R!Words, Normal, R!Normal,
                          Queries, R!Queries

\* An input is what its scene takes it from.
Chosen ==
    /\ input.scene = "address" => input.hash \in Addresses
    /\ input.scene = "link" => input.literal \in Literals /\ input.current \in Currents

LEMMA ChosenAlways == Spec => []Chosen
<1>1. Init => Chosen
  BY DEF Init, Chosen
<1>2. Chosen /\ [Next]_input => Chosen'
  <2> SUFFICES ASSUME Chosen, [Next]_input PROVE Chosen'
    OBVIOUS
  <2>1. CASE OpensAddress
    BY <2>1 DEF OpensAddress, Chosen
  <2>2. CASE FollowsLink
    BY <2>2 DEF FollowsLink, Chosen
  <2>3. CASE ReadsRuns
    BY <2>3 DEF ReadsRuns, Chosen
  <2>4. CASE HoldsSnapshot
    BY <2>4 DEF HoldsSnapshot, Chosen
  <2>5. CASE OpensGraph
    BY <2>5 DEF OpensGraph, Chosen
  <2>6. CASE OpensFanout
    BY <2>6 DEF OpensFanout, Chosen
  <2>7. CASE UNCHANGED input
    BY <2>7 DEF Chosen
  <2> QED BY <2>1, <2>2, <2>3, <2>4, <2>5, <2>6, <2>7 DEF Next
<1> QED BY <1>1, <1>2, PTL DEF Spec

(* What the run checks of its addresses is an instance of the theorem      *)
(* about every address, in both modes (parseRoute, routeHash).             *)
THEOREM PaneNeverMovesTheReaderCorrect == Spec => []PaneNeverMovesTheReader
<1>1. Chosen => PaneNeverMovesTheReader
  <2> SUFFICES ASSUME Chosen, input.scene = "address", NEW slug \in {None, "s1", "???"}
               PROVE  PaneIsOverlay(input.hash, slug) /\ Single!PaneIsOverlay(input.hash, slug)
    BY DEF PaneNeverMovesTheReader
  <2>1. Typed(input.hash) /\ R!Typed(input.hash)
    BY AddressesTyped, SameTyped DEF Chosen
  <2> QED BY <2>1, PaneIsOverlayCorrect, SinglePane
<1> QED BY <1>1, ChosenAlways, PTL

(* What the run checks of its links is an instance of the theorem about    *)
(* every link, in both modes (routeHash, parseRoute).                      *)
THEOREM LinksReachTheirRunsCorrect == Spec => []LinksReachTheirRuns
<1>1. Chosen => LinksReachTheirRuns
  <2> SUFFICES ASSUME Chosen, input.scene = "link"
               PROVE  /\ LinkReachesItsRun(input.literal, input.current)
                      /\ Single!LinkReachesItsRun(input.literal, input.current)
    BY DEF LinksReachTheirRuns
  <2>1. /\ Typed(input.current) /\ R!Typed(input.current)
        /\ Rendered(input.literal) /\ R!Rendered(input.literal)
    BY CurrentsTyped, LiteralsRendered, SameTyped DEF Chosen
  <2> QED BY <2>1, LinkReachesItsRunCorrect, SingleLink
<1> QED BY <1>1, ChosenAlways, PTL
=============================================================================
