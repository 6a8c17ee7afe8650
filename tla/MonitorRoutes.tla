--------------------------- MODULE MonitorRoutes ---------------------------
(***************************************************************************)
(* The addresses of the Monitor's browser client (app.js): parseRoute, the *)
(* serializer routeHash, and the manual pane that travels on every address *)
(* without being part of it.  MonitorClient takes addresses as given; this *)
(* module says how a hash becomes a route and a route a hash.              *)
(*                                                                         *)
(* A hash is [lead, segs, params]: the number of leading slashes, the      *)
(* non-empty path segments as they decode, and the query parameters.  A    *)
(* segment that does not decode is Undecodable; an id that cannot be       *)
(* percent-encoded (a lone surrogate) is Unlinkable.  Encoding a segment   *)
(* and decoding it give it back, so a token stands for both spellings.     *)
(***************************************************************************)
EXTENDS Integers, Sequences

CONSTANTS
    Workspaces,         \* shellConfig.workspaces; empty in single mode
    Slugs,              \* manualField's slug-shaped tokens, the index apart
    FilterVocabulary,   \* FILTER_VOCABULARIES: filter name -> its values
    SortVocabulary, DefaultSort,
    QueryLimit,         \* LIMITS.query; a query is a sequence of code points
    Undecodable,        \* a segment on which decodeURIComponent throws
    Unlinkable,         \* an id on which encodeURIComponent throws
    Unsafe,             \* digits beyond Number.MAX_SAFE_INTEGER
    None,               \* null, undefined or an absent parameter
    Omitted             \* the manual field of a literal that does not name it

ASSUME RoutesAssumption ==
    /\ Workspaces \in Seq(STRING \ {""})     \* keys follow @key_regex
    /\ Slugs \subseteq STRING \ {"", "index"}
    /\ SortVocabulary \subseteq STRING \ {""} /\ DefaultSort \in SortVocabulary
    /\ QueryLimit \in Nat
    /\ \A x \in {Undecodable, Unlinkable, Unsafe, None, Omitted} :
         x \notin STRING \cup Int \cup {"", "index", "1", "manual", "workspaces", "runs", "units"}
    /\ None \notin Seq(Nat) \cup (Nat \X Seq((STRING \ {""}) \cup {Undecodable}))
    /\ None \notin {Undecodable, Unlinkable, Unsafe, Omitted}
    /\ Undecodable \notin {Unlinkable, Omitted}
    /\ \A name \in DOMAIN FilterVocabulary : None \notin FilterVocabulary[name]

WorkspaceSetMode == Workspaces # <<>>
FirstOf(a, b) == IF a \in {None, ""} THEN b ELSE a
Truncated(q) == SubSeq(q, 1, IF Len(q) < QueryLimit THEN Len(q) ELSE QueryLimit)
NoFilters == [name \in DOMAIN FilterVocabulary |-> None]
NoParams ==
    [filters |-> NoFilters, sort |-> None, q |-> None, attempt |-> None, zoom |-> None,
     cluster |-> None, arc |-> None, members |-> None, edges |-> None, follow |-> None,
     manual |-> None]

(* null or empty closes the pane; what is not slug-shaped opens its index. *)
ManualField(value) ==
    IF value \in {None, Undecodable, ""} THEN None
    ELSE IF value \in Slugs THEN value ELSE "index"

(* A decimal parameter: Number() of digits, the default of anything else. *)
Digits(value, least) ==
    IF value = Unsafe THEN Unsafe
    ELSE IF value \in Nat THEN (IF value < least THEN least ELSE value)
    ELSE least

(***************************************************************************)
(* parseRoute.                                                             *)
(***************************************************************************)
NoRoute(params) ==
    [view |-> IF WorkspaceSetMode THEN "workspaces" ELSE "runs", invalidPath |-> None,
     workspace |-> None, runId |-> None, unitId |-> None, attemptId |-> None,
     filters |-> [name \in DOMAIN FilterVocabulary |->
                    IF params.filters[name] \in FilterVocabulary[name]
                    THEN params.filters[name] ELSE None],
     sort |-> IF params.sort \in SortVocabulary THEN params.sort ELSE DefaultSort,
     q |-> IF params.q = None THEN <<>> ELSE Truncated(params.q),
     follow |-> FALSE,
     zoomStart |-> Digits(params.zoom, 0),
     selectedCluster |-> FirstOf(params.cluster, None),
     selectedArc |-> FirstOf(params.arc, None),
     memberPage |-> Digits(params.members, 1), edgePage |-> Digits(params.edges, 1),
     manual |-> ManualField(params.manual)]

(* The path below a source: runs, runs/<run>, runs/<run>/units/<unit>. *)
RunsPath(route, workspace, segs, params) ==
    LET place == [route EXCEPT !.view = "runs", !.workspace = workspace]
        deep == [place EXCEPT !.view = "detail", !.runId = segs[2],
                              !.follow = params.follow = "1"]
    IN  IF Len(segs) < 2 \/ segs[1] # "runs" THEN place
        ELSE IF Len(segs) >= 4 /\ segs[3] = "units"
             THEN [deep EXCEPT !.view = "unit", !.unitId = segs[4],
                               !.attemptId = params.attempt]
             ELSE deep

Configured(workspace) == \E i \in 1..Len(Workspaces) : Workspaces[i] = workspace
InWorkspace(segs) ==
    Len(segs) >= 3 /\ segs[1] = "workspaces" /\ Configured(segs[2]) /\ segs[3] = "runs"

ParseRoute(hash) ==
    LET segs == hash.segs
        route == NoRoute(hash.params)
    IN  IF segs # <<>> /\ segs[1] = "manual"
        THEN [route EXCEPT !.manual =
                IF Len(segs) >= 2 THEN FirstOf(ManualField(segs[2]), "index") ELSE "index"]
        ELSE IF \E i \in 1..Len(segs) : segs[i] = Undecodable
        THEN [route EXCEPT !.view = "invalid", !.invalidPath = <<hash.lead, segs>>]
        ELSE IF ~WorkspaceSetMode
        THEN RunsPath(route, None, segs, hash.params)
        ELSE IF InWorkspace(segs)
        THEN RunsPath(route, segs[2], SubSeq(segs, 3, Len(segs)), hash.params)
        ELSE route

(***************************************************************************)
(* routeHash, from a route or a partial literal, with the hash the         *)
(* operator is on: it lends the pane and the workspace a literal omits.    *)
(***************************************************************************)
RouteManualField(route, current) ==
    IF route.manual = Omitted THEN ParseRoute(current).manual ELSE ManualField(route.manual)

EncodableComponent(value) == IF value = Unlinkable THEN None ELSE value

\* Mutant: the run and the unit are encoded each for itself.
DetailSegmentsApart(route) ==
    LET linked(id) == id \notin {None, "", Unlinkable} IN
    (IF linked(route.runId) THEN <<route.runId>> ELSE <<>>)
      \o (IF linked(route.unitId) THEN <<"units", route.unitId>> ELSE <<>>)

(* A run and its unit are one address: both are written, or neither is. *)
DetailSegments(route) ==
    LET run == FirstOf(route.runId, None)
        unit == FirstOf(route.unitId, None)
        refused(id) == id # None /\ EncodableComponent(id) = None
    IN  IF refused(run) \/ refused(unit) THEN <<>>
        ELSE (IF run # None THEN <<run>> ELSE <<>>)
               \o (IF unit # None THEN <<"units", unit>> ELSE <<>>)

PaneOnly(manual) == [NoParams EXCEPT !.manual = manual]

RouteParams(route, manual) ==
    LET deep == route.runId \notin {None, ""}
        ifDeep(value) == IF deep THEN FirstOf(value, None) ELSE None
        above(value, default) ==
            IF deep /\ value \in Nat /\ value > default THEN value ELSE None
    IN  [filters |-> route.filters,
         sort |-> IF route.sort \in SortVocabulary \ {DefaultSort} THEN route.sort ELSE None,
         q |-> IF route.q \in {None, <<>>} THEN None ELSE Truncated(route.q),
         attempt |-> FirstOf(route.attemptId, None),
         zoom |-> above(route.zoomStart, 0),
         cluster |-> ifDeep(route.selectedCluster),
         arc |-> ifDeep(route.selectedArc),
         members |-> above(route.memberPage, 1),
         edges |-> above(route.edgePage, 1),
         follow |-> IF deep /\ route.follow THEN "1" ELSE None,
         manual |-> manual]

\* Mutant: an address that does not decode becomes the list.
InvalidHashDemoted(route, manual) ==
    [lead |-> 1, segs |-> <<"runs">>, params |-> PaneOnly(manual)]

(* The raw path, made root-relative; a sentinel when there is none.        *)
InvalidHash(route, manual) ==
    [lead |-> 1,
     segs |-> IF route.invalidPath = None THEN <<Undecodable>> ELSE route.invalidPath[2],
     params |-> PaneOnly(manual)]

WorkspacePath(route, current) ==
    IF ~WorkspaceSetMode THEN <<"runs">>
    ELSE <<"workspaces",
           FirstOf(route.workspace, FirstOf(ParseRoute(current).workspace, Workspaces[1])),
           "runs">>

RouteHash(route, current) ==
    LET manual == RouteManualField(route, current)
    IN  IF route.view = "invalid" THEN InvalidHash(route, manual)
        ELSE IF route.view = "workspaces" /\ WorkspaceSetMode
        THEN [lead |-> 1, segs |-> <<"workspaces">>, params |-> PaneOnly(manual)]
        ELSE [lead |-> 1, segs |-> WorkspacePath(route, current) \o DetailSegments(route),
              params |-> RouteParams(route, manual)]

ManualRoute(route, slug, current) ==
    RouteHash([route EXCEPT !.manual = ManualField(slug)], current)
UnderlyingKey(route, current) ==
    <<route.view, RouteHash([route EXCEPT !.manual = None], current)>>

(***************************************************************************)
(* Properties, for an address and for a link.                              *)
(***************************************************************************)
(* What an address shows: the route without its pane, without digits no    *)
(* integer holds and without an attempt of no name.                        *)
Place(route) ==
    [name \in DOMAIN route \ {"manual", "invalidPath"} |->
       CASE name = "zoomStart" /\ route[name] = Unsafe -> 0
         [] name \in {"memberPage", "edgePage"} /\ route[name] = Unsafe -> 1
         [] name = "attemptId" -> FirstOf(route[name], None)
         [] OTHER -> route[name]]
PlaceOnly(route) == [view |-> route.view, workspace |-> route.workspace]

(* Opening, moving and closing the pane is no navigation: the route under  *)
(* it keeps its key, its view and all it showed, an address that does not  *)
(* decode its path, and the canonical address of a route is a fixed point. *)
PaneIsOverlay(hash, slug) ==
    LET route == ParseRoute(hash)
        opened == ManualRoute(route, slug, hash)
        there == ParseRoute(opened)
        closed == ManualRoute(there, None, opened)
        canonical == RouteHash(route, hash)
    IN  /\ there.manual = ManualField(slug) /\ ParseRoute(closed).manual = None
        /\ UnderlyingKey(there, opened) = UnderlyingKey(route, hash)
        /\ UnderlyingKey(ParseRoute(closed), closed) = UnderlyingKey(route, hash)
        /\ IF route.runId # None THEN Place(there) = Place(route)
           ELSE PlaceOnly(there) = PlaceOnly(route)
        /\ route.view = "runs" => there.filters = route.filters /\ there.q = route.q
        /\ route.view = "invalid" => there.invalidPath[2] = route.invalidPath[2]
        /\ ParseRoute(canonical).manual = route.manual
        /\ RouteHash(ParseRoute(canonical), canonical) = canonical

(* A link leads where its literal says: to that run and that unit of that  *)
(* workspace (the current one when it names none), or, when an id cannot   *)
(* be part of an address, to the list and never to another run.  It closes *)
(* or moves the pane only if it names it.                                  *)
LinkReachesItsRun(literal, current) ==
    LET there == ParseRoute(RouteHash(literal, current))
        linkable == Unlinkable \notin {literal.runId, literal.unitId}
    IN  /\ there.runId = IF linkable THEN literal.runId ELSE None
        /\ there.unitId = IF linkable THEN literal.unitId ELSE None
        /\ there.view = IF there.unitId # None THEN "unit"
                        ELSE IF there.runId # None THEN "detail" ELSE "runs"
        /\ there.workspace = IF ~WorkspaceSetMode THEN None
                             ELSE FirstOf(literal.workspace,
                                          FirstOf(ParseRoute(current).workspace, Workspaces[1]))
        /\ there.filters = literal.filters /\ there.sort = FirstOf(literal.sort, DefaultSort)
        /\ there.runId # None => there.follow = literal.follow
        /\ there.manual = IF literal.manual = Omitted THEN ParseRoute(current).manual
                          ELSE ManualField(literal.manual)
=============================================================================
