--------------------------- MODULE MonitorClient ---------------------------
(***************************************************************************)
(* The Monitor's browser client (src/monitor/priv/static/app.js) with the  *)
(* invalidation hub and the SSE stream that feed it.                       *)
(*                                                                         *)
(* The client paints one view for the address in location.hash.  It        *)
(* fetches authoritative snapshots over HTTP, and is told over SSE only    *)
(* that something changed.  A version number stands for the content of a   *)
(* source; a snapshot is known by the version it was taken from.           *)
(*                                                                         *)
(* Each JavaScript function is an operator from browser state to browser   *)
(* state, under its own name; each task the event loop runs to completion  *)
(* (a hashchange, an SSE event, a settled fetch with the promise callbacks *)
(* it releases, a click) is one action.  A generation counter is used by   *)
(* the code only to ask "has it moved since?", so each request carries the *)
(* answer, fresh, and raising the counter makes the older ones stale.      *)
(***************************************************************************)
EXTENDS Integers, Sequences, FiniteSets

CONSTANTS
    Modes,          \* launch modes to explore, among "single" and "set"
    Workspaces,     \* the configured sources of workspace-set mode
    Runs,           \* run ids
    ChildRuns,      \* ids the inventory's rows name as children of a parent
    Unlisted,       \* versions whose bounded inventory lists no row
    Visits,         \* addresses to boot at, and to go to with the pane of the moment
    Faults,         \* answers other than the plain one, see Answers
    None,           \* null; also the source of single mode
    MaxChanges,     \* changes to the sources
    MaxActs,        \* operator actions
    MaxFaults,      \* answers other than the plain one
    MaxBreaks,      \* stream interruptions and hub restarts
    MaxTrouble      \* all of these together, in each mode

All == Workspaces \cup {None}
Maybe(S) == S \cup {None}

\* An address parseRoute returns: only the views of a run name one and may
\* follow it, and neither the overview nor what did not decode names a source.
WellFormed(r) ==
    /\ r \in [view: {"workspaces", "runs", "detail", "unit", "invalid"}, ws: All,
              run: Maybe(Runs), follow: BOOLEAN, raw: BOOLEAN, manual: BOOLEAN]
    /\ r.view \in {"detail", "unit"} <=> r.run # None
    /\ r.follow => r.run # None
    /\ r.view \in {"workspaces", "invalid"} => r.ws = None

\* The failure views and the records lastPaint keeps of them.
FollowStates ==
    {"degraded", "identity_conflict", "render_failure", "snapshot_unavailable",
     "unit_unavailable"}
ViewClasses ==
    FollowStates \cup {"resolved_child", "dropped_parent", "not_found",
                      "projection_unavailable", "monitor_defect"}
PaintRecords ==
    [by: {"follow", "unavailable", "defect"}, ws: All, run: Maybe(Runs), cls: Maybe(ViewClasses),
     failure: Maybe({"lost", "capped", "limit", "failed", "render"})]

ASSUME ClientAssumption ==
    /\ Modes \subseteq {"single", "set"}
    /\ IsFiniteSet(Workspaces)
    /\ "set" \in Modes => Workspaces # {}
    /\ None \notin Workspaces \cup Runs \cup (0 .. MaxChanges)
    /\ None \notin PaintRecords \cup ViewClasses \cup {"lost", "capped", "limit", "defect"}
    /\ None \notin [ws: All, run: Runs, ver: 0 .. MaxChanges,
                   body: {"ok", "other", "nounit", "hostile", "defect"}]
    /\ \A v \in Visits : WellFormed(v)
    /\ ChildRuns \subseteq Runs
    /\ {MaxChanges, MaxActs, MaxFaults, MaxBreaks} \subseteq Nat
    /\ MaxTrouble \in [{"single", "set"} -> Nat]

VARIABLES
    mode,           \* shellConfig: single workspace or workspace set
    ver,            \* the current version of each source
    hub,            \* PixirMonitor.InvalidationHub and the SSE process
    wire,           \* events sent to the browser, not yet dispatched
    b,              \* the browser: `state`, the address, the screen
    told,           \* the version of each source the events announced, by
                    \* naming it or by a gap in their sequence
    lost,           \* history: <<source, run, failure>>, when the last answer
                    \* about a run was that it is not projected, or its dead
                    \* end has returned since (DeadEndReturns)
    budget          \* changes, operator actions, faults and breaks so far

vars == <<mode, ver, hub, wire, b, told, lost, budget>>

Sources == IF mode = "set" THEN Workspaces ELSE {None}
Set == mode = "set"

(***************************************************************************)
(* Addresses: parseRoute and routeHash over them are module MonitorRoutes. *)
(* raw stands for a spelling that is not canonical (typed by hand); manual *)
(* for the manual overlay.                                                 *)
(***************************************************************************)
Deep(r) == r.view \in {"detail", "unit"}
Address(v, manual) ==
    [view |-> v.view, ws |-> v.ws, run |-> v.run, follow |-> v.follow, raw |-> v.raw,
     manual |-> manual]
Visitable ==
    {v \in Visits : v.view = "invalid" \/ (Set <=> (v.ws # None \/ v.view = "workspaces"))}
Subject(r) == <<r.ws, r.run>>
Canonical(r) == [r EXCEPT !.raw = FALSE]
UnderlyingKey(r) == [r EXCEPT !.raw = FALSE, !.manual = FALSE]

(***************************************************************************)
(* Answers to a run request.  "ok"; "other": another run's projection;     *)
(* "nounit": the addressed unit is absent; "hostile", "defect": content on *)
(* which the renderer throws, an ordinary error or a MonitorDefect;        *)
(* "lost", "capped": a structured 404 run_not_found, the second naming a   *)
(* parent dropped by the per-log cap; "limit": a 503 run_log_limit, the    *)
(* run itself being over the cap, which only single mode sends (a set's    *)
(* router rewrites it to workspace_unavailable); "failed": any other fetch *)
(* or decode failure.  A failure met while painting is "render".           *)
(***************************************************************************)
Losses == {"lost", "capped"}
\* The answers that say the run is not projected, and the failure views that do.
Absences == Losses \cup {"limit"}
LossClasses == {"degraded", "not_found", "resolved_child", "dropped_parent"}
FetchFailures == Absences \cup {"failed"}
\* Of which the router of a set sends all but the limit.
RunFailures == IF Set THEN FetchFailures \ {"limit"} ELSE FetchFailures
Answers(kind) ==
    {"ok"} \cup (Faults \cap (IF kind = "detail"
                              THEN RunFailures \cup {"other", "nounit", "hostile", "defect"}
                              ELSE {"failed"}))

-----------------------------------------------------------------------------
(***************************************************************************)
(* The screen.                                                             *)
(***************************************************************************)
Blank == [kind |-> "blank", ws |-> None, run |-> None, cls |-> None,
          ver |-> [w \in All |-> None], stale |-> {}, offer |-> FALSE, pane |-> FALSE]

\* The scoped inventory that is held, as its version.
HeldList(s, w) ==
    IF ~Set THEN s.list ELSE IF w = None THEN None ELSE s.snap[w].list

\* heldInventoryRows(route).length
HeldRows(s, w) == HeldList(s, w) # None /\ HeldList(s, w) \notin Unlisted

\* parentResolutionPanel(route) is not null: the id's licence is held and
\* some row names the id as its child.
Offered(s, w, run) ==
    run # None /\ s.dead # None /\ s.dead.run = run /\ run \in ChildRuns /\ HeldRows(s, w)

\* The source whose stale disclosure replaceContent prepends.
Disclosed(s) ==
    LET r == s.hash
        held == s.snap[r.ws]
    IN  IF ~Set \/ r.ws = None THEN {}
        ELSE IF r.view = "runs"
             THEN IF held.list # None /\ held.listErr THEN {r.ws} ELSE {}
             ELSE IF held.detail # None /\ held.detail.run = r.run /\ held.detailErr
                  THEN {r.ws} ELSE {}

ReplaceContent(s, view) ==
    [s EXCEPT !.painted = [view EXCEPT !.pane = s.hash.manual, !.stale = @ \cup Disclosed(s)]]

(***************************************************************************)
(* The failure views.  lastPaint records the call that painted one, so     *)
(* that a move of the manual overlay can repeat it; a failure of None is a *)
(* call without a failure object (a contradiction, an absent unit).        *)
(***************************************************************************)
FailureView(w, run, cls, offer) ==
    [Blank EXCEPT !.kind = "failure", !.ws = w, !.run = run, !.cls = cls, !.offer = offer]

RenderFollowErrorView(s, w, run, cls, failure) ==
    ReplaceContent(
        [s EXCEPT !.lastPaint = [by |-> "follow", ws |-> w, run |-> run, cls |-> cls,
                                 failure |-> failure]],
        FailureView(w, run, cls, Offered(s, w, run)))

\* Mutant: any failure of a run request reads as a loss.
RenderUnavailableAsLoss(s, failure) ==
    ReplaceContent(
        [s EXCEPT !.lastPaint = [by |-> "unavailable", ws |-> None, run |-> None,
                                 cls |-> None, failure |-> failure]],
        FailureView(s.hash.ws, s.hash.run,
                    IF s.hash.run # None /\ failure # None THEN "not_found"
                    ELSE "projection_unavailable", FALSE))

RenderUnavailable(s, failure) ==
    LET r == s.hash
        loss == r.run # None /\ failure \in Losses
        offer == Offered(s, r.ws, r.run)
        dropped == r.run # None /\ failure \in {"capped", "limit"}
        cls == CASE loss /\ offer -> "resolved_child"
                 [] dropped /\ ~(loss /\ offer) -> "dropped_parent"
                 [] loss /\ ~offer /\ ~dropped -> "not_found"
                 [] OTHER -> "projection_unavailable"
    IN  ReplaceContent(
            [s EXCEPT !.lastPaint = [by |-> "unavailable", ws |-> None, run |-> None,
                                     cls |-> None, failure |-> failure]],
            FailureView(r.ws, r.run, cls, offer /\ cls # "dropped_parent"))

RenderMonitorDefect(s) ==
    ReplaceContent(
        [s EXCEPT !.lastPaint = [by |-> "defect", ws |-> None, run |-> None,
                                 cls |-> None, failure |-> None]],
        FailureView(s.hash.ws, s.hash.run, "monitor_defect", FALSE))

\* A follow view on a following route, the plain failure view elsewhere.
FollowOr(s, cls, failure) ==
    IF s.hash.follow THEN RenderFollowErrorView(s, s.hash.ws, s.hash.run, cls, failure)
                     ELSE RenderUnavailable(s, failure)

-----------------------------------------------------------------------------
(***************************************************************************)
(* The projection views.  Throws says what the renderer for the current    *)
(* address would throw; a throw comes before replaceContent.               *)
(***************************************************************************)
Throws(s) ==
    IF /\ Deep(s.hash) /\ s.detail # None /\ s.detail.run = s.hash.run
       /\ s.detail.body \in {"hostile", "defect"}
    THEN s.detail.body ELSE None

RenderRuns(s) ==
    ReplaceContent(s, [Blank EXCEPT !.kind = "runs", !.ws = s.hash.ws, !.ver[s.hash.ws] = s.list])

\* Mutant: only renderCurrent drops the record, and this one is also called
\* directly.
RenderOverviewOverRecord(s) ==
    ReplaceContent(
        s, [Blank EXCEPT !.kind = "overview",
                         !.ver = [w \in All |-> IF w = None THEN None ELSE s.snap[w].list],
                         !.stale = {w \in Workspaces : s.snap[w].listErr}])

RenderWorkspaceOverview(s) ==
    ReplaceContent(
        [s EXCEPT !.lastPaint = None],
        [Blank EXCEPT !.kind = "overview",
                      !.ver = [w \in All |-> IF w = None THEN None ELSE s.snap[w].list],
                      !.stale = {w \in Workspaces : s.snap[w].listErr}])

\* The held projection, in the view of the run or of one of its units.
PaintDetail(s) ==
    IF Throws(s) # None THEN s
    ELSE ReplaceContent(s, [Blank EXCEPT !.kind = "run", !.ws = s.hash.ws, !.run = s.hash.run,
                                         !.ver[s.detail.ws] = s.detail.ver])

RenderDetail(s) ==
    IF s.detail = None THEN FollowOr(s, "snapshot_unavailable", None)
    ELSE IF s.detail.run # s.hash.run THEN FollowOr(s, "identity_conflict", None)
    ELSE PaintDetail(s)

RenderUnit(s) ==
    IF s.detail = None THEN FollowOr(s, "snapshot_unavailable", None)
    ELSE IF s.detail.run # s.hash.run THEN FollowOr(s, "identity_conflict", None)
    ELSE IF s.detail.body = "nounit" THEN FollowOr(s, "unit_unavailable", None)
    ELSE PaintDetail(s)

RenderCurrent(s) ==
    LET t == [s EXCEPT !.lastPaint = None]
    IN  CASE s.hash.view = "workspaces" -> RenderWorkspaceOverview(t)
          [] s.hash.view = "runs" -> RenderRuns(t)
          [] s.hash.view = "unit" -> RenderUnit(t)
          [] s.hash.view = "invalid" -> RenderUnavailable(t, None)
          [] OTHER -> RenderDetail(t)

-----------------------------------------------------------------------------
(***************************************************************************)
(* Requests.  id tells the requests of one source's list apart; a wait is  *)
(* the promise callback that runs when all of its requests are settled.    *)
(***************************************************************************)
Request(kind, w, run, id) ==
    [kind |-> kind, ws |-> w, run |-> run, id |-> id, fresh |-> TRUE, ans |-> None]
Wait(on, then, run) == [on |-> on, then |-> then, run |-> run, fresh |-> TRUE]

Lists(s, w) == {q \in s.reqs : q.kind = "list" /\ q.ws = w}
NewId(s, w) == CHOOSE i \in 0 .. Cardinality(Lists(s, w)) : \A q \in Lists(s, w) : q.id # i

\* state.generation moves on
Bump(s) ==
    [s EXCEPT !.reqs = {[q EXCEPT !.fresh = q.fresh /\ q.kind = "list"] : q \in @},
              !.waits = {[x EXCEPT !.fresh = x.fresh /\ x.then # "overview"] : x \in @}]

\* refetchWorkspaceList for each source of W, then the callback
RefetchWorkspaceList(s, W, then, run) ==
    [s EXCEPT
        !.reqs = {[q EXCEPT !.fresh = q.fresh /\ ~(q.kind = "list" /\ q.ws \in W)] : q \in @}
                 \cup {Request("list", w, None, NewId(s, w)) : w \in W},
        !.waits = @ \cup {Wait({<<w, NewId(s, w)>> : w \in W}, then, run)}]

Fetch(s, kind, w, run) == [s EXCEPT !.reqs = @ \cup {Request(kind, w, run, 0)}]

\* The synchronous part of refresh; nothing is awaited on an invalid route.
Refresh(s) ==
    LET r == s.hash
        t == [Bump(s) EXCEPT !.routed = Subject(r), !.flight = TRUE]
    IN  CASE r.view = "invalid" -> [RenderCurrent(t) EXCEPT !.flight = FALSE]
          [] r.view = "workspaces" -> RefetchWorkspaceList(t, Workspaces, "overview", None)
          [] r.view = "runs" /\ Set -> RefetchWorkspaceList(t, {r.ws}, "land", None)
          [] r.view = "runs" /\ ~Set ->
                 Fetch([t EXCEPT !.detail = None, !.detailId = None, !.conflict = FALSE],
                       "runs", None, None)
          [] OTHER -> Fetch(t, "detail", r.ws, r.run)

\* Mutant: a cause that arrives mid-flight starts a refresh of its own.
RefreshUnshared(s) == Refresh(s)

RefreshSingleFlight(s) ==
    IF s.flight THEN [s EXCEPT !.again = TRUE] ELSE Refresh(s)

\* Mutant: the cause remembered mid-flight is forgotten.
LandedForgetful(s) == [s EXCEPT !.flight = FALSE, !.again = FALSE]

\* Mutant: the cause is not forgotten once it is replayed.
LandedStubborn(s) ==
    IF s.again THEN Refresh([s EXCEPT !.flight = FALSE]) ELSE [s EXCEPT !.flight = FALSE]

\* the finally of refreshSingleFlight
Landed(s) ==
    IF s.again THEN Refresh([s EXCEPT !.flight = FALSE, !.again = FALSE])
               ELSE [s EXCEPT !.flight = FALSE]
-----------------------------------------------------------------------------
(***************************************************************************)
(* Failures.  A structured run_not_found licenses offering the parents     *)
(* that observed the id as their child (dead); the inventory to find them  *)
(* in is acquired once per id (resTried), one acquisition at a time        *)
(* (resBusy).                                                              *)
(***************************************************************************)
AcquireInventoryForResolution(s, r) ==
    IF s.resBusy \/ s.resTried = r.run THEN s
    ELSE LET t == [s EXCEPT !.resBusy = TRUE, !.resTried = r.run]
         IN  IF Set THEN RefetchWorkspaceList(t, {r.ws}, "resolve", r.run)
                    ELSE Fetch(t, "resolve", None, r.run)

\* The part of renderProjectionFailure that comes before the view is chosen.
Classify(s, failure) ==
    LET r == s.hash
        unavailable == r.run # None /\ failure # "render"
        loss == r.run # None /\ failure \in Losses
        for == IF loss THEN r.run ELSE None
        t == [s EXCEPT !.detail = IF unavailable THEN None ELSE @,
                       !.conflict = @ /\ ~unavailable,
                       !.detailId = IF loss THEN None ELSE @,
                       !.resTried = IF @ # for THEN None ELSE @,
                       !.dead = IF loss THEN [run |-> r.run, failure |-> failure] ELSE None]
    IN  IF loss /\ ~HeldRows(t, r.ws) THEN AcquireInventoryForResolution(t, r) ELSE t

RenderProjectionFailure(s, failure) ==
    LET r == s.hash
        conflict == /\ r.follow /\ r.run # None /\ s.conflict
                    /\ s.detail # None /\ s.detail.run # r.run
        t == Classify(s, failure)
        dropped(u) == [u EXCEPT !.detail = None, !.conflict = FALSE]
        follow(u, cls) == RenderFollowErrorView(u, r.ws, r.run, cls, failure)
        following == r.follow /\ r.run # None
    IN  CASE following /\ failure \in Losses -> follow(t, "degraded")
          [] following /\ failure = "render" /\ conflict ->
                 dropped(follow(t, "identity_conflict"))
          [] following /\ failure = "render" /\ ~conflict /\ t.detailId = r.run
               /\ (Set => t.detailWs = r.ws) -> dropped(follow(t, "render_failure"))
          [] following /\ failure = "render" /\ ~conflict
               /\ ~(t.detailId = r.run /\ (Set => t.detailWs = r.ws)) ->
                 follow(t, "snapshot_unavailable")
          [] following /\ failure \in {"limit", "failed"} -> follow(t, "snapshot_unavailable")
          [] ~following /\ failure = "render" -> dropped(RenderUnavailable(t, failure))
          [] OTHER -> RenderUnavailable(t, failure)

\* renderRenderErrorSafely on what the renderer threw
RenderError(s, thrown) ==
    IF thrown = "defect" THEN RenderMonitorDefect(s) ELSE RenderProjectionFailure(s, "render")

RenderCurrentGuarded(s) ==
    LET t == RenderCurrent(s)
    IN  IF Throws(s) = None THEN t ELSE RenderError(t, Throws(s))

\* replayLastPaint: the recorded call reads the address of the moment.
ReplayLastPaint(s) ==
    LET p == s.lastPaint
        t == [s EXCEPT !.lastPaint = None]
    IN  CASE p.by = "follow" -> RenderFollowErrorView(t, p.ws, p.run, p.cls, p.failure)
          [] p.by = "unavailable" -> RenderUnavailable(t, p.failure)
          [] p.by = "defect" -> RenderMonitorDefect(t)

-----------------------------------------------------------------------------
(***************************************************************************)
(* Settled requests, with the callbacks they release.                      *)
(***************************************************************************)
Projection(q) == [ws |-> q.ws, run |-> q.ans.run, ver |-> q.ans.ver, body |-> q.ans.out]

\* The end of a confirmed or contradicted detail that was painted.
DropConflict(s) ==
    IF s.conflict THEN [s EXCEPT !.detail = None, !.detailWs = None, !.conflict = FALSE] ELSE s

\* The catch of refresh in workspace-set mode: the held snapshot is stamped
\* as stale and painted again, or the failure is.
SetDetailFailed(s, q, failure) ==
    LET t == [s EXCEPT !.snap[q.ws].detailErr = TRUE]
        held == t.snap[q.ws].detail
        u == [t EXCEPT !.detail = held, !.detailId = q.run, !.detailWs = q.ws, !.conflict = FALSE]
    IN  IF held # None /\ held.run = q.run THEN RenderCurrentGuarded(u)
        ELSE RenderProjectionFailure(t, failure)

SetDetailArrives(s, q) ==
    LET confirmed == q.ans.run = q.run
        t == [s EXCEPT !.conflict = ~confirmed, !.detail = Projection(q),
                       !.detailId = IF confirmed THEN q.run ELSE None,
                       !.detailWs = IF confirmed THEN q.ws ELSE None,
                       !.snap[q.ws] = IF confirmed
                                      THEN [@ EXCEPT !.detail = Projection(q), !.detailErr = FALSE]
                                      ELSE @]
    IN  CASE q.ans.out \in FetchFailures -> SetDetailFailed(s, q, q.ans.out)
          [] q.ans.out \notin FetchFailures /\ Throws(t) = None -> DropConflict(RenderCurrent(t))
          [] q.ans.out \notin FetchFailures /\ Throws(t) = "defect" ->
                 RenderMonitorDefect(RenderCurrent(t))
          [] OTHER -> SetDetailFailed(RenderCurrent(t), q, "render")

SingleDetailArrives(s, q) ==
    LET confirmed == q.ans.run = q.run
        t == [s EXCEPT !.conflict = ~confirmed, !.detail = Projection(q),
                       !.detailId = IF confirmed THEN q.run ELSE None]
    IN  CASE q.ans.out \in FetchFailures -> RenderProjectionFailure(s, q.ans.out)
          [] q.ans.out \notin FetchFailures /\ Throws(t) # None ->
                 RenderError(RenderCurrent(t), Throws(t))
          [] q.ans.out \notin FetchFailures /\ Throws(t) = None /\ confirmed -> RenderCurrent(t)
          [] OTHER -> [RenderCurrent(t) EXCEPT !.detail = None, !.conflict = FALSE]

RunsArrives(s, q) ==
    IF q.ans.out \in FetchFailures THEN RenderProjectionFailure(s, q.ans.out)
    ELSE RenderCurrentGuarded([s EXCEPT !.list = q.ans.ver, !.detail = None, !.detailId = None,
                                        !.conflict = FALSE])

\* The finally of an acquisition: only the dead end that asked is repainted.
Resolved(s, run) ==
    LET t == IF s.dead # None /\ s.dead.run = run /\ s.hash.run = run /\ s.painted.kind = "failure"
             THEN RenderProjectionFailure(s, s.dead.failure) ELSE s
    IN  [t EXCEPT !.resBusy = FALSE]

\* The finally of refetchWorkspaceList, for the latest request of its source.
ListPainted(s, q) ==
    LET held == s.snap[q.ws].list
    IN  CASE s.hash.view = "workspaces" -> RenderWorkspaceOverview(s)
          [] s.hash.view = "runs" /\ s.hash.ws = q.ws /\ held # None ->
                 RenderCurrentGuarded([s EXCEPT !.list = held])
          [] s.hash.view = "runs" /\ s.hash.ws = q.ws /\ held = None ->
                 RenderProjectionFailure(s, q.ans.out)
          [] OTHER -> s

\* Mutant: an older request of the source may answer last.
ListCommittedLate(s, q) ==
    ListPainted(
        IF q.ans.out = "ok"
        THEN [s EXCEPT !.snap[q.ws].list = q.ans.ver, !.snap[q.ws].listErr = FALSE]
        ELSE [s EXCEPT !.snap[q.ws].listErr = TRUE], q)

ListCommitted(s, q) ==
    IF ~q.fresh THEN s
    ELSE ListPainted(
             IF q.ans.out = "ok"
             THEN [s EXCEPT !.snap[q.ws].list = q.ans.ver, !.snap[q.ws].listErr = FALSE]
             ELSE [s EXCEPT !.snap[q.ws].listErr = TRUE], q)

\* The callback that waited for the last of its requests.
Released(s, x) ==
    CASE x.then = "land" -> Landed(s)
      [] x.then = "overview" -> Landed(IF x.fresh THEN RenderWorkspaceOverview(s) ELSE s)
      [] x.then = "deep" -> RefreshSingleFlight(s)
      [] x.then = "resolve" -> Resolved(s, x.run)
      [] OTHER -> s

ListArrives(s, q) ==
    LET one == <<q.ws, q.id>>
        t == ListCommitted(s, q)
        mine(x) == one \in x.on
        last == {x \in t.waits : mine(x) /\ x.on = {one}}
        u == [t EXCEPT !.waits = {[x EXCEPT !.on = @ \ {one}] : x \in @ \ last}]
    IN  IF last = {} THEN u ELSE Released(u, CHOOSE x \in last : TRUE)

Arrives(s, q) ==
    LET t == [s EXCEPT !.reqs = @ \ {q}]
    IN  CASE q.kind = "list" -> ListArrives(t, q)
          [] q.kind = "resolve" ->
                 Resolved(IF q.fresh /\ q.ans.out = "ok" THEN [t EXCEPT !.list = q.ans.ver] ELSE t,
                          q.run)
          [] q.kind \in {"detail", "runs"} /\ ~q.fresh -> Landed(t)
          [] q.kind = "runs" /\ q.fresh -> Landed(RunsArrives(t, q))
          [] q.kind = "detail" /\ q.fresh ->
                 Landed(IF Set THEN SetDetailArrives(t, q) ELSE SingleDetailArrives(t, q))
-----------------------------------------------------------------------------
(***************************************************************************)
(* Stream events and address changes.                                      *)
(***************************************************************************)
\* An event that does not continue the sequence, when there is one.
Anomalous(s, e) == s.lastEventId # None /\ e.seq # s.lastEventId + 1

\* Mutant: a gap in the sequence refetches only the source it names.
HandleInvalidationAsNamed(s, e) ==
    LET r == s.hash
        t == [s EXCEPT !.lastEventId = IF @ = None \/ e.seq > @ THEN e.seq ELSE @]
    IN  IF ~Set THEN RefreshSingleFlight(t)
        ELSE RefetchWorkspaceList(t, {e.ws}, IF Deep(r) /\ r.ws = e.ws THEN "deep" ELSE "nothing", None)

HandleInvalidation(s, e) ==
    LET r == s.hash
        t == [s EXCEPT !.lastEventId = IF @ = None \/ e.seq > @ THEN e.seq ELSE @]
        W == IF Anomalous(s, e) THEN Workspaces ELSE {e.ws}
    IN  IF ~Set THEN RefreshSingleFlight(t)
        ELSE RefetchWorkspaceList(t, W, IF Deep(r) /\ r.ws \in W THEN "deep" ELSE "nothing", None)

\* source.onopen
StreamOpened(s) ==
    LET t == [s EXCEPT !.stream = "connected"]
    IN  IF s.stream = "down" THEN RefreshSingleFlight([t EXCEPT !.lastEventId = None]) ELSE t

\* source.onerror
StreamFailed(s) ==
    LET t == [s EXCEPT !.stream = "down"]
    IN  IF s.stream = "down" THEN t ELSE RefreshSingleFlight(t)

\* .error-view[data-follow-state]
FollowShown(s) == s.painted.cls \in FollowStates

EmptyApp(s) == [s EXCEPT !.painted = Blank, !.lastPaint = None]

\* Opening, moving or closing the manual over the view that is painted.
ManualOnly(s) ==
    /\ s.base = UnderlyingKey(s.hash)
    /\ s.routed = Subject(s.hash)
    /\ s.manual # s.hash.manual
    /\ s.painted.kind # "blank"

\* Mutant: the view under the pane is derived again instead of replayed.
ManualRederived(s) == RenderCurrentGuarded([s EXCEPT !.manual = s.hash.manual])

ManualMoved(s) ==
    LET t == [s EXCEPT !.manual = s.hash.manual]
    IN  IF t.lastPaint # None THEN ReplayLastPaint(t) ELSE RenderCurrentGuarded(t)

\* Mutant: the generation does not move, so a late answer is still used.
RoutedUnbumped(s) ==
    LET r == s.hash
        t == [s EXCEPT !.manual = r.manual, !.base = UnderlyingKey(r), !.again = @ \/ s.flight,
                       !.routed = Subject(r), !.force = FALSE]
    IN  IF s.routed = Subject(r) THEN t
        ELSE EmptyApp([t EXCEPT !.list = None, !.detail = None, !.detailId = None,
                                !.detailWs = None, !.conflict = FALSE])

\* Mutant: the refresh that navigation supersedes is not replayed.
RoutedUnreplayed(s) ==
    LET r == s.hash
        t == [Bump(s) EXCEPT !.manual = r.manual, !.base = UnderlyingKey(r),
                             !.routed = Subject(r), !.force = FALSE]
    IN  IF s.routed = Subject(r) THEN t
        ELSE EmptyApp([t EXCEPT !.list = None, !.detail = None, !.detailId = None,
                                !.detailWs = None, !.conflict = FALSE])

\* What routeChanged does before it looks at the view.
Routed(s) ==
    LET r == s.hash
        t == [Bump(s) EXCEPT !.manual = r.manual, !.base = UnderlyingKey(r), !.again = @ \/ s.flight,
                             !.routed = Subject(r), !.force = FALSE]
    IN  IF s.routed = Subject(r) THEN t
        ELSE EmptyApp([t EXCEPT !.list = None, !.detail = None, !.detailId = None,
                                !.detailWs = None, !.conflict = FALSE])

OverviewRouted(s, runChanged) ==
    LET t == [s EXCEPT !.detail = None, !.detailId = None, !.conflict = FALSE]
        known == \A w \in Workspaces : s.snap[w].list # None \/ s.snap[w].listErr
    IN  CASE ~known -> RefreshSingleFlight(t)
          [] known /\ runChanged -> RefreshSingleFlight(RenderCurrentGuarded(t))
          [] known /\ ~runChanged -> RenderCurrentGuarded(t)

\* Mutant: the source's id is taken for its held list.
RunsRoutedOnId(s, force) ==
    LET t == [s EXCEPT !.detail = None, !.detailId = None, !.conflict = FALSE,
                       !.list = IF Set THEN s.hash.ws ELSE @]
    IN  IF force \/ t.list = None THEN RefreshSingleFlight(t) ELSE RenderCurrentGuarded(t)

RunsRouted(s, force) ==
    LET t == [s EXCEPT !.detail = None, !.detailId = None, !.conflict = FALSE,
                       !.list = IF Set THEN s.snap[s.hash.ws].list ELSE @]
    IN  IF force \/ t.list = None THEN RefreshSingleFlight(t) ELSE RenderCurrentGuarded(t)

RunRouted(s, force, runChanged) ==
    LET r == s.hash
        matching == /\ s.detail # None /\ s.detailId = r.run /\ (Set => s.detailWs = r.ws)
                    /\ s.detail.run = r.run
        stale == \/ s.detailId \notin {None, r.run}
                 \/ Set /\ s.detailWs \notin {None, r.ws}
                 \/ s.detail # None /\ ~matching
        preserve == r.follow /\ ~runChanged /\ s.detail = None /\ s.detailId = r.run
        t == IF stale \/ (FollowShown(s) /\ (~matching \/ runChanged))
             THEN EmptyApp([s EXCEPT !.detail = None, !.detailWs = None, !.conflict = FALSE,
                                     !.detailId = IF preserve THEN r.run ELSE None])
             ELSE s
    IN  IF matching /\ ~force THEN RenderCurrentGuarded(t) ELSE RefreshSingleFlight(t)

RouteChanged(s) ==
    LET r == s.hash
        runChanged == s.routed # Subject(r)
        t == Routed(s)
    IN  CASE ManualOnly(s) -> ManualMoved(s)
          [] ~ManualOnly(s) /\ r.view = "invalid" -> RenderCurrentGuarded(t)
          [] ~ManualOnly(s) /\ r.view = "workspaces" -> OverviewRouted(t, runChanged)
          [] ~ManualOnly(s) /\ r.view = "runs" -> RunsRouted(t, s.force)
          [] ~ManualOnly(s) /\ Deep(r) -> RunRouted(t, s.force, runChanged)

-----------------------------------------------------------------------------
(***************************************************************************)
(* Initial state: the page is booted on an address, the first refresh is   *)
(* started and the EventSource is connecting.                              *)
(***************************************************************************)
Boot(r) ==
    Refresh([
        hash |-> r, pending |-> FALSE, routed |-> <<None, None>>, painted |-> Blank,
        lastPaint |-> None, list |-> None, detail |-> None, detailId |-> None, detailWs |-> None,
        conflict |-> FALSE, flight |-> FALSE, again |-> FALSE, force |-> FALSE,
        manual |-> r.manual, base |-> UnderlyingKey(r),
        snap |-> [w \in Workspaces |-> [list |-> None, listErr |-> FALSE,
                                        detail |-> None, detailErr |-> FALSE]],
        dead |-> None, resTried |-> None, resBusy |-> FALSE,
        lastEventId |-> None, stream |-> "connecting", reqs |-> {}, waits |-> {}])

Init ==
    /\ mode \in Modes
    /\ ver = [w \in All |-> 0]
    /\ hub = [on |-> FALSE, seq |-> 0, mail |-> None, queued |-> None]
    /\ wire = <<>>
    /\ \E v \in Visitable : b = Boot(Address(v, v.manual))
    /\ told = [w \in All |-> 0]
    /\ lost = {}
    /\ budget = [changes |-> 0, acts |-> 0, faults |-> 0, breaks |-> 0]

Spend(item, limit) ==
    /\ budget[item] < limit
    /\ budget.changes + budget.acts + budget.faults + budget.breaks < MaxTrouble[mode]
    /\ budget' = [budget EXCEPT ![item] = @ + 1]

-----------------------------------------------------------------------------
(***************************************************************************)
(* The server.                                                             *)
(***************************************************************************)
\* A Log changes and LogWatcher's poll publishes the hint: a subscriber has
\* one delivered hint and one coalesced hint, which the next replaces.
Publish(w) ==
    LET v == [ver EXCEPT ![w] = @ + 1]
        hint == [seq |-> hub.seq + 1, ws |-> w, at |-> v]
    IN  /\ Spend("changes", MaxChanges)
        /\ ver' = v
        /\ hub' = [hub EXCEPT !.seq = @ + 1,
                              !.mail = IF hub.on /\ @ = None THEN hint ELSE @,
                              !.queued = IF hub.on /\ hub.mail # None THEN hint ELSE @]
        /\ UNCHANGED <<mode, wire, b, told, lost>>

\* stream_loop: acknowledge the hint, which releases the coalesced one, and
\* write the frame.
Relay ==
    /\ hub.mail # None
    /\ hub' = [hub EXCEPT !.mail = hub.queued, !.queued = None]
    /\ wire' = Append(wire, hub.mail)
    /\ UNCHANGED <<mode, ver, b, told, lost, budget>>

\* The hub's process restarts: its sequence and its subscribers are gone,
\* the SSE process and its connection stay.
HubRestarts ==
    /\ Spend("breaks", MaxBreaks)
    /\ hub' = [hub EXCEPT !.on = FALSE, !.seq = 0, !.queued = None]
    /\ UNCHANGED <<mode, ver, wire, b, told, lost>>

\* The server reads the source and answers.
ServerAnswers(q) ==
    /\ q.ans = None
    /\ \E out \in Answers(q.kind),
          run \in Runs \cup {None} :
          /\ IF out = "other" THEN run \in Runs \ {q.run} ELSE run = q.run
          /\ IF out = "ok" THEN UNCHANGED budget ELSE Spend("faults", MaxFaults)
          /\ b' = [b EXCEPT !.reqs = (@ \ {q}) \cup
                    {[q EXCEPT !.ans = [out |-> out, run |-> run, ver |-> ver[q.ws]]]}]
    /\ UNCHANGED <<mode, ver, hub, wire, told, lost>>

(***************************************************************************)
(* Tasks of the browser's event loop.                                      *)
(***************************************************************************)
\* The licence of a dead end (state.resolutionFor) outlives an answer that is
\* no loss and is painted as an identity conflict, an absent unit or a Monitor
\* defect: an acquisition that ends then repaints the dead end over that view,
\* which is not its own.
DeadEndReturns(q) ==
    /\ b.dead # None /\ b.dead.run = b.hash.run
    /\ b.painted.kind = "failure"
    /\ b.painted.cls \notin LossClasses \/ b.lastPaint.failure # b.dead.failure
    /\ \/ q.kind = "resolve" /\ q.run = b.hash.run
       \/ q.kind = "list" /\ \E x \in b.waits : /\ x.then = "resolve" /\ x.run = b.hash.run
                                                /\ x.on = {<<q.ws, q.id>>}

ReceiveAnswer(q) ==
    /\ q.ans # None
    /\ b' = Arrives(b, q)
    /\ lost' = CASE q.kind = "detail" /\ q.fresh ->
                        {l \in lost : <<l[1], l[2]>> # <<q.ws, q.run>>}
                        \cup {<<q.ws, q.run, f>> : f \in {q.ans.out} \cap Absences}
                 [] ~(q.kind = "detail" /\ q.fresh) /\ DeadEndReturns(q) ->
                        lost \cup {<<b.hash.ws, b.hash.run, b.dead.failure>>}
                 [] OTHER -> lost
    /\ UNCHANGED <<mode, ver, hub, wire, told, budget>>

DeliverEvent ==
    /\ wire # <<>>
    /\ wire' = Tail(wire)
    /\ b' = HandleInvalidation(b, Head(wire))
    /\ LET e == Head(wire)
           gap == b.lastEventId # None /\ e.seq # b.lastEventId + 1
       IN  told' = [w \in All |-> IF gap \/ w = e.ws THEN e.at[w] ELSE told[w]]
    /\ UNCHANGED <<mode, ver, hub, lost, budget>>

\* A new SSE process subscribes, and the browser sees the stream open.
StreamOpens ==
    /\ b.stream # "connected"
    /\ hub' = [hub EXCEPT !.on = TRUE, !.mail = None, !.queued = None]
    /\ b' = StreamOpened(b)
    /\ UNCHANGED <<mode, ver, wire, told, lost, budget>>

\* The stream's lifetime or event count is reached, or the network fails:
\* what was on the wire is gone.
StreamBreaks ==
    /\ b.stream # "down"
    /\ Spend("breaks", MaxBreaks)
    /\ hub' = [hub EXCEPT !.on = FALSE, !.mail = None, !.queued = None]
    /\ wire' = <<>>
    /\ b' = StreamFailed(b)
    /\ UNCHANGED <<mode, ver, told, lost>>

HashChange ==
    /\ b.pending
    /\ b' = RouteChanged([b EXCEPT !.pending = FALSE])
    /\ UNCHANGED <<mode, ver, hub, wire, told, lost, budget>>

(***************************************************************************)
(* The operator, who acts on a page whose address has been handled.        *)
(***************************************************************************)
GoTo(s, r) == [s EXCEPT !.hash = r, !.pending = (r # s.hash)]

Operator(next) ==
    /\ ~b.pending
    /\ Spend("acts", MaxActs)
    /\ b' = next
    /\ UNCHANGED <<mode, ver, hub, wire, told, lost>>

\* A link or the address bar; an omitted manual field inherits the pane.
Navigate(v) ==
    LET r == Address(v, b.hash.manual)
    IN  r # b.hash /\ Operator(GoTo(b, r))

ToggleManual == Operator(GoTo(b, [Canonical(b.hash) EXCEPT !.manual = ~@]))

\* "Refetch authoritative snapshot" and "Retry followed run"
Refetch == FollowShown(b) /\ Operator(RefreshSingleFlight(b))

Retry ==
    LET r == [Canonical(b.hash) EXCEPT !.follow = TRUE]
    IN  /\ FollowShown(b)
        /\ Operator(IF b.hash.run # None /\ b.hash # r
                    THEN GoTo([b EXCEPT !.force = TRUE], r)
                    ELSE RefreshSingleFlight(b))

\* "Retry this source": on the overview, or with the list's disclosure.
RetrySource(w) ==
    /\ w \in b.painted.stale
    /\ b.painted.kind \in {"overview", "runs"}
    /\ Operator(RefetchWorkspaceList(b, {w}, "nothing", None))

Next ==
    \/ \E w \in Sources : Publish(w) \/ RetrySource(w)
    \/ Relay \/ HubRestarts \/ StreamOpens \/ StreamBreaks
    \/ \E q \in b.reqs : ServerAnswers(q) \/ ReceiveAnswer(q)
    \/ DeliverEvent \/ HashChange
    \/ \E v \in Visitable : Navigate(v)
    \/ ToggleManual \/ Refetch \/ Retry

Spec == Init /\ [][Next]_vars
-----------------------------------------------------------------------------
(***************************************************************************)
(* Properties.                                                             *)
(***************************************************************************)
Versions == 0 .. MaxChanges
VerOrNone == Versions \cup {None}
AddressType ==
    [view: {"workspaces", "runs", "detail", "unit", "invalid"}, ws: All, run: Maybe(Runs),
     follow: BOOLEAN, raw: BOOLEAN, manual: BOOLEAN]
DetailType == Maybe([ws: All, run: Runs, ver: Versions,
                     body: {"ok", "other", "nounit", "hostile", "defect"}])
ViewType ==
    [kind: {"blank", "overview", "runs", "run", "failure"}, ws: All, run: Maybe(Runs),
     cls: Maybe(ViewClasses),
     ver: [All -> VerOrNone], stale: SUBSET Workspaces, offer: BOOLEAN, pane: BOOLEAN]

\* The browser state holds what the code's variables can hold.
TypeOK ==
    /\ b.hash \in AddressType /\ b.base \in AddressType
    /\ b.routed \in All \X Maybe(Runs)
    /\ b.painted \in ViewType
    /\ b.list \in VerOrNone /\ b.detail \in DetailType
    /\ b.detailId \in Maybe(Runs) /\ b.detailWs \in All
    /\ {b.pending, b.manual, b.conflict, b.flight, b.again, b.force, b.resBusy} \subseteq BOOLEAN
    /\ \A w \in Workspaces : b.snap[w].list \in VerOrNone /\ b.snap[w].detail \in DetailType

\* Nothing the client waits for is on its way.
Settled == b.reqs = {} /\ ~b.pending

\* Whatever the order of clicks, answers and events, a client that has
\* come to rest shows the address it is at and the pane it asks for: never
\* an emptied app (routeChanged empties it and relies on a fetch to fill
\* it), never the run or the source that was there before.
SettledViewIsRouted ==
    Settled =>
        /\ b.painted.kind \in
               CASE b.hash.view = "workspaces" -> {"overview"}
                 [] b.hash.view = "runs" -> {"runs", "failure"}
                 [] b.hash.view = "invalid" -> {"failure"}
                 [] Deep(b.hash) -> {"run", "failure"}
        /\ <<b.painted.ws, b.painted.run>> = Subject(b.hash)
        /\ b.painted.pane = b.hash.manual

\* The work that is still to come, each cause weighing more than all it can
\* start: a request is answered and then received, and a run request may ask
\* for an inventory besides; a refresh may read every list.
RefreshWork == 2 * Cardinality(Workspaces) + 4
ReplayWork == RefreshWork + 1
FrameWork == 2 * Cardinality(Workspaces) + ReplayWork + 1
Number(cause) == IF cause THEN 1 ELSE 0
Work ==
    Cardinality(b.reqs) + Cardinality({q \in b.reqs : q.ans = None})
    + 2 * Cardinality({q \in b.reqs : q.kind = "detail"})
    + ReplayWork * (Number(b.again) + Cardinality({x \in b.waits : x.then = "deep"}))
    + (ReplayWork + 1) * Number(b.pending)
    + FrameWork * Len(wire)
    + (FrameWork + 1) * (Number(hub.mail # None) + Number(hub.queued # None))

\* A client that is left alone comes to rest: replayed refreshes, lists
\* refetched for an event, run views refreshed after them and inventories
\* acquired for a dead end never keep one another going.  Every step that is
\* not a trouble from outside (a change, a click, a fault, the stream opening
\* or breaking) leaves less work than it found.
WorkRunsOut == [][budget' = budget /\ b'.stream = b.stream => Work' < Work]_vars

\* What a delivered event announced is on the screen of a client at rest,
\* or the screen says the source is stale: coalesced hints and gaps in the
\* sequence, requests superseded by navigation and answers that failed do
\* not leave an older snapshot painted as current.  (The run list of single
\* mode is ToldListIsShown.)
Current(w) ==
    w \in b.painted.stale \/ (b.painted.ver[w] # None /\ b.painted.ver[w] >= told[w])
ToldIsShown ==
    /\ Settled /\ b.painted.kind = "run" => Current(b.painted.ws)
    /\ Settled /\ Set /\ b.painted.kind = "runs" => Current(b.painted.ws)
    /\ Settled /\ b.painted.kind = "overview" => \A w \in Workspaces : Current(w)

\* The same of the run list of single mode: a hint requires a refetch
\* (src/monitor/README.md), whatever address it finds the client at.
ToldListIsShown == Settled /\ ~Set /\ b.painted.kind = "runs" => Current(None)

\* What the refresh in flight waits for.
Awaited ==
    {q \in b.reqs : q.kind \in {"detail", "runs"}}
    \cup {x \in b.waits : x.then \in {"land", "overview"}}

\* refreshSingleFlight: bursts of events, navigations and retries share one
\* refresh, and the handle of a refresh is released exactly when it ends.
SingleFlight ==
    /\ b.flight <=> Awaited # {}
    /\ \A x, y \in Awaited : x = y

\* An answer that will still be used is an answer about the address the
\* client is at, so no late answer repaints another run's page.
FreshAnswerIsRouted ==
    \A q \in b.reqs :
        q.fresh /\ q.kind \in {"detail", "runs"} /\ ~b.pending => <<q.ws, q.run>> = Subject(b.hash)

\* A refresh that navigation superseded is run again when it lands: the
\* last cause is never dropped.
SupersededIsReplayed == \A x \in Awaited : x.fresh \/ b.again

\* lastPaint is the record of the failure view that is on the screen, and
\* there is none while a projection is.
LastPaintDescribesScreen == b.lastPaint # None <=> b.painted.kind = "failure"

\* A client at rest says that a run is not projected only if the last
\* answer about it said so, in the words the view is for: a dropped parent
\* only after a run_not_found that named one or the run's own run_log_limit,
\* a plain not-found only after a run_not_found that named none, and any
\* other loss after a run_not_found; or if the dead end of an earlier one was
\* repainted by its acquisition (DeadEndReturns).
Grounds(cls) ==
    CASE cls = "dropped_parent" -> {"capped", "limit"}
      [] cls = "not_found" -> {"lost"}
      [] OTHER -> Losses
LossIsStructured ==
    Settled /\ b.painted.cls \in LossClasses =>
        \E f \in Grounds(b.painted.cls) : <<b.hash.ws, b.hash.run, f>> \in lost

\* The version that is held of what the screen shows of w.
At(s) == <<s.detail.ws, s.detail.run>>
HeldVer(s, w) ==
    IF s.painted.kind = "run"
    THEN IF s.detail # None /\ At(s) = <<s.painted.ws, s.painted.run>> THEN s.detail.ver ELSE None
    ELSE HeldList(s, w)

\* Moving only the manual overlay issues no request, and the view of the
\* address stays what it was, failure views included; only the parents of
\* an id that is not projected come and go with the inventory that names them.
\* (Unless the client is at rest, the view may be one that was painted between
\* a click and its hashchange and rests on nothing that is held of the
\* address, which a repaint replaces.)
Projections == {"run", "runs", "overview"}
Shown(v) == IF v.kind = "overview" THEN Workspaces ELSE {v.ws}
Rests(s) ==
    /\ <<s.painted.ws, s.painted.run>> = Subject(s.hash)
    /\ s.painted.kind = "run" => s.detail # None
    /\ s.painted.kind \in Projections =>
         \A w \in Shown(s.painted) : s.painted.ver[w] = HeldVer(s, w)
ManualIsOverlay ==
    [][HashChange /\ ManualOnly(b) =>
         /\ b'.reqs = b.reqs /\ b'.waits = b.waits /\ b'.again = b.again
         /\ Rests(b) \/ b.reqs = {} =>
              /\ b'.painted.kind = b.painted.kind /\ b'.painted.ver = b.painted.ver
              /\ \/ b'.painted.cls = b.painted.cls
                 \/ /\ "resolved_child" \in {b.painted.cls, b'.painted.cls}
                    /\ {b.painted.cls, b'.painted.cls} \subseteq LossClasses]_vars

\* A view of what is held is never repainted from an older snapshot of its
\* subject, whatever the order of answers, failures, replays and navigations.
\* (Between a click and its hashchange a replayed refresh may paint one
\* source's rows at another's address; see Rests.)
VersionsNeverRegress ==
    [][/\ b'.painted.kind = b.painted.kind
       /\ b'.painted.ws = b.painted.ws
       /\ b'.painted.run = b.painted.run
       /\ ~b'.pending
       => \A w \in Shown(b.painted) :
             b.painted.ver[w] # None /\ b.painted.ver[w] = HeldVer(b, w) =>
                 b'.painted.ver[w] # None /\ b'.painted.ver[w] >= b.painted.ver[w]]_vars
=============================================================================
