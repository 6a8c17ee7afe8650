----------------------- MODULE MonitorSnapshotProofs -----------------------
(***************************************************************************)
(* Proofs about what the monitor client holds and what it shows of it: a   *)
(* view of what is held is never repainted from an older snapshot.         *)
(***************************************************************************)
EXTENDS MonitorClientProofs

-----------------------------------------------------------------------------
(***************************************************************************)
(* What is on the screen.                                                  *)
(***************************************************************************)
\* A painting leaves what is held alone.
SameHeld(s, t) ==
    /\ t.snap = s.snap /\ t.list = s.list /\ t.detail = s.detail /\ t.detailWs = s.detailWs
    /\ t.detailId = s.detailId /\ t.conflict = s.conflict /\ t.dead = s.dead
Pure(s, t) == Client(t) /\ SameRest(s, t) /\ SameNet(s, t) /\ SameHeld(s, t)

\* The screen shows what is held of the address, and discloses what is stale.
Only(w, v) == [x \in All |-> IF x = w THEN v ELSE None]
ListsOf(s) == [w \in All |-> IF w = None THEN None ELSE s.snap[w].list]
RunTrue(s) ==
    /\ s.detail # None /\ s.detail.run = s.hash.run /\ Throws(s) = None
    /\ s.hash.view = "unit" => s.detail.body # "nounit"
    /\ s.painted.ver = Only(s.detail.ws, s.detail.ver)
    /\ Disclosed(s) \subseteq s.painted.stale
RunsTrue(s) ==
    s.list # None /\ s.painted.ver = Only(s.hash.ws, s.list) /\ Disclosed(s) \subseteq s.painted.stale
OverviewTrue(s) ==
    s.painted.ver = ListsOf(s) /\ \A w \in Workspaces : s.snap[w].listErr => w \in s.painted.stale
Truthful(s) ==
    /\ Fits(s)
    /\ s.painted.kind = "run" => RunTrue(s)
    /\ s.painted.kind = "runs" => RunsTrue(s)
    /\ s.painted.kind = "overview" => OverviewTrue(s)

\* What a view of each kind is made of, and what the record of a failure
\* view makes of it.
Shaped(v) ==
    /\ v.kind = "runs" => (Set <=> v.ws # None) /\ v.run = None /\ v.ver = Only(v.ws, v.ver[v.ws])
    /\ v.kind = "overview" => Set /\ v.ws = None /\ v.run = None /\ v.ver[None] = None
    /\ v.kind = "run" => v.run # None
    /\ v.kind \in Projections => v.cls = None
    /\ v.kind \in {"blank", "failure"} => v.ver = Blank.ver
LossView(failure) == IF failure \in {"capped", "limit"} THEN "dropped_parent" ELSE "not_found"
RecordIs(s) ==
    s.painted.kind = "failure" =>
        /\ s.lastPaint.by = "follow" => s.painted.cls = s.lastPaint.cls
        /\ s.lastPaint.by = "unavailable" =>
             IF s.painted.run # None /\ s.lastPaint.failure \in Absences
             THEN \/ s.painted.cls = LossView(s.lastPaint.failure)
                  \/ s.painted.cls = "resolved_child" /\ s.lastPaint.failure \in Losses
             ELSE s.painted.cls = "projection_unavailable"
        /\ s.lastPaint.by = "defect" => s.painted.cls = "monitor_defect"
Pictured(s) == Shaped(s.painted) /\ RecordIs(s)

\* A failure view has been painted.
Failed(t) == t.painted.kind = "failure" /\ Pictured(t)

LEMMA BlankVer ==
  /\ Blank.ver = [w \in All |-> None]
  /\ \A w \in All : \A v : [Blank.ver EXCEPT ![w] = v] = Only(w, v)
BY DEF Blank, Only

LEMMA SameHeldSees ==
  ASSUME NEW s, NEW t, SameHeld(s, t), t.hash = s.hash
  PROVE  /\ Disclosed(t) = Disclosed(s) /\ Throws(t) = Throws(s) /\ ListsOf(t) = ListsOf(s)
         /\ \A w : HeldList(t, w) = HeldList(s, w)
BY DEF SameHeld, Disclosed, Throws, ListsOf, HeldList

LEMMA PureTwice ==
  ASSUME NEW s, NEW t, NEW u, Pure(s, t), Pure(t, u)
  PROVE  Pure(s, u)
BY DEF Pure, SameRest, SameNet, SameHeld

LEMMA ReplaceShows ==
  ASSUME NEW s, Client(s), NEW v \in ViewType
  PROVE  LET t == ReplaceContent(s, v) IN
         /\ Pure(s, t) /\ t.lastPaint = s.lastPaint
         /\ t.painted.kind = v.kind /\ t.painted.ws = v.ws /\ t.painted.run = v.run
         /\ t.painted.cls = v.cls /\ t.painted.ver = v.ver /\ v.stale \subseteq t.painted.stale
         /\ Disclosed(t) \subseteq t.painted.stale
<1> DEFINE w == [v EXCEPT !.pane = s.hash.manual, !.stale = @ \cup Disclosed(s)]
           t == ReplaceContent(s, v)
<1>1. /\ t \in Browser /\ SameRest(s, t) /\ SameNet(s, t) /\ t.lastPaint = s.lastPaint
      /\ t.painted.kind = v.kind /\ t.painted.ws = v.ws /\ t.painted.run = v.run
      /\ t.painted.cls = v.cls
  BY ReplaceFacts DEF Client
<1>2. w.ver = v.ver /\ w.stale = v.stale \cup Disclosed(s)
  BY DEF ViewType
<1>3. t = [s EXCEPT !.painted = w]
  BY DEF ReplaceContent
<1> HIDE DEF w, t
<1>4. t.painted = w /\ SameHeld(s, t)
  BY <1>3 DEF Client, Browser, SameHeld
<1>5. t.hash = s.hash /\ Client(t)
  BY <1>1 DEF SameRest, Client
<1>6. Disclosed(t) = Disclosed(s)
  BY <1>4, <1>5, SameHeldSees
<1> QED BY <1>1, <1>2, <1>4, <1>5, <1>6 DEF Pure, t

LEMMA FailureShown ==
  ASSUME NEW s, Client(s), NEW p \in PaintRecords,
         NEW w \in All, NEW run \in Maybe(Runs), NEW cls \in Maybe(ViewClasses),
         NEW offer \in BOOLEAN
  PROVE  LET t == ReplaceContent([s EXCEPT !.lastPaint = p], FailureView(w, run, cls, offer)) IN
         /\ Pure(s, t) /\ t.lastPaint = p /\ Shaped(t.painted)
         /\ t.painted.kind = "failure" /\ t.painted.run = run /\ t.painted.cls = cls
<1> DEFINE u == [s EXCEPT !.lastPaint = p]
           v == FailureView(w, run, cls, offer)
           t == ReplaceContent(u, v)
<1>1. Pure(s, u) /\ u.lastPaint = p
  BY DEF Client, Browser, Maybe, SameRest, SameNet, SameHeld, Pure
<1>2. v \in ViewType /\ v.kind = "failure" /\ v.ws = w /\ v.run = run /\ v.cls = cls
  BY FailureViewFacts
<1>3. v.ver = Blank.ver
  BY DEF FailureView, Blank
<1> HIDE DEF u, v
<1>4. /\ Pure(u, t) /\ t.lastPaint = u.lastPaint
      /\ t.painted.kind = v.kind /\ t.painted.run = v.run
      /\ t.painted.cls = v.cls /\ t.painted.ver = v.ver
  BY <1>1, <1>2, ReplaceShows DEF Pure
<1> HIDE DEF t
<1>5. Pure(s, t)
  BY <1>1, <1>4, PureTwice
<1> QED BY <1>1, <1>2, <1>3, <1>4, <1>5 DEF Shaped, Projections, u, v, t

LEMMA FollowErrorShown ==
  ASSUME NEW s, Client(s), NEW w \in All, NEW run \in Maybe(Runs), NEW cls \in Maybe(ViewClasses),
         NEW failure \in Maybe(Failures)
  PROVE  LET t == RenderFollowErrorView(s, w, run, cls, failure) IN
         Pure(s, t) /\ Failed(t) /\ t.painted.cls = cls
<1> DEFINE p == [by |-> "follow", ws |-> w, run |-> run, cls |-> cls, failure |-> failure]
           offer == Offered(s, w, run)
           t == RenderFollowErrorView(s, w, run, cls, failure)
<1>1. p \in PaintRecords /\ offer \in BOOLEAN /\ p.by = "follow" /\ p.cls = cls
  BY OfferedType DEF PaintRecords, Failures, FetchFailures, Absences, Losses, Maybe
<1>2. t = ReplaceContent([s EXCEPT !.lastPaint = p], FailureView(w, run, cls, offer))
  BY DEF RenderFollowErrorView
<1> HIDE DEF p, offer, t
<1>3. /\ Pure(s, t) /\ t.lastPaint = p /\ Shaped(t.painted)
      /\ t.painted.kind = "failure" /\ t.painted.run = run /\ t.painted.cls = cls
  BY <1>1, <1>2, FailureShown
<1> QED BY <1>1, <1>3 DEF Failed, Pictured, RecordIs, t

LEMMA UnavailableShown ==
  ASSUME NEW s, Client(s), NEW failure \in Maybe(Failures)
  PROVE  LET t == RenderUnavailable(s, failure) IN Pure(s, t) /\ Failed(t)
<1> DEFINE p == [by |-> "unavailable", ws |-> None, run |-> None, cls |-> None, failure |-> failure]
           u == [s EXCEPT !.lastPaint = p]
           offer == Offered(s, s.hash.ws, s.hash.run)
           loss == s.hash.run # None /\ failure \in Losses
           dropped == s.hash.run # None /\ failure \in {"capped", "limit"}
           cls == CASE loss /\ offer -> "resolved_child"
                    [] dropped /\ ~(loss /\ offer) -> "dropped_parent"
                    [] loss /\ ~offer /\ ~dropped -> "not_found"
                    [] OTHER -> "projection_unavailable"
           panel == offer /\ cls # "dropped_parent"
           t == RenderUnavailable(s, failure)
<1>1. p \in PaintRecords /\ p.by = "unavailable" /\ p.failure = failure /\ offer \in BOOLEAN
  BY OfferedType DEF PaintRecords, Failures, FetchFailures, Absences, Losses, Maybe, All
<1>2. s.hash.ws \in All /\ s.hash.run \in Maybe(Runs)
  BY DEF Client, AddressFits, WellFormed
<1>3. t = ReplaceContent(u, FailureView(s.hash.ws, s.hash.run, cls, panel))
  BY DEF RenderUnavailable
<1>4. /\ cls \in Maybe(ViewClasses) /\ panel \in BOOLEAN
      /\ IF s.hash.run # None /\ failure \in Absences
         THEN cls = LossView(failure) \/ (cls = "resolved_child" /\ failure \in Losses)
         ELSE cls = "projection_unavailable"
  BY <1>1 DEF ViewClasses, LossView, Absences, Losses, Maybe
<1> HIDE DEF p, offer, cls, panel, t
<1>5. /\ Pure(s, t) /\ t.lastPaint = p /\ Shaped(t.painted)
      /\ t.painted.kind = "failure" /\ t.painted.run = s.hash.run /\ t.painted.cls = cls
  BY <1>1, <1>2, <1>3, <1>4, FailureShown
<1> QED BY <1>1, <1>4, <1>5 DEF Failed, Pictured, RecordIs, t

LEMMA DefectShown ==
  ASSUME NEW s, Client(s)
  PROVE  LET t == RenderMonitorDefect(s) IN Pure(s, t) /\ Failed(t)
<1> DEFINE p == [by |-> "defect", ws |-> None, run |-> None, cls |-> None, failure |-> None]
           t == RenderMonitorDefect(s)
<1>1. p \in PaintRecords /\ p.by = "defect"
  BY DEF PaintRecords, Maybe, All
<1>2. s.hash.ws \in All /\ s.hash.run \in Maybe(Runs)
  BY DEF Client, AddressFits, WellFormed
<1>3. PICK cls \in Maybe(ViewClasses), offer \in BOOLEAN : cls = "monitor_defect" /\ offer = FALSE
  BY DEF Maybe, ViewClasses
<1>4. t = ReplaceContent([s EXCEPT !.lastPaint = p], FailureView(s.hash.ws, s.hash.run, cls, offer))
  BY <1>3 DEF RenderMonitorDefect
<1> HIDE DEF p, t
<1>5. /\ Pure(s, t) /\ t.lastPaint = p /\ Shaped(t.painted)
      /\ t.painted.kind = "failure" /\ t.painted.run = s.hash.run /\ t.painted.cls = cls
  BY <1>1, <1>2, <1>4, FailureShown
<1> QED BY <1>1, <1>3, <1>5 DEF Failed, Pictured, RecordIs, t

LEMMA FollowOrShown ==
  ASSUME NEW s, Client(s), NEW cls \in ViewClasses
  PROVE  LET t == FollowOr(s, cls, None) IN Pure(s, t) /\ Failed(t)
<1>1. s.hash.ws \in All /\ s.hash.run \in Maybe(Runs) /\ cls \in Maybe(ViewClasses)
  BY DEF Client, AddressFits, WellFormed, Maybe
<1>2. None \in Maybe(Failures)
  BY DEF Maybe
<1>3. LET t == RenderFollowErrorView(s, s.hash.ws, s.hash.run, cls, None) IN Pure(s, t) /\ Failed(t)
  BY <1>1, <1>2, FollowErrorShown
<1>4. LET t == RenderUnavailable(s, None) IN Pure(s, t) /\ Failed(t)
  BY <1>2, UnavailableShown
<1> QED BY <1>3, <1>4 DEF FollowOr

\* The address's own view, or one of rows that were never held.
Unread(t) == t.hash.view = "runs" /\ t.list = None
InHand(t) == t.painted.kind = "runs" => t.painted.ver = Only(t.hash.ws, t.list)
Painted(t) == Pictured(t) /\ Fits(t) /\ (Truthful(t) \/ (Unread(t) /\ InHand(t)))

\* A run view is of the projection in hand, while there is one, and a page is
\* painted so, or with the rows in hand, though its address has moved.
Legible(t) ==
    t.painted.kind = "run" /\ t.detail # None =>
        /\ Throws(t) = None /\ (t.hash.view = "unit" => t.detail.body # "nounit")
        /\ t.painted.ver = Only(t.detail.ws, t.detail.ver)
Astray(t) == Moved(t) /\ Pictured(t) /\ Legible(t) /\ InHand(t)

LEMMA FailedTruthful ==
  ASSUME NEW t, Failed(t), Fits(t)
  PROVE  Truthful(t) /\ Painted(t)
BY DEF Failed, Truthful, Painted

LEMMA RunsShown ==
  ASSUME NEW s, Client(s), s.hash.view = "runs"
  PROVE  LET t == RenderRuns(s) IN
         /\ Pure(s, t) /\ t.lastPaint = s.lastPaint /\ Pictured(t)
         /\ Fits(t) => Truthful(t) \/ (Unread(t) /\ InHand(t))
<1> DEFINE v == [Blank EXCEPT !.kind = "runs", !.ws = s.hash.ws, !.ver[s.hash.ws] = s.list]
           t == RenderRuns(s)
<1>1. s.hash.ws \in All /\ s.hash.run = None /\ s.list \in VerOrNone /\ (Set <=> s.hash.ws # None)
  BY DEF Client, AddressFits, WellFormed, Browser
<1>2. v \in ViewType /\ v.kind = "runs" /\ v.ws = s.hash.ws /\ v.run = None
  BY <1>1, BlankType DEF Blank, ViewType
<1>12. v.cls = None
  BY DEF Blank
<1>3. v.ver = [Blank.ver EXCEPT ![s.hash.ws] = s.list]
  BY DEF Blank
<1>4. v.ver = Only(s.hash.ws, s.list)
  BY <1>1, <1>3, BlankVer
<1>5. t = ReplaceContent(s, v)
  BY DEF RenderRuns
<1> HIDE DEF v, t
<1>6. /\ Pure(s, t) /\ t.lastPaint = s.lastPaint
      /\ t.painted.kind = "runs" /\ t.painted.ws = s.hash.ws /\ t.painted.run = None
      /\ t.painted.ver = Only(s.hash.ws, s.list) /\ Disclosed(t) \subseteq t.painted.stale
      /\ t.painted.cls = None
  BY <1>2, <1>4, <1>5, <1>12, ReplaceShows
<1>7. t.hash = s.hash /\ t.list = s.list
  BY <1>6 DEF Pure, SameRest, SameHeld
<1>8. Only(s.hash.ws, s.list)[s.hash.ws] = s.list
  BY <1>1 DEF Only
<1>9. Pictured(t)
  BY <1>1, <1>6, <1>8 DEF Pictured, Shaped, Projections, RecordIs
<1>10. Fits(t) => Truthful(t) \/ (Unread(t) /\ InHand(t))
  BY <1>6, <1>7 DEF Truthful, RunsTrue, Unread, InHand
<1> QED BY <1>6, <1>9, <1>10 DEF t

LEMMA OverviewShown ==
  ASSUME NEW s, Client(s), Set
  PROVE  LET t == RenderWorkspaceOverview(s) IN
         /\ Pure(s, t) /\ Pictured(t) /\ t.painted.kind = "overview"
         /\ Fits(t) => Truthful(t)
<1> DEFINE u == [s EXCEPT !.lastPaint = None]
           v == [Blank EXCEPT !.kind = "overview",
                      !.ver = [w \in All |-> IF w = None THEN None ELSE s.snap[w].list],
                      !.stale = {w \in Workspaces : s.snap[w].listErr}]
           t == RenderWorkspaceOverview(s)
<1>1. Pure(s, u)
  BY DEF Client, Browser, Maybe, SameRest, SameNet, SameHeld, Pure
<1>2. ListsOf(s) \in [All -> VerOrNone] /\ ListsOf(s)[None] = None
  BY DEF Client, Browser, SnapRecord, All, VerOrNone, ListsOf
<1>3. /\ v.kind = "overview" /\ v.ws = None /\ v.run = None /\ v.ver = ListsOf(s) /\ v.cls = None
      /\ v.stale = {w \in Workspaces : s.snap[w].listErr}
  BY DEF Blank, ListsOf
<1>4. v \in ViewType
  BY <1>2, BlankType DEF Blank, ViewType, ListsOf
<1>5. t = ReplaceContent(u, v)
  BY DEF RenderWorkspaceOverview
<1> HIDE DEF u, v, t
<1>6. /\ Pure(u, t)
      /\ t.painted.kind = "overview" /\ t.painted.ws = None /\ t.painted.run = None /\ t.painted.cls = None
      /\ t.painted.ver = ListsOf(s) /\ {w \in Workspaces : s.snap[w].listErr} \subseteq t.painted.stale
  BY <1>1, <1>3, <1>4, <1>5, ReplaceShows DEF Pure
<1>7. Pure(s, t)
  BY <1>1, <1>6, PureTwice
<1>8. Pictured(t)
  BY <1>2, <1>6 DEF Pictured, Shaped, Projections, RecordIs
<1>9. t.snap = s.snap /\ ListsOf(t) = ListsOf(s)
  BY <1>7 DEF Pure, SameHeld, ListsOf
<1>10. OverviewTrue(t)
  BY <1>6, <1>9 DEF OverviewTrue
<1> QED BY <1>6, <1>7, <1>8, <1>10 DEF Truthful, t

LEMMA DetailShown ==
  ASSUME NEW s, Client(s), Deep(s.hash), s.detail # None, s.detail.run = s.hash.run, Throws(s) = None,
         s.hash.view = "unit" => s.detail.body # "nounit"
  PROVE  LET t == PaintDetail(s) IN
         /\ Pure(s, t) /\ Pictured(t)
         /\ Fits(t) => Truthful(t)
<1> DEFINE v == [Blank EXCEPT !.kind = "run", !.ws = s.hash.ws, !.run = s.hash.run,
                              !.ver[s.detail.ws] = s.detail.ver]
           t == PaintDetail(s)
<1>1. /\ s.hash.ws \in All /\ s.hash.run \in Maybe(Runs)
      /\ s.detail.ws \in All /\ s.detail.ver \in VerOrNone
  BY DEF Client, AddressFits, WellFormed, Browser, DetailType, Maybe, VerOrNone
<1>2. v \in ViewType /\ v.kind = "run" /\ v.run = s.hash.run /\ v.cls = None
  BY <1>1, BlankType DEF Blank, ViewType
<1>3. v.ver = Only(s.detail.ws, s.detail.ver)
  <2>1. v.ver = [Blank.ver EXCEPT ![s.detail.ws] = s.detail.ver]
    BY DEF Blank
  <2> QED BY <1>1, <2>1, BlankVer
<1>4. t = ReplaceContent(s, v)
  BY DEF PaintDetail
<1> HIDE DEF v, t
<1>5. /\ Pure(s, t) /\ t.painted.kind = "run" /\ t.painted.run = s.hash.run /\ t.painted.cls = None
      /\ t.painted.ver = Only(s.detail.ws, s.detail.ver) /\ Disclosed(t) \subseteq t.painted.stale
  BY <1>2, <1>3, <1>4, ReplaceShows
<1>6. t.hash = s.hash /\ t.detail = s.detail /\ Throws(t) = Throws(s)
  BY <1>5, SameHeldSees DEF Pure, SameRest, SameHeld
<1>8. s.hash.run # None
  BY DEF Client, AddressFits, WellFormed, Deep
<1>7. Pictured(t) /\ RunTrue(t)
  BY <1>5, <1>6, <1>8 DEF Pictured, Shaped, Projections, RecordIs, RunTrue
<1> QED BY <1>5, <1>7 DEF Truthful, t

\* renderCurrent shows what is held, unless the renderer throws.
LEMMA CurrentShown ==
  ASSUME NEW s, Client(s)
  PROVE  LET t == RenderCurrent(s) IN
         /\ Pure(s, t)
         /\ Throws(s) = None => Painted(t)
         /\ Throws(s) # None => t.painted = s.painted
<1> DEFINE u == [s EXCEPT !.lastPaint = None]
           t == RenderCurrent(s)
<1>1. Pure(s, u) /\ u.painted = s.painted /\ u.lastPaint = None
  BY DEF Client, Browser, Maybe, SameRest, SameNet, SameHeld, Pure
<1>2. u.hash = s.hash /\ u.detail = s.detail /\ Throws(u) = Throws(s) /\ Client(u)
  BY <1>1, SameHeldSees DEF Pure, SameRest, SameHeld
<1>3. Throws(s) = None => Fits(t)
  BY CurrentPainted
<1>4. /\ s.hash.view = "workspaces" => t = RenderWorkspaceOverview(u) /\ Set
      /\ s.hash.view = "runs" => t = RenderRuns(u)
      /\ s.hash.view = "unit" => t = RenderUnit(u)
      /\ s.hash.view = "invalid" => t = RenderUnavailable(u, None)
      /\ s.hash.view = "detail" => t = RenderDetail(u)
      /\ s.hash.view \in {"workspaces", "runs", "detail", "unit", "invalid"}
  BY DEF RenderCurrent, Client, AddressFits, WellFormed
<1>5. s.hash.view \in {"workspaces", "runs", "invalid"} => Throws(s) = None
  BY ThrowsFacts DEF Deep
<1> HIDE DEF u, t
<1>6. ASSUME NEW z, Pure(u, z) PROVE Pure(s, z)
  BY <1>1, <1>6, PureTwice
<1>7. CASE s.hash.view = "workspaces"
  BY <1>2, <1>3, <1>4, <1>5, <1>6, <1>7, OverviewShown DEF Painted, t
<1>8. CASE s.hash.view = "runs"
  BY <1>2, <1>3, <1>4, <1>5, <1>6, <1>8, RunsShown DEF Painted, t
<1>9. CASE s.hash.view = "invalid"
  <2>1. None \in Maybe(Failures)
    BY DEF Maybe
  <2>2. Pure(u, t) /\ Failed(t)
    BY <1>2, <1>4, <1>9, <2>1, UnavailableShown
  <2> QED BY <1>3, <1>5, <1>6, <1>9, <2>2, FailedTruthful DEF t
<1>10. CASE s.hash.view \in {"detail", "unit"}
  <2>1. Deep(u.hash)
    BY <1>2, <1>10 DEF Deep
  <2>2. {"snapshot_unavailable", "identity_conflict", "unit_unavailable"} \subseteq ViewClasses
    BY DEF ViewClasses, FollowStates
  <2>3. CASE \E cls \in ViewClasses : t = FollowOr(u, cls, None) /\ Throws(u) = None
    <3>1. Pure(u, t) /\ Failed(t)
      BY <1>2, <2>3, FollowOrShown
    <3> QED BY <1>2, <1>3, <1>6, <2>3, <3>1, FailedTruthful DEF t
  <2>4. CASE u.detail # None /\ t = PaintDetail(u) /\ u.detail.run = u.hash.run
             /\ (u.hash.view = "unit" => u.detail.body # "nounit")
    <3>1. CASE Throws(u) = None
      BY <1>2, <1>3, <1>6, <2>1, <2>4, <3>1, DetailShown DEF Painted, t
    <3>2. CASE Throws(u) # None
      <4>1. t = u
        BY <2>4, <3>2 DEF PaintDetail
      <4> QED BY <1>1, <1>2, <3>2, <4>1 DEF t
    <3> QED BY <3>1, <3>2
  <2>5. u.detail = None \/ u.detail.run # u.hash.run \/ u.detail.body = "nounit" => Throws(u) = None
    BY ThrowsFacts
  <2>6. CASE s.hash.view = "unit"
    BY <1>2, <1>4, <2>2, <2>3, <2>4, <2>5, <2>6 DEF RenderUnit
  <2>7. CASE s.hash.view = "detail"
    BY <1>2, <1>4, <2>2, <2>3, <2>4, <2>5, <2>7 DEF RenderDetail
  <2> QED BY <1>10, <2>6, <2>7
<1> QED BY <1>4, <1>7, <1>8, <1>9, <1>10
-----------------------------------------------------------------------------
(***************************************************************************)
(* What is held, and what is asked for.                                    *)
(***************************************************************************)
AtMost(v, n) == v = None \/ (n # None /\ v <= n)
DetailVer(d) == IF d = None THEN None ELSE d.ver
HeldDetail(s, w) == IF Set THEN s.snap[w].detail ELSE s.detail

\* The version held of what a request of the kind reads.
Holds(s, kind, w) == IF kind = "detail" THEN DetailVer(HeldDetail(s, w)) ELSE HeldList(s, w)

\* Requests are of a source; one list of a source will be used; an inventory is
\* acquired while no refresh waits for its answer.
Proper(s) ==
    /\ \A q \in s.reqs : q.ws \in Sources
    /\ \A p, q \in s.reqs : p.kind = "list" /\ q.kind = "list" /\ p.fresh /\ q.fresh /\ p.ws = q.ws => p = q
    /\ \A p, q \in s.reqs : q.kind = "resolve" /\ q.fresh => ~Set /\ p.kind \notin {"detail", "runs"}

\* A projection says whose it is.
Honest(s) ==
    \A q \in s.reqs : q.kind = "detail" /\ q.ans # None => (q.ans.out = "other" <=> q.ans.run # q.run)

\* An answer that will be used is no older than what is held.
Newer(s) ==
    \A q \in s.reqs : q.fresh /\ q.ans # None => AtMost(Holds(s, q.kind, q.ws), q.ans.ver)

\* The projection in hand is the one held of its source, which is its own.
Mirror(s) ==
    s.detail # None =>
        IF Set THEN /\ s.detail.ws \in Workspaces /\ s.detailWs = s.detail.ws
                    /\ s.snap[s.detail.ws].detail = s.detail
               ELSE s.detail.ws = None
SnapAt(s) == \A w \in Workspaces : s.snap[w].detail # None => s.snap[w].detail.ws = w

\* What is in hand is what is held of the address, unless that has moved.
RowsAt(s) == ~Moved(s) /\ Set /\ s.hash.view = "runs" => s.list = s.snap[s.hash.ws].list
DetailAt(s) == ~Moved(s) /\ Deep(s.hash) /\ s.detail # None => At(s) = Subject(s.hash)

Contents(s) ==
    /\ Proper(s) /\ Honest(s) /\ Newer(s)
    /\ Mirror(s) /\ SnapAt(s) /\ RowsAt(s) /\ DetailAt(s)

\* Nothing that is held or answered is of a version that is yet to come.
Read(s, V) ==
    /\ \A q \in s.reqs : q.ans # None => AtMost(q.ans.ver, V[q.ws])
    /\ \A w \in Sources : AtMost(HeldList(s, w), V[w]) /\ AtMost(DetailVer(HeldDetail(s, w)), V[w])

(***************************************************************************)
(* Requests: an answer on its way in t is one that was on its way in s.    *)
(***************************************************************************)
Carried(s, t) ==
    /\ \A q \in t.reqs : q.ans # None =>
         \E p \in s.reqs : /\ p.kind = q.kind /\ p.ws = q.ws /\ p.run = q.run /\ p.ans = q.ans
                           /\ q.fresh => p.fresh
    /\ Proper(s) => Proper(t)

LEMMA CarriedSome ==
  ASSUME NEW s, NEW t, t.reqs \subseteq s.reqs
  PROVE  Carried(s, t)
<1>1. Proper(s) => Proper(t)
  BY DEF Proper
<1> QED BY <1>1 DEF Carried

LEMMA CarriedTwice ==
  ASSUME NEW s, NEW t, NEW u, Carried(s, t), Carried(t, u)
  PROVE  Carried(s, u)
<1>1. ASSUME NEW q \in u.reqs, q.ans # None
      PROVE  \E p \in s.reqs : /\ p.kind = q.kind /\ p.ws = q.ws /\ p.run = q.run /\ p.ans = q.ans
                               /\ q.fresh => p.fresh
  <2>1. PICK o \in t.reqs : /\ o.kind = q.kind /\ o.ws = q.ws /\ o.run = q.run /\ o.ans = q.ans
                            /\ q.fresh => o.fresh
    BY <1>1 DEF Carried
  <2>2. PICK p \in s.reqs : /\ p.kind = o.kind /\ p.ws = o.ws /\ p.run = o.run /\ p.ans = o.ans
                            /\ o.fresh => p.fresh
    BY <1>1, <2>1 DEF Carried
  <2> QED BY <2>1, <2>2
<1> QED BY <1>1 DEF Carried

\* A list of w is on its way and will be used; a run view will be refreshed.
Fetched(s, w) == \E q \in s.reqs : q.kind = "list" /\ q.fresh /\ q.ws = w
DeepWait(s) == \E x \in s.waits : x.then = "deep"
Coming(s, t) == (\A w : Fetched(s, w) => Fetched(t, w)) /\ (DeepWait(s) => DeepWait(t))

LEMMA ComingTwice ==
  ASSUME NEW s, NEW t, NEW u, Coming(s, t), Coming(t, u)
  PROVE  Coming(s, u)
BY DEF Coming

\* No answer has come yet of the lists of W that will be used.
Unanswered(t, W) ==
    \A q \in t.reqs : q.kind = "list" /\ q.fresh /\ q.ws \in W => q.ans = None

\* The lists of W are asked for again, and no answer of theirs will be used.
LEMMA RefetchCarries ==
  ASSUME NEW s, Client(s), Net(s), Set, NEW W \in SUBSET Workspaces, W # {},
         NEW then \in {"land", "overview", "deep", "resolve", "nothing"}, NEW run \in Maybe(Runs)
  PROVE  LET t == RefetchWorkspaceList(s, W, then, run) IN
         /\ Carried(s, t) /\ Coming(s, t) /\ SameHeld(s, t) /\ (then = "deep" => DeepWait(t))
         /\ \A w \in W : Fetched(t, w)
         /\ Unanswered(t, W)
<1> DEFINE demoted(q) == [q EXCEPT !.fresh = q.fresh /\ ~(q.kind = "list" /\ q.ws \in W)]
           asked(w) == Request("list", w, None, NewId(s, w))
           x == Wait({<<w, NewId(s, w)>> : w \in W}, then, run)
           t == RefetchWorkspaceList(s, W, then, run)
<1>0. s \in Browser /\ s.reqs \subseteq RequestRecord
  BY DEF Client, Browser
<1>1. ASSUME NEW q \in RequestRecord
      PROVE  /\ demoted(q).kind = q.kind /\ demoted(q).ws = q.ws
             /\ demoted(q).run = q.run /\ demoted(q).ans = q.ans
             /\ demoted(q).fresh => q.fresh /\ ~(q.kind = "list" /\ q.ws \in W)
             /\ q.fresh /\ ~(q.kind = "list" /\ q.ws \in W) => demoted(q).fresh
  <2>1. ASSUME NEW f
        PROVE  /\ [q EXCEPT !.fresh = f].kind = q.kind /\ [q EXCEPT !.fresh = f].ws = q.ws
               /\ [q EXCEPT !.fresh = f].run = q.run /\ [q EXCEPT !.fresh = f].ans = q.ans
               /\ [q EXCEPT !.fresh = f].fresh = f
    BY DEF RequestRecord
  <2> QED BY <2>1
<1>2. ASSUME NEW w \in W
      PROVE  /\ asked(w).kind = "list" /\ asked(w).ws = w /\ asked(w).fresh = TRUE
             /\ asked(w).ans = None
  BY DEF Request
<1>3. x.then = then
  BY DEF Wait
<1> HIDE DEF demoted, asked, x
<1>4. t = [s EXCEPT !.reqs = {demoted(q) : q \in s.reqs} \cup {asked(w) : w \in W},
                    !.waits = s.waits \cup {x}]
  BY <1>0 DEF RefetchWorkspaceList, Browser, demoted, asked, x
<1> HIDE DEF t
<1>5. /\ t.reqs = {demoted(q) : q \in s.reqs} \cup {asked(w) : w \in W}
      /\ t.waits = s.waits \cup {x} /\ SameHeld(s, t)
  BY <1>0, <1>4 DEF Browser, SameHeld
<1>6. \A q \in t.reqs : (\E p \in s.reqs : q = demoted(p)) \/ (\E w \in W : q = asked(w))
  BY <1>5
<1>7. /\ \A p \in s.reqs : demoted(p) \in t.reqs
      /\ \A w \in W : asked(w) \in t.reqs
  BY <1>5
<1>8. ASSUME NEW q \in t.reqs
      PROVE  \/ \E w \in W : q = asked(w)
             \/ \E p \in s.reqs : /\ q = demoted(p) /\ p.kind = q.kind /\ p.ws = q.ws /\ p.run = q.run
                                  /\ p.ans = q.ans /\ (q.fresh => p.fresh)
                                  /\ q.fresh => ~(q.kind = "list" /\ q.ws \in W)
  BY <1>0, <1>1, <1>6
<1>9. ASSUME Proper(s) PROVE Proper(t)
  <2>1. ASSUME NEW q \in t.reqs PROVE q.ws \in Sources
    <3>1. Sources = Workspaces
      BY DEF Sources, Set
    <3>2. CASE \E w \in W : q = asked(w)
      BY <1>2, <3>1, <3>2
    <3>3. CASE \E p \in s.reqs : p.ws = q.ws
      BY <1>9, <3>3 DEF Proper
    <3> QED BY <1>8, <3>2, <3>3
  <2>2. ASSUME NEW q \in t.reqs, NEW o \in t.reqs, q.kind = "list", o.kind = "list", q.fresh, o.fresh,
               q.ws = o.ws
        PROVE  q = o
    <3>1. CASE q.ws \in W
      <4>1. PICK w \in W, v \in W : q = asked(w) /\ o = asked(v)
        BY <1>8, <2>2, <3>1
      <4> QED BY <1>2, <2>2, <4>1
    <3>2. CASE q.ws \notin W
      <4>1. PICK p \in s.reqs : q = demoted(p) /\ p.kind = q.kind /\ p.ws = q.ws /\ (q.fresh => p.fresh)
        BY <1>2, <1>8, <3>2
      <4>0. ASSUME NEW v \in W, o = asked(v) PROVE FALSE
        <5>1. asked(v).ws = v
          BY <1>2
        <5> QED BY ONLY <4>0, <5>1, <2>2, <3>2
      <4>2. PICK r \in s.reqs : o = demoted(r) /\ r.kind = o.kind /\ r.ws = o.ws /\ (o.fresh => r.fresh)
        BY <1>8, <4>0
      <4> QED BY <1>9, <2>2, <4>1, <4>2 DEF Proper
    <3> QED BY <3>1, <3>2
  <2>3. ASSUME NEW q \in t.reqs, NEW o \in t.reqs, q.kind = "resolve", q.fresh
        PROVE  ~Set /\ o.kind \notin {"detail", "runs"}
    <3>1. PICK p \in s.reqs : p.kind = q.kind /\ (q.fresh => p.fresh)
      <4>1. \A v \in W : q # asked(v)
        BY <1>2, <2>3
      <4> QED BY <1>8, <4>1
    <3>2. ~Set /\ \A r \in s.reqs : r.kind \notin {"detail", "runs"}
      BY <1>9, <2>3, <3>1 DEF Proper
    <3> QED BY <3>2
  <2> QED BY <2>1, <2>2, <2>3 DEF Proper
<1>10. Carried(s, t)
  BY ZenonT(60), <1>2, <1>8, <1>9 DEF Carried
<1>11. \A w \in W : Fetched(t, w)
  BY <1>2, <1>7 DEF Fetched
<1>12. ASSUME NEW w, Fetched(s, w) PROVE Fetched(t, w)
  <2>1. PICK q \in s.reqs : q.kind = "list" /\ q.fresh /\ q.ws = w
    BY <1>12 DEF Fetched
  <2>2. CASE w \in W
    BY <1>11, <2>2
  <2>3. CASE w \notin W
    BY <1>0, <1>1, <1>7, <2>1, <2>3 DEF Fetched
  <2> QED BY <2>2, <2>3
<1>13. (DeepWait(s) => DeepWait(t)) /\ (then = "deep" => DeepWait(t))
  BY <1>3, <1>5 DEF DeepWait
<1>14. Unanswered(t, W)
  BY ZenonT(60), <1>2, <1>8 DEF Unanswered
<1> QED BY <1>5, <1>10, <1>11, <1>12, <1>13, <1>14 DEF Coming, t

\* One request more, of the kinds that no list or inventory stands in the way of.
LEMMA FetchCarries ==
  ASSUME NEW s, Client(s), NEW kind \in FetchKinds, NEW w \in Sources, NEW run \in Maybe(Runs),
         kind \in {"detail", "runs"} => \A q \in s.reqs : q.kind = "resolve" => ~q.fresh,
         kind = "resolve" => ~Set /\ \A q \in s.reqs : q.kind \notin {"detail", "runs"}
  PROVE  LET t == Fetch(s, kind, w, run) IN
         Carried(s, t) /\ Coming(s, t) /\ SameHeld(s, t)
<1> DEFINE q == Request(kind, w, run, 0)
           t == Fetch(s, kind, w, run)
<1>0. w \in All
  BY DEF Sources, All
<1>1. /\ Client(t) /\ SameRest(s, t) /\ SameScreen(s, t) /\ t.waits = s.waits
      /\ t.reqs = s.reqs \cup {q} /\ t.resBusy = s.resBusy
      /\ q.kind = kind /\ q.ws = w /\ q.run = run /\ q.fresh = TRUE /\ q.ans = None
      /\ Net(s) /\ RequestOK(q) => Net(t)
  BY <1>0, FetchFacts
<1>2. SameHeld(s, t)
  BY DEF Fetch, Client, Browser, SameHeld
<1> HIDE DEF q, t
<1>3. kind # "list" /\ (kind = "detail" \/ kind = "runs" \/ kind = "resolve")
  BY DEF FetchKinds
<1>4. ASSUME Proper(s) PROVE Proper(t)
  <2>1. \A o \in t.reqs : o.ws \in Sources
    BY <1>1, <1>4 DEF Proper
  <2>2. \A o, p \in t.reqs : o.kind = "list" /\ p.kind = "list" /\ o.fresh /\ p.fresh /\ o.ws = p.ws => o = p
    BY <1>1, <1>3, <1>4 DEF Proper
  <2>3. ASSUME NEW o \in t.reqs, NEW p \in t.reqs, o.kind = "resolve", o.fresh
        PROVE  ~Set /\ p.kind \notin {"detail", "runs"}
    <3>1. CASE o \in s.reqs /\ p \in s.reqs
      BY <1>4, <2>3, <3>1 DEF Proper
    <3>2. CASE o \in s.reqs /\ p = q
      BY <1>1, <1>3, <1>4, <2>3, <3>2 DEF Proper
    <3>3. CASE o = q
      BY <1>1, <1>3, <2>3, <3>3
    <3> QED BY <1>1, <3>1, <3>2, <3>3
  <2> QED BY <2>1, <2>2, <2>3 DEF Proper
<1>5. Carried(s, t)
  BY <1>1, <1>4 DEF Carried
<1>6. Coming(s, t)
  BY <1>1 DEF Coming, Fetched, DeepWait
<1> QED BY <1>2, <1>5, <1>6 DEF t

LEMMA BumpCarries ==
  ASSUME NEW s, Client(s)
  PROVE  LET t == Bump(s) IN Carried(s, t) /\ Coming(s, t) /\ SameHeld(s, t)
<1> DEFINE stale(q) == [q EXCEPT !.fresh = q.fresh /\ q.kind = "list"]
           late(x) == [x EXCEPT !.fresh = x.fresh /\ x.then # "overview"]
           t == Bump(s)
<1>0. s \in Browser /\ s.reqs \subseteq RequestRecord /\ s.waits \subseteq WaitRecord
  BY DEF Client, Browser
<1>1. ASSUME NEW q \in RequestRecord
      PROVE  /\ stale(q).kind = q.kind /\ stale(q).ws = q.ws
             /\ stale(q).run = q.run /\ stale(q).ans = q.ans
             /\ stale(q).fresh <=> q.fresh /\ q.kind = "list"
             /\ q.kind = "list" => stale(q) = q
  <2>1. ASSUME NEW f
        PROVE  /\ [q EXCEPT !.fresh = f].kind = q.kind /\ [q EXCEPT !.fresh = f].ws = q.ws
               /\ [q EXCEPT !.fresh = f].run = q.run /\ [q EXCEPT !.fresh = f].ans = q.ans
               /\ [q EXCEPT !.fresh = f].fresh = f
               /\ f = q.fresh => [q EXCEPT !.fresh = f] = q
    BY DEF RequestRecord
  <2>2. q.fresh \in BOOLEAN /\ (q.kind = "list" => (q.fresh /\ q.kind = "list") = q.fresh)
    BY DEF RequestRecord
  <2> QED BY <2>1, <2>2
<1>2. ASSUME NEW x \in WaitRecord
      PROVE  late(x).then = x.then
  BY DEF WaitRecord
<1> HIDE DEF stale, late
<1>3. t = [s EXCEPT !.reqs = {stale(q) : q \in s.reqs}, !.waits = {late(x) : x \in s.waits}]
  BY <1>0 DEF Bump, Browser, stale, late
<1> HIDE DEF t
<1>4. /\ t.reqs = {stale(q) : q \in s.reqs} /\ t.waits = {late(x) : x \in s.waits} /\ SameHeld(s, t)
  BY <1>0, <1>3 DEF Browser, SameHeld
<1>5. ASSUME NEW q \in t.reqs
      PROVE  \E p \in s.reqs : /\ q = stale(p) /\ p.kind = q.kind /\ p.ws = q.ws /\ p.run = q.run
                               /\ p.ans = q.ans /\ (q.fresh => p.fresh /\ p.kind = "list")
                               /\ q.kind = "list" => p = q
  BY <1>0, <1>1, <1>4
<1>6. ASSUME Proper(s) PROVE Proper(t)
  <2>1. \A q \in t.reqs : q.ws \in Sources
    BY <1>5, <1>6 DEF Proper
  <2>2. \A p, q \in t.reqs : p.kind = "list" /\ q.kind = "list" /\ p.fresh /\ q.fresh /\ p.ws = q.ws => p = q
    BY <1>5, <1>6 DEF Proper
  <2>3. \A q \in t.reqs : q.kind = "resolve" => ~q.fresh
    BY <1>5
  <2> QED BY <2>1, <2>2, <2>3 DEF Proper
<1>7. Carried(s, t)
  BY <1>5, <1>6 DEF Carried
<1>8. Coming(s, t)
  <2>1. ASSUME NEW w, Fetched(s, w) PROVE Fetched(t, w)
    <3>1. PICK q \in s.reqs : q.kind = "list" /\ q.fresh /\ q.ws = w
      BY <2>1 DEF Fetched
    <3>2. stale(q) \in t.reqs
      BY <1>4
    <3> QED BY <1>0, <1>1, <3>1, <3>2 DEF Fetched
  <2>2. ASSUME DeepWait(s) PROVE DeepWait(t)
    BY <1>0, <1>2, <1>4, <2>2 DEF DeepWait
  <2> QED BY <2>1, <2>2 DEF Coming
<1> QED BY <1>4, <1>7, <1>8 DEF t
-----------------------------------------------------------------------------
(***************************************************************************)
(* What is held is kept, but perhaps the projection in hand.               *)
(***************************************************************************)
SameSnap(s, t) ==
    \A w \in Workspaces : t.snap[w].list = s.snap[w].list /\ t.snap[w].detail = s.snap[w].detail
SameAddress(s, t) == t.hash = s.hash /\ t.pending = s.pending /\ t.base = s.base
Lasts(s, t) ==
    /\ SameAddress(s, t) /\ SameSnap(s, t) /\ t.list = s.list
    /\ t.detail = None \/ (t.detail = s.detail /\ t.detailWs = s.detailWs)
Sheds(s, t) == Lasts(s, t) /\ t.snap = s.snap

LEMMA ShedsTwice ==
  ASSUME NEW s, NEW t, NEW u
  PROVE  /\ Lasts(s, t) /\ Lasts(t, u) => Lasts(s, u)
         /\ Sheds(s, t) /\ Sheds(t, u) => Sheds(s, u)
BY DEF Sheds, Lasts, SameSnap, SameAddress

LEMMA PureSheds ==
  ASSUME NEW s, NEW t, Pure(s, t)
  PROVE  Sheds(s, t) /\ Carried(s, t) /\ Coming(s, t)
<1>1. Sheds(s, t)
  BY DEF Pure, SameRest, SameHeld, Sheds, Lasts, SameSnap, SameAddress
<1>2. Carried(s, t)
  BY CarriedSome DEF Pure, SameNet
<1>3. Coming(s, t)
  BY DEF Pure, SameNet, Coming, Fetched, DeepWait
<1> QED BY <1>1, <1>2, <1>3

LEMMA LastsHolds ==
  ASSUME NEW s, NEW t, Lasts(s, t), NEW w \in Sources, NEW kind
  PROVE  /\ HeldList(t, w) = HeldList(s, w) /\ HeldDetail(t, w) \in {None, HeldDetail(s, w)}
         /\ Holds(t, kind, w) \in {None, Holds(s, kind, w)}
<1>1. Set => w \in Workspaces /\ w # None
  BY ClientAssumption DEF Sources, Set
<1>2. HeldList(t, w) = HeldList(s, w) /\ HeldDetail(t, w) \in {None, HeldDetail(s, w)}
  BY <1>1 DEF Lasts, SameSnap, HeldList, HeldDetail
<1> QED BY <1>2 DEF Holds, DetailVer

LEMMA ContentsKept ==
  ASSUME NEW s, Client(s), Contents(s), NEW t, Lasts(s, t), Carried(s, t)
  PROVE  Contents(t) /\ \A V : Read(s, V) => Read(t, V)
<1>1. Proper(t) /\ \A q \in t.reqs : q.ws \in Sources
  BY DEF Contents, Carried, Proper
<1>2. Honest(t)
  BY DEF Contents, Carried, Honest
<1>3. Newer(t)
  <2>1. ASSUME NEW q \in t.reqs, q.fresh, q.ans # None
        PROVE  AtMost(Holds(t, q.kind, q.ws), q.ans.ver)
    <3>1. PICK p \in s.reqs : p.kind = q.kind /\ p.ws = q.ws /\ p.ans = q.ans /\ p.fresh
      BY <2>1 DEF Carried
    <3>2. AtMost(Holds(s, q.kind, q.ws), q.ans.ver)
      BY <2>1, <3>1 DEF Contents, Newer
    <3>3. Holds(t, q.kind, q.ws) \in {None, Holds(s, q.kind, q.ws)}
      BY <1>1, LastsHolds
    <3> QED BY <3>2, <3>3 DEF AtMost
  <2> QED BY <2>1 DEF Newer
<1>4. Mirror(t)
  BY DEF Contents, Mirror, Lasts, SameSnap
<1>5. SnapAt(t)
  BY DEF Contents, SnapAt, Lasts, SameSnap
<1>6. RowsAt(t)
  <2>1. t.hash = s.hash /\ (Moved(t) <=> Moved(s)) /\ t.list = s.list
    BY DEF Lasts, SameAddress, Moved
  <2>2. SUFFICES ASSUME ~Moved(t), Set, t.hash.view = "runs" PROVE t.list = t.snap[t.hash.ws].list
    BY DEF RowsAt
  <2>3. s.list = s.snap[s.hash.ws].list
    BY <2>1, <2>2 DEF Contents, RowsAt
  <2>4. s.hash.ws \in Workspaces
    BY <2>1, <2>2 DEF Client, AddressFits, WellFormed, All
  <2> QED BY <2>1, <2>3, <2>4 DEF Lasts, SameSnap
<1>7. DetailAt(t)
  BY DEF Contents, DetailAt, Lasts, SameAddress, Moved, At
<1>8. ASSUME NEW V, Read(s, V) PROVE Read(t, V)
  <2>1. ASSUME NEW q \in t.reqs, q.ans # None PROVE AtMost(q.ans.ver, V[q.ws])
    BY <1>8, <2>1 DEF Carried, Read
  <2>2. ASSUME NEW w \in Sources
        PROVE  AtMost(HeldList(t, w), V[w]) /\ AtMost(DetailVer(HeldDetail(t, w)), V[w])
    BY <1>8, LastsHolds DEF Read, AtMost, DetailVer
  <2> QED BY <2>1, <2>2 DEF Read
<1> QED BY <1>1, <1>2, <1>3, <1>4, <1>5, <1>6, <1>7, <1>8 DEF Contents

\* What a refresh asks for; the address is to be painted, or is a failure.
Underway(t) == Busy(t) \/ t.painted.kind = "failure"
Renewed(s, t) ==
    /\ t.routed = Subject(s.hash)
    /\ Underway(t)
    /\ Deep(s.hash) => \E q \in t.reqs : q.kind = "detail" /\ q.fresh
    /\ s.hash.view = "workspaces" => \A w \in Workspaces : Fetched(t, w)
    /\ \A q \in t.reqs : q.fresh /\ q.kind # "list" =>
         /\ q.kind \in {"detail", "runs"} /\ q.ans = None /\ <<q.ws, q.run>> = Subject(s.hash)
    /\ \A x \in t.waits : x.fresh /\ x.then = "overview" => s.hash.view = "workspaces"

LEMMA RefreshPasses ==
  ASSUME NEW s, Client(s), Net(s), mode \in Modes
  PROVE  LET t == Refresh(s) IN
         /\ Client(t) /\ Sheds(s, t) /\ Carried(s, t) /\ Coming(s, t) /\ Renewed(s, t)
         /\ t.detail = s.detail \/ (s.hash.view = "runs" /\ ~Set)
         /\ s.hash.view # "invalid" => SameScreen(s, t)
         /\ s.hash.view = "invalid" => Failed(t) /\ Fits(t)
<1> DEFINE r == s.hash
           c == Bump(s)
           u == [c EXCEPT !.routed = Subject(r), !.flight = TRUE]
           t == Refresh(s)
<1>0. /\ r.view \in {"workspaces", "runs", "detail", "unit", "invalid"}
      /\ r.ws \in All /\ r.run \in Maybe(Runs) /\ (Set => Workspaces # {})
      /\ r.view \in {"detail", "unit"} => r.ws \in Sources
  <2>1. r.view \in {"workspaces", "runs", "detail", "unit", "invalid"} /\ r.ws \in All /\ r.run \in Maybe(Runs)
    BY DEF Client, AddressFits, WellFormed
  <2>2. Set => Workspaces # {}
    BY ClientAssumption DEF Set
  <2>3. r.view \in {"detail", "unit"} => r.ws \in Sources
    BY <2>1 DEF Client, AddressFits, Set, Sources, All
  <2> QED BY <2>1, <2>2, <2>3
<1>1. /\ Client(c) /\ Net(c) /\ SameRest(s, c) /\ SameScreen(s, c) /\ Stale(c) /\ c.hash = r
      /\ Carried(s, c) /\ Coming(s, c) /\ SameHeld(s, c)
  BY BumpFacts, BumpCarries DEF SameRest
<1> HIDE DEF c
<1>2. /\ Client(u) /\ SameNet(c, u) /\ SameScreen(c, u) /\ SameHeld(c, u) /\ u.hash = r
      /\ u.routed = Subject(r) /\ u.pending = c.pending /\ u.base = c.base
  <2>1. Subject(r) \in All \X Maybe(Runs)
    BY <1>0 DEF Subject
  <2>2. /\ u \in Browser /\ SameNet(c, u) /\ SameScreen(c, u) /\ SameHeld(c, u) /\ u.hash = r
        /\ u.routed = Subject(r) /\ u.pending = c.pending /\ u.base = c.base
    BY <1>1, <2>1 DEF Client, Browser, SameNet, SameScreen, SameHeld
  <2> QED BY <1>1, <2>2 DEF Client
<1> HIDE DEF u
<1>3. /\ Sheds(s, u) /\ Carried(s, u) /\ Coming(s, u) /\ SameScreen(s, u) /\ u.detail = s.detail
      /\ Net(u)
      /\ \A q \in u.reqs : q.kind # "list" => ~q.fresh
      /\ \A x \in u.waits : x.then = "overview" => ~x.fresh
  <2>1. Sheds(s, u) /\ u.detail = s.detail
    BY <1>1, <1>2 DEF Sheds, Lasts, SameAddress, SameSnap, SameHeld, SameRest
  <2>2. u.reqs = c.reqs /\ u.waits = c.waits
    BY <1>2 DEF SameNet
  <2>3. Carried(s, u)
    BY <1>1, <2>2 DEF Carried, Proper
  <2>4. Coming(s, u) /\ Net(u)
    BY <1>1, <2>2 DEF Coming, Fetched, DeepWait, Net, Listed
  <2>5. SameScreen(s, u)
    BY <1>1, <1>2 DEF SameScreen
  <2> QED BY <1>1, <2>1, <2>2, <2>3, <2>4, <2>5 DEF Stale
<1>4. CASE r.view = "invalid"
  <2> DEFINE v == RenderCurrent(u)
             z == [v EXCEPT !.flight = FALSE]
  <2>1. t = z
    BY <1>4 DEF Refresh, u, c
  <2>2. Throws(u) = None
    BY <1>2, <1>4, ThrowsFacts DEF Deep
  <2>3. Pure(u, v) /\ Painted(v)
    BY <1>2, <2>2, CurrentShown
  <2> HIDE DEF v
  <2>4. v.hash = r /\ v.routed = Subject(r) /\ v.reqs = u.reqs /\ v.waits = u.waits /\ Client(v)
    BY <1>2, <2>3 DEF Pure, SameRest, SameNet
  <2>5. Failed(v) /\ Fits(v)
    <3>1. KindsAt(v.hash) = {"failure"}
      BY <1>4, <2>4 DEF KindsAt, Deep
    <3> QED BY <2>3, <3>1 DEF Painted, Failed, Fits
  <2>6. /\ Client(z) /\ z.hash = v.hash /\ z.pending = v.pending /\ z.base = v.base
        /\ SameHeld(v, z) /\ SameScreen(v, z) /\ z.reqs = v.reqs /\ z.waits = v.waits
        /\ z.routed = v.routed
    BY <2>4 DEF Client, Browser, SameHeld, SameScreen
  <2> HIDE DEF z
  <2>7. Sheds(u, v) /\ Sheds(v, z) /\ z.detail = s.detail
    BY <1>3, <2>3, <2>6, PureSheds DEF Sheds, Lasts, SameAddress, SameSnap, SameHeld, Pure
  <2>8. Sheds(s, z)
    BY <1>3, <2>7, ShedsTwice
  <2>9. z.reqs = u.reqs /\ z.waits = u.waits
    BY <2>4, <2>6
  <2>10. Carried(s, z) /\ Coming(s, z)
    BY <1>3, <2>9 DEF Carried, Proper, Coming, Fetched, DeepWait
  <2>11. Failed(z) /\ Fits(z)
    BY <2>5, <2>6 DEF Failed, Pictured, RecordIs, Fits, SameScreen
  <2>12. Renewed(s, z)
    <3>1. Underway(z)
      BY <2>11 DEF Underway, Failed
    <3> QED BY <1>3, <1>4, <2>4, <2>6, <2>9, <3>1 DEF Renewed, Deep
  <2> QED BY <1>4, <2>1, <2>6, <2>7, <2>8, <2>10, <2>11, <2>12
<1>5. CASE r.view = "workspaces" \/ (r.view = "runs" /\ Set)
  <2> DEFINE W == IF r.view = "workspaces" THEN Workspaces ELSE {r.ws}
             then == IF r.view = "workspaces" THEN "overview" ELSE "land"
  <2>1. Set
    BY <1>5 DEF Client, AddressFits, WellFormed
  <2>2. t = RefetchWorkspaceList(u, W, then, None)
    BY <1>5 DEF Refresh, u, c
  <2>3. /\ then \in {"land", "overview", "deep", "resolve", "nothing"} /\ None \in Maybe(Runs)
        /\ W \in SUBSET Workspaces /\ W # {}
    BY <1>0, <1>5, <2>1 DEF Maybe, Client, AddressFits, WellFormed, All
  <2>4. then = "overview" => r.view = "workspaces" /\ W = Workspaces
    BY <1>5
  <2>5. ~Deep(r)
    BY <1>5 DEF Deep
  <2> HIDE DEF W, then, t
  <2>6. Refetched(u, t, W, then)
    BY <1>2, <1>3, <2>1, <2>2, <2>3, RefetchFacts
  <2>7. /\ Carried(u, t) /\ Coming(u, t) /\ SameHeld(u, t)
        /\ \A w \in W : Fetched(t, w)
    BY <1>2, <1>3, <2>1, <2>2, <2>3, RefetchCarries
  <2>8. Client(t) /\ SameRest(u, t) /\ SameScreen(u, t)
    BY <2>6 DEF Refetched
  <2>9. Sheds(u, t) /\ t.detail = s.detail
    BY <1>3, <2>7, <2>8 DEF Sheds, Lasts, SameAddress, SameSnap, SameHeld, SameRest
  <2>10. Carried(s, t) /\ Coming(s, t) /\ Sheds(s, t) /\ SameScreen(s, t)
    BY <1>3, <2>7, <2>8, <2>9, CarriedTwice, ComingTwice, ShedsTwice DEF SameScreen
  <2>11. \A q \in t.reqs : q.kind # "list" => ~q.fresh
    BY <1>3, <2>6 DEF Refetched
  <2>12. \A x \in t.waits : x.fresh /\ x.then = "overview" => r.view = "workspaces"
    BY <1>3, <2>4, <2>6 DEF Refetched
  <2>13. Renewed(s, t)
    <3>1. t.routed = Subject(r)
      BY <1>2, <2>8 DEF SameRest
    <3>2. r.view = "workspaces" => \A w \in Workspaces : Fetched(t, w)
      BY <2>7 DEF W
    <3>3. Underway(t)
      <4>1. CASE r.view = "workspaces"
        <5>1. PICK x \in t.waits : x.then = "overview"
          BY <2>6, <4>1 DEF Refetched, then
        <5> QED BY <5>1 DEF Underway, Busy
      <4>2. CASE r.view # "workspaces"
        <5>1. r.view = "runs" /\ r.ws \in W
          BY <1>5, <4>2 DEF W
        <5>2. PICK q \in t.reqs : q.kind = "list" /\ q.fresh /\ q.ws = r.ws
          BY <2>7, <5>1 DEF Fetched
        <5>3. t.hash = r
          BY <1>2, <2>8 DEF SameRest
        <5> QED BY <5>1, <5>2, <5>3 DEF Underway, Busy, ListComing
      <4> QED BY <4>1, <4>2
    <3> QED BY <2>5, <2>11, <2>12, <3>1, <3>2, <3>3 DEF Renewed
  <2> QED BY <1>5, <2>8, <2>9, <2>10, <2>13 DEF t
<1>6. CASE r.view \in {"detail", "unit"} \/ (r.view = "runs" /\ ~Set)
  <2> DEFINE kind == IF r.view = "runs" THEN "runs" ELSE "detail"
             y == IF r.view = "runs" THEN [u EXCEPT !.detail = None, !.detailId = None, !.conflict = FALSE]
                  ELSE u
             q == Request(kind, r.ws, r.run, 0)
  <2>1. r.view = "runs" => r.ws = None /\ r.run = None
    BY <1>6 DEF Client, AddressFits, WellFormed
  <2>2. t = Fetch(y, kind, r.ws, r.run)
    BY <1>6, <2>1 DEF Refresh, u, c
  <2>3. r.ws \in Sources /\ kind \in FetchKinds /\ kind \in {"detail", "runs"}
    BY <1>0, <1>6, <2>1 DEF Sources, Set, FetchKinds
  <2>4. /\ Client(y) /\ SameRest(u, y) /\ SameScreen(u, y) /\ y.reqs = u.reqs /\ y.waits = u.waits
        /\ y.snap = u.snap /\ y.list = u.list /\ y.detailWs = u.detailWs
        /\ y.detail = u.detail \/ (y.detail = None /\ r.view = "runs" /\ ~Set)
    <3>1. CASE r.view # "runs"
      BY <1>2, <3>1 DEF SameRest, SameScreen
    <3>2. CASE r.view = "runs"
      <4>0. y = [u EXCEPT !.detail = None, !.detailId = None, !.conflict = FALSE]
        BY <3>2
      <4> HIDE DEF y
      <4>1. /\ y \in Browser /\ y.hash = u.hash /\ SameRest(u, y) /\ SameScreen(u, y) /\ y.reqs = u.reqs
            /\ y.waits = u.waits /\ y.snap = u.snap /\ y.list = u.list /\ y.detailWs = u.detailWs
            /\ y.detail = None
        <5>1. None \in Maybe(Runs)
          BY DEF Maybe
        <5>2. Client(y) /\ SameRest(u, y) /\ SameNet(u, y) /\ SameScreen(u, y)
          BY <1>2, <4>0, <5>1, DroppedFacts
        <5>3. y.snap = u.snap /\ y.list = u.list /\ y.detailWs = u.detailWs /\ y.detail = None
          BY <1>2, <4>0 DEF Client, Browser
        <5> QED BY <5>2, <5>3 DEF Client, SameNet, SameRest
      <4> QED BY <1>2, <1>6, <3>2, <4>1 DEF Client
    <3> QED BY <3>1, <3>2
  <2>5. r.view # "runs" => kind = "detail" /\ Deep(r)
    BY <1>6 DEF Deep
  <2>6. r.view = "runs" => ~Deep(r)
    BY DEF Deep
  <2> HIDE DEF y, kind, t
  <2>7. /\ Client(t) /\ SameRest(y, t) /\ SameScreen(y, t) /\ t.waits = y.waits
        /\ t.reqs = y.reqs \cup {q} /\ t.resBusy = y.resBusy
        /\ q.kind = kind /\ q.ws = r.ws /\ q.run = r.run /\ q.fresh = TRUE /\ q.ans = None
        /\ Net(y) /\ RequestOK(q) => Net(t)
    <3>1. r.ws \in All /\ r.run \in Maybe(Runs) /\ kind \in FetchKinds /\ Client(y)
      BY <1>0, <2>3, <2>4
    <3>2. PICK w \in All, run \in Maybe(Runs) : w = r.ws /\ run = r.run
      BY <3>1
    <3> HIDE DEF r
    <3>3. LET o == Request(kind, w, run, 0)
              z == Fetch(y, kind, w, run) IN
          /\ Client(z) /\ SameRest(y, z) /\ SameScreen(y, z) /\ z.waits = y.waits
          /\ z.reqs = y.reqs \cup {o} /\ z.resBusy = y.resBusy
          /\ o.kind = kind /\ o.ws = w /\ o.run = run /\ o.fresh = TRUE /\ o.ans = None
          /\ Net(y) /\ RequestOK(o) => Net(z)
      BY <3>1, FetchFacts
    <3> QED BY <2>2, <3>2, <3>3
  <2>8. Carried(y, t) /\ Coming(y, t) /\ SameHeld(y, t)
    <3>1. \A o \in y.reqs : o.kind = "resolve" => ~o.fresh
      BY <1>3, <2>4
    <3>2. kind # "resolve"
      BY <2>3
    <3> QED BY <1>0, <2>2, <2>3, <2>4, <3>1, <3>2, FetchCarries
  <2> HIDE DEF q
  <2>9. Sheds(u, y) /\ Sheds(y, t)
    BY <2>4, <2>7, <2>8 DEF Sheds, Lasts, SameAddress, SameSnap, SameHeld, SameRest
  <2>10. Sheds(s, t) /\ SameScreen(s, t)
    BY <1>3, <2>4, <2>7, <2>9, ShedsTwice DEF SameScreen
  <2>11. Carried(u, y) /\ Coming(u, y)
    BY <2>4, CarriedSome DEF Coming, Fetched, DeepWait
  <2>12. Carried(s, t) /\ Coming(s, t)
    BY <1>3, <2>8, <2>11, CarriedTwice, ComingTwice
  <2>13. t.detail = s.detail \/ (r.view = "runs" /\ ~Set)
    BY <1>3, <2>4, <2>8 DEF SameHeld
  <2>14. Renewed(s, t)
    <3>1. t.routed = Subject(r)
      BY <1>2, <2>4, <2>7 DEF SameRest
    <3>2. Deep(r) => \E o \in t.reqs : o.kind = "detail" /\ o.fresh
      BY <2>5, <2>6, <2>7
    <3>3. \A o \in t.reqs : o.fresh /\ o.kind # "list" => o = q
      BY <1>3, <2>4, <2>7
    <3>4. q.kind \in {"detail", "runs"} /\ q.ans = None /\ <<q.ws, q.run>> = Subject(r)
      BY <2>3, <2>7 DEF Subject
    <3>5. \A x \in t.waits : x.then = "overview" => ~x.fresh
      BY <1>3, <2>4, <2>7
    <3>6. r.view # "workspaces"
      BY <1>6
    <3>7. Underway(t)
      BY <2>7, <3>4 DEF Underway, Busy
    <3> QED BY <3>1, <3>2, <3>3, <3>4, <3>5, <3>6, <3>7 DEF Renewed
  <2>15. r.view # "invalid"
    BY <1>6
  <2> QED BY <2>7, <2>10, <2>12, <2>13, <2>14, <2>15 DEF t
<1> QED BY <1>0, <1>4, <1>5, <1>6
-----------------------------------------------------------------------------
(***************************************************************************)
(* Failures.                                                               *)
(***************************************************************************)
\* What is held is kept, and what is asked for is still to come.
Passes(s, t) == Client(t) /\ Sheds(s, t) /\ Carried(s, t) /\ Coming(s, t)

\* An inventory may be acquired, if it comes to that.
Free(s) == s.resBusy \/ Set \/ \A q \in s.reqs : q.kind \notin {"detail", "runs"}

LEMMA PassesTwice ==
  ASSUME NEW s, NEW t, NEW u, Passes(s, t), Passes(t, u)
  PROVE  Passes(s, u)
BY ShedsTwice, CarriedTwice, ComingTwice DEF Passes

\* t asks for the lists that s does, and holds those of s.
Relists(s, t) ==
    /\ \A w \in Workspaces : t.snap[w].list = s.snap[w].list /\ t.snap[w].listErr = s.snap[w].listErr
    /\ Carried(s, t) /\ Coming(s, t)

LEMMA RelistsTwice ==
  ASSUME NEW s, NEW t, NEW u, Relists(s, t), Relists(t, u)
  PROVE  Relists(s, u)
<1>1. Carried(s, u) /\ Coming(s, u)
  BY CarriedTwice, ComingTwice DEF Relists
<1> QED BY <1>1 DEF Relists

LEMMA PassesRelists ==
  ASSUME NEW s, NEW t, Passes(s, t)
  PROVE  Relists(s, t)
BY DEF Passes, Relists, Sheds

LEMMA PurePasses ==
  ASSUME NEW s, NEW t, Pure(s, t)
  PROVE  Passes(s, t)
BY PureSheds DEF Passes, Pure

\* A step that touches no request passes if what is held is kept.
LEMMA ReqsPass ==
  ASSUME NEW s, NEW t, Client(t), Sheds(s, t), t.reqs = s.reqs, t.waits = s.waits
  PROVE  Passes(s, t)
<1>1. Carried(s, t)
  BY CarriedSome
<1> QED BY <1>1 DEF Passes, Coming, Fetched, DeepWait

LEMMA AcquirePasses ==
  ASSUME NEW s, Client(s), Net(s), s.hash.run # None, Free(s)
  PROVE  LET t == AcquireInventoryForResolution(s, s.hash) IN Passes(s, t) /\ SameHeld(s, t)
<1> DEFINE r == s.hash
           u == [s EXCEPT !.resBusy = TRUE, !.resTried = r.run]
           t == AcquireInventoryForResolution(s, r)
<1>0. /\ r.run \in Runs /\ r.ws \in All /\ (Set => r.ws \in Workspaces)
      /\ r.run \in Maybe(Runs)
  BY DEF Client, AddressFits, WellFormed, Maybe, All
<1>1. /\ Client(u) /\ SameRest(s, u) /\ u.reqs = s.reqs /\ u.waits = s.waits /\ u.hash = r
      /\ SameHeld(s, u) /\ Net(u)
  <2>1. /\ Client(u) /\ SameRest(s, u) /\ u.reqs = s.reqs /\ u.waits = s.waits /\ u.hash = r
        /\ SameHeld(s, u)
    BY <1>0 DEF Client, Browser, SameRest, SameHeld
  <2> HIDE DEF u
  <2> QED BY <2>1 DEF Net, Listed
<1> HIDE DEF u
<1>2. Passes(s, u)
  BY <1>1, ReqsPass DEF Sheds, Lasts, SameAddress, SameSnap, SameHeld, SameRest
<1>3. Client(t) /\ SameRest(s, t)
  BY AcquireGains DEF Gains
<1>4. CASE s.resBusy \/ s.resTried = r.run
  <2>1. t = s
    BY <1>4 DEF AcquireInventoryForResolution
  <2> QED BY <2>1, ReqsPass DEF Sheds, Lasts, SameAddress, SameSnap, SameHeld
<1> HIDE DEF t
<1>5. ASSUME Carried(u, t), Coming(u, t), SameHeld(u, t) PROVE Passes(s, t) /\ SameHeld(s, t)
  <2>1. SameHeld(s, t)
    BY <1>1, <1>5 DEF SameHeld
  <2>2. Sheds(s, t)
    BY <1>3, <2>1 DEF Sheds, Lasts, SameAddress, SameSnap, SameHeld, SameRest
  <2> QED BY <1>2, <1>3, <1>5, <2>1, <2>2, CarriedTwice, ComingTwice DEF Passes
<1>6. CASE Set /\ ~(s.resBusy \/ s.resTried = r.run)
  <2>1. t = RefetchWorkspaceList(u, {r.ws}, "resolve", r.run)
    BY <1>6 DEF AcquireInventoryForResolution, t, u
  <2>2. {r.ws} \in SUBSET Workspaces /\ {r.ws} # {}
    BY <1>0, <1>6
  <2>3. "resolve" \in {"land", "overview", "deep", "resolve", "nothing"}
    OBVIOUS
  <2>4. Carried(u, t) /\ Coming(u, t) /\ SameHeld(u, t)
    BY <1>0, <1>1, <1>6, <2>1, <2>2, <2>3, RefetchCarries
  <2> QED BY <1>5, <2>4 DEF t
<1>7. CASE ~Set /\ ~(s.resBusy \/ s.resTried = r.run)
  <2>1. t = Fetch(u, "resolve", None, r.run)
    BY <1>7 DEF AcquireInventoryForResolution, t, u
  <2>2. None \in Sources /\ "resolve" \in FetchKinds
    BY <1>7 DEF Sources, Set, FetchKinds
  <2>3. \A q \in u.reqs : q.kind \notin {"detail", "runs"}
    BY <1>1, <1>7 DEF Free
  <2>4. "resolve" \notin {"detail", "runs"}
    OBVIOUS
  <2>5. Carried(u, t) /\ Coming(u, t) /\ SameHeld(u, t)
    BY <1>0, <1>1, <1>7, <2>1, <2>2, <2>3, <2>4, FetchCarries
  <2> QED BY <1>5, <2>5 DEF t
<1> QED BY <1>4, <1>6, <1>7 DEF t

LEMMA ClassifyPasses ==
  ASSUME NEW s, Client(s), NEW failure \in Failures,
         s.hash.run = None \/ (Net(s) /\ (failure \in Losses => Free(s)))
  PROVE  LET t == Classify(s, failure) IN
         Passes(s, t) /\ (s.hash.run # None /\ failure # "render" => t.detail = None)
<1> DEFINE r == s.hash
           unavailable == r.run # None /\ failure # "render"
           loss == r.run # None /\ failure \in Losses
           for == IF loss THEN r.run ELSE None
           u == [s EXCEPT !.detail = IF unavailable THEN None ELSE @,
                          !.conflict = @ /\ ~unavailable,
                          !.detailId = IF loss THEN None ELSE @,
                          !.resTried = IF @ # for THEN None ELSE @,
                          !.dead = IF loss THEN [run |-> r.run, failure |-> failure] ELSE None]
           t == Classify(s, failure)
<1>0. r.run \in Maybe(Runs) /\ (loss => r.run \in Runs)
  BY DEF Client, AddressFits, WellFormed, Maybe
<1>1. u \in Browser
  <2>1. /\ (IF unavailable THEN None ELSE s.detail) \in DetailType
        /\ (s.conflict /\ ~unavailable) \in BOOLEAN
        /\ (IF loss THEN None ELSE s.detailId) \in Maybe(Runs)
        /\ (IF s.resTried # for THEN None ELSE s.resTried) \in Maybe(Runs)
        /\ (IF loss THEN [run |-> r.run, failure |-> failure] ELSE None)
             \in Maybe([run: Runs, failure: Losses])
    BY <1>0 DEF Client, Browser, DetailType, Maybe
  <2>2. ASSUME NEW f1 \in DetailType, NEW f2 \in BOOLEAN, NEW f3 \in Maybe(Runs), NEW f4 \in Maybe(Runs),
               NEW f5 \in Maybe([run: Runs, failure: Losses])
        PROVE  [s EXCEPT !.detail = f1, !.conflict = f2, !.detailId = f3, !.resTried = f4, !.dead = f5]
                 \in Browser
    BY DEF Client, Browser
  <2> QED BY ZenonT(60), <2>1, <2>2
<1>2. /\ u.hash = s.hash /\ u.pending = s.pending /\ u.base = s.base
      /\ u.snap = s.snap /\ u.list = s.list /\ u.detail \in {None, s.detail} /\ u.detailWs = s.detailWs
      /\ u.reqs = s.reqs /\ u.waits = s.waits /\ u.resBusy = s.resBusy
      /\ unavailable => u.detail = None
  BY DEF Client, Browser
<1>3. t = IF loss /\ ~HeldRows(u, r.ws) THEN AcquireInventoryForResolution(u, r) ELSE u
  BY DEF Classify
<1> HIDE DEF u
<1>4. Client(u) /\ Passes(s, u)
  BY <1>1, <1>2, ReqsPass DEF Client, Sheds, Lasts, SameAddress, SameSnap
<1>5. CASE t = u
  BY <1>2, <1>4, <1>5
<1>6. CASE loss /\ t = AcquireInventoryForResolution(u, r)
  <2>1. Net(u) /\ Free(u) /\ u.hash.run # None
    BY <1>2, <1>6 DEF Net, Listed, Free
  <2>2. LET k == AcquireInventoryForResolution(u, u.hash) IN Passes(u, k) /\ SameHeld(u, k)
    BY <1>4, <2>1, AcquirePasses
  <2>3. Passes(u, t) /\ t.detail = u.detail
    BY <1>2, <1>6, <2>2 DEF SameHeld
  <2> QED BY <1>2, <1>4, <2>3, PassesTwice
<1> QED BY <1>3, <1>5, <1>6

LEMMA FailurePasses ==
  ASSUME NEW s, Client(s), NEW failure \in Failures,
         s.hash.run = None \/ (Net(s) /\ (failure \in Losses => Free(s)))
  PROVE  LET t == RenderProjectionFailure(s, failure) IN
         /\ Passes(s, t) /\ Failed(t)
         /\ s.hash.run # None /\ failure # "render" => t.detail = None
<1> DEFINE r == s.hash
           t == Classify(s, failure)
           z == RenderProjectionFailure(s, failure)
           dropped(u) == [u EXCEPT !.detail = None, !.conflict = FALSE]
           follow(u, cls) == RenderFollowErrorView(u, r.ws, r.run, cls, failure)
           shows(u) == \/ u = RenderUnavailable(t, failure)
                       \/ \E cls \in Maybe(ViewClasses) : u = follow(t, cls)
<1>0. r.ws \in All /\ r.run \in Maybe(Runs) /\ failure \in Maybe(Failures)
  BY DEF Client, AddressFits, WellFormed, Maybe
<1>1. Passes(s, t) /\ Client(t) /\ (s.hash.run # None /\ failure # "render" => t.detail = None)
  BY ClassifyPasses DEF Passes
<1>2. z = RenderUnavailable(t, failure)
      \/ z = dropped(RenderUnavailable(t, failure))
      \/ \E cls \in {"degraded", "identity_conflict", "render_failure", "snapshot_unavailable"} :
           z = follow(t, cls) \/ z = dropped(follow(t, cls))
  BY DEF RenderProjectionFailure
<1>3. {"degraded", "identity_conflict", "render_failure", "snapshot_unavailable"} \subseteq Maybe(ViewClasses)
  BY DEF ViewClasses, FollowStates, Maybe
<1> HIDE DEF t, z
<1>4. PICK u : shows(u) /\ (z = u \/ z = dropped(u))
  BY <1>2, <1>3
<1>5. Pure(t, u) /\ Failed(u)
  BY <1>0, <1>1, <1>4, UnavailableShown, FollowErrorShown
<1>6. Passes(s, u) /\ (s.hash.run # None /\ failure # "render" => u.detail = None)
  BY <1>1, <1>5, PurePasses, PassesTwice DEF Pure, SameHeld
<1>7. CASE z = dropped(u)
  <2>1. Client(u)
    BY <1>5 DEF Pure
  <2>2. /\ Client(z) /\ z.hash = u.hash /\ z.pending = u.pending /\ z.base = u.base
        /\ z.snap = u.snap /\ z.list = u.list /\ z.detail = None /\ SameScreen(u, z)
        /\ z.reqs = u.reqs /\ z.waits = u.waits
    <3>1. z = [u EXCEPT !.detail = None, !.conflict = FALSE]
      BY <1>7
    <3> HIDE DEF z
    <3>2. /\ z \in Browser /\ z.hash = u.hash /\ z.pending = u.pending /\ z.base = u.base
          /\ z.snap = u.snap /\ z.list = u.list /\ z.detail = None
          /\ z.painted = u.painted /\ z.lastPaint = u.lastPaint
          /\ z.reqs = u.reqs /\ z.waits = u.waits
      <4>1. None \in DetailType
        BY DEF DetailType, Maybe
      <4>2. u \in Browser
        BY <2>1 DEF Client
      <4>3. z \in Browser
        BY <3>1, <4>1, <4>2 DEF Browser
      <4> QED BY <3>1, <4>2, <4>3 DEF Browser
    <3> QED BY <2>1, <3>2 DEF Client, SameScreen
  <2>3. Passes(u, z)
    BY <2>2, ReqsPass DEF Sheds, Lasts, SameAddress, SameSnap
  <2>4. Failed(z)
    BY <1>5, <2>2 DEF Failed, Pictured, RecordIs, SameScreen
  <2> QED BY <1>6, <2>2, <2>3, <2>4, PassesTwice DEF z
<1> QED BY <1>4, <1>5, <1>6, <1>7 DEF z

\* What the renderer throws is painted too.
LEMMA ErrorPasses ==
  ASSUME NEW s, Client(s), Net(s), NEW thrown
  PROVE  LET t == RenderError(s, thrown) IN Passes(s, t) /\ Failed(t)
<1>1. LET t == RenderMonitorDefect(s) IN Passes(s, t) /\ Failed(t)
  BY DefectShown, PurePasses
<1>2. "render" \in Failures /\ "render" \notin Losses
  BY DEF Failures, Losses
<1>3. LET t == RenderProjectionFailure(s, "render") IN Passes(s, t) /\ Failed(t)
  BY <1>2, FailurePasses
<1> QED BY <1>1, <1>3 DEF RenderError

LEMMA GuardedPasses ==
  ASSUME NEW s, Client(s), Net(s) \/ s.hash.run = None
  PROVE  LET t == RenderCurrentGuarded(s) IN Passes(s, t) /\ Painted(t)
<1> DEFINE t == RenderCurrent(s)
           u == RenderCurrentGuarded(s)
<1>1. Pure(s, t) /\ (Throws(s) = None => Painted(t)) /\ Fits(u)
  BY CurrentShown, GuardedPainted
<1>2. Client(t) /\ Passes(s, t) /\ (Net(s) => Net(t))
  BY <1>1, PurePasses DEF Pure, SameNet, Net, Listed
<1>3. CASE Throws(s) = None
  BY <1>1, <1>2, <1>3 DEF RenderCurrentGuarded
<1>4. CASE Throws(s) # None
  <2>1. u = RenderError(t, Throws(s))
    BY <1>4 DEF RenderCurrentGuarded
  <2>2. Net(s)
    BY <1>4, ThrowsFacts DEF Client, AddressFits, WellFormed, Deep
  <2> HIDE DEF t
  <2>3. Passes(t, u) /\ Failed(u)
    BY <1>2, <2>1, <2>2, ErrorPasses
  <2> HIDE DEF u
  <2>4. Passes(s, u) /\ Painted(u)
    BY <1>1, <1>2, <2>3, PassesTwice, FailedTruthful
  <2> QED BY <2>4 DEF u
<1> QED BY <1>3, <1>4

LEMMA ReplayShown ==
  ASSUME NEW s, Client(s), s.lastPaint # None
  PROVE  LET t == ReplayLastPaint(s) IN Pure(s, t) /\ Failed(t)
<1> DEFINE p == s.lastPaint
           u == [s EXCEPT !.lastPaint = None]
           t == ReplayLastPaint(s)
<1>1. /\ p.ws \in All /\ p.run \in Maybe(Runs)
      /\ p.cls \in Maybe(ViewClasses) /\ p.failure \in Maybe(Failures)
      /\ p.by \in {"follow", "unavailable", "defect"}
  BY DEF Client, Browser, PaintRecords, Maybe, Failures, FetchFailures, Absences, Losses
<1>2. Pure(s, u) /\ Client(u)
  BY DEF Client, Browser, Maybe, SameRest, SameNet, SameHeld, Pure
<1>3. \/ t = RenderFollowErrorView(u, p.ws, p.run, p.cls, p.failure)
      \/ t = RenderUnavailable(u, p.failure)
      \/ t = RenderMonitorDefect(u)
  BY <1>1 DEF ReplayLastPaint
<1> HIDE DEF u, t, p
<1>4. Pure(u, t) /\ Failed(t)
  BY <1>1, <1>2, <1>3, FollowErrorShown, UnavailableShown, DefectShown
<1> QED BY <1>2, <1>4, PureTwice DEF t

LEMMA ResolvedPasses ==
  ASSUME NEW s, Client(s), Net(s), Free(s), NEW run
  PROVE  LET t == Resolved(s, run) IN
         Passes(s, t) /\ ((SameScreen(s, t) /\ SameHeld(s, t)) \/ Failed(t))
<1> DEFINE back == /\ s.dead # None /\ s.dead.run = run /\ s.hash.run = run
                   /\ s.painted.kind = "failure"
           u == IF back THEN RenderProjectionFailure(s, s.dead.failure) ELSE s
           t == Resolved(s, run)
<1>1. Passes(s, s)
  BY ReqsPass DEF Sheds, Lasts, SameAddress, SameSnap
<1>2. back => s.dead.failure \in Failures
  BY DEF Client, Browser, Maybe, Failures, FetchFailures, Absences
<1>3. t = [u EXCEPT !.resBusy = FALSE]
  BY DEF Resolved
<1>4. Passes(s, u) /\ ((SameScreen(s, u) /\ SameHeld(s, u)) \/ Failed(u))
  <2>1. CASE back
    <3>1. PICK failure \in Failures : failure = s.dead.failure
      BY <1>2, <2>1
    <3>2. LET z == RenderProjectionFailure(s, failure) IN Passes(s, z) /\ Failed(z)
      BY FailurePasses
    <3> QED BY <2>1, <3>1, <3>2
  <2>2. CASE ~back
    BY <1>1, <2>2 DEF SameScreen, SameHeld
  <2> QED BY <2>1, <2>2
<1> HIDE DEF u, t
<1>5. Client(u)
  BY <1>4 DEF Passes
<1>6. /\ Client(t) /\ t.hash = u.hash /\ t.pending = u.pending /\ t.base = u.base
      /\ t.snap = u.snap /\ t.list = u.list /\ t.detail = u.detail /\ t.detailWs = u.detailWs
      /\ t.reqs = u.reqs /\ t.waits = u.waits /\ SameScreen(u, t) /\ SameHeld(u, t)
  <2>1. u \in Browser
    BY <1>5 DEF Client
  <2>2. /\ t \in Browser /\ t.hash = u.hash /\ t.pending = u.pending /\ t.base = u.base
        /\ t.snap = u.snap /\ t.list = u.list /\ t.detail = u.detail
        /\ t.detailWs = u.detailWs /\ t.reqs = u.reqs /\ t.waits = u.waits
        /\ t.painted = u.painted /\ t.lastPaint = u.lastPaint
    BY <1>3, <2>1 DEF Browser
  <2> QED BY <1>3, <1>5, <2>1, <2>2 DEF Client, SameScreen, SameHeld
<1>7. Passes(u, t)
  BY <1>6, ReqsPass DEF Sheds, Lasts, SameAddress, SameSnap
<1>8. Passes(s, t)
  BY <1>4, <1>7, PassesTwice
<1>9. (SameScreen(s, t) /\ SameHeld(s, t)) \/ Failed(t)
  BY <1>4, <1>6 DEF SameScreen, SameHeld, Failed, Pictured, RecordIs
<1> QED BY <1>8, <1>9 DEF t
-----------------------------------------------------------------------------
(***************************************************************************)
(* What is held grows.                                                     *)
(***************************************************************************)
\* Nothing that t holds is older than what s holds in its place.
Ahead(s, t) ==
    /\ \A w \in Workspaces : /\ AtMost(s.snap[w].list, t.snap[w].list)
                             /\ AtMost(DetailVer(s.snap[w].detail), DetailVer(t.snap[w].detail))
    /\ ~Set => /\ AtMost(s.list, t.list)
               /\ s.detail # None /\ t.detail # None => s.detail.ver <= t.detail.ver

\* The types of what is held, for the comparisons.
LEMMA HeldTypes ==
  ASSUME NEW s, Client(s)
  PROVE  /\ s.list \in VerOrNone
         /\ s.detail # None => s.detail.ver \in Nat /\ s.detail.ver # None
         /\ \A w \in Workspaces :
              /\ s.snap[w].list \in VerOrNone
              /\ s.snap[w].detail # None => s.snap[w].detail.ver \in Nat /\ s.snap[w].detail.ver # None
  <1>1. s.list \in VerOrNone /\ s.detail \in DetailType
    BY DEF Client, Browser
  <1>2. ASSUME NEW w \in Workspaces PROVE s.snap[w].list \in VerOrNone /\ s.snap[w].detail \in DetailType
    BY DEF Client, Browser, SnapRecord
  <1>3. ASSUME NEW d \in DetailType, d # None PROVE d.ver \in Nat /\ d.ver # None
    BY <1>3, ClientAssumption DEF DetailType, Maybe, Versions
  <1> QED BY <1>1, <1>2, <1>3

LEMMA VersionsAreNat ==
  /\ Versions \subseteq Nat /\ None \notin Versions
  /\ \A v \in VerOrNone : v # None => v \in Nat
  BY ClientAssumption DEF Versions, VerOrNone

LEMMA LastsAhead ==
  ASSUME NEW s, Client(s), NEW t, Lasts(s, t)
  PROVE  Ahead(s, t)
<1>1. \A v \in VerOrNone : AtMost(v, v)
  BY VersionsAreNat DEF AtMost
<1>2. \A w \in Workspaces : AtMost(DetailVer(s.snap[w].detail), DetailVer(s.snap[w].detail))
  BY HeldTypes DEF AtMost, DetailVer
<1>3. s.detail # None => s.detail.ver <= s.detail.ver
  BY HeldTypes
<1> QED BY <1>1, <1>2, <1>3, HeldTypes DEF Ahead, Lasts, SameSnap

LEMMA AheadThen ==
  ASSUME NEW s, NEW t, NEW u, Ahead(s, t), Lasts(t, u)
  PROVE  Ahead(s, u)
BY DEF Ahead, Lasts, SameSnap

\* The step from s to t leaves what is held in order.
Orderly(s, t) == Contents(t) /\ Ahead(s, t) /\ \A V : Read(s, V) => Read(t, V)

LEMMA OrderlyLasts ==
  ASSUME NEW s, Client(s), Contents(s), NEW t, Lasts(s, t), Carried(s, t)
  PROVE  Orderly(s, t)
BY ContentsKept, LastsAhead DEF Orderly

LEMMA OrderlyThen ==
  ASSUME NEW s, NEW t, Client(t), NEW u, Orderly(s, t), Lasts(t, u), Carried(t, u)
  PROVE  Orderly(s, u)
BY ContentsKept, AheadThen DEF Orderly

\* A view stays right while what it shows is kept.
LEMMA PaintedKept ==
  ASSUME NEW s, Client(s), NEW t, Painted(s), Sheds(s, t), SameScreen(s, t),
         t.detail = s.detail \/ s.painted.kind # "run"
  PROVE  Painted(t)
<1>1. /\ t.hash = s.hash /\ t.snap = s.snap /\ t.list = s.list
      /\ t.painted = s.painted /\ t.lastPaint = s.lastPaint
  BY DEF Sheds, Lasts, SameAddress, SameScreen
<1>2. Pictured(t) /\ Fits(t) /\ (Unread(s) /\ InHand(s) => Unread(t) /\ InHand(t))
  BY <1>1 DEF Painted, Pictured, RecordIs, Fits, Unread, InHand
<1>3. CASE t.detail = s.detail
  <2>1. Disclosed(t) = Disclosed(s) /\ Throws(t) = Throws(s) /\ ListsOf(t) = ListsOf(s)
    BY <1>1, <1>3 DEF Disclosed, Throws, ListsOf
  <2> QED BY <1>1, <1>2, <1>3, <2>1 DEF Painted, Truthful, RunTrue, RunsTrue, OverviewTrue
<1>4. CASE s.painted.kind # "run" /\ Truthful(s)
  <2>1. ListsOf(t) = ListsOf(s)
    BY <1>1 DEF ListsOf
  <2>2. s.painted.kind = "runs" => Disclosed(t) = Disclosed(s)
    <3>1. s.painted.kind = "runs" => s.hash.view = "runs"
      <4>1. s.hash.view \in {"workspaces", "runs", "detail", "unit", "invalid"}
        BY DEF Client, AddressFits, WellFormed
      <4> QED BY <1>4, <4>1 DEF Truthful, Fits, KindsAt, Deep
    <3> QED BY <1>1, <3>1 DEF Disclosed
  <2>3. Truthful(t)
    BY <1>1, <1>2, <1>4, <2>1, <2>2 DEF Truthful, RunsTrue, OverviewTrue
  <2> QED BY <1>2, <2>3 DEF Painted
<1> QED BY <1>2, <1>3, <1>4 DEF Painted

LEMMA LandedPasses ==
  ASSUME NEW s, Client(s), Net(s), mode \in Modes
  PROVE  LET t == Landed(s) IN
         /\ Passes(s, t)
         /\ SameScreen(s, t) \/ (Failed(t) /\ Fits(t))
         /\ t.detail = s.detail \/ (s.hash.view = "runs" /\ ~Set)
         /\ Painted(s) => Painted(t)
         /\ s.again => Renewed(s, t)
<1> DEFINE u == IF s.again THEN [s EXCEPT !.flight = FALSE, !.again = FALSE] ELSE [s EXCEPT !.flight = FALSE]
           t == Landed(s)
<1>1. /\ u \in Browser /\ SameScreen(s, u) /\ SameHeld(s, u) /\ u.reqs = s.reqs /\ u.waits = s.waits
      /\ u.hash = s.hash /\ u.pending = s.pending /\ u.base = s.base
  BY ZenonT(60) DEF Client, Browser, SameScreen, SameHeld
<1>2. t = IF s.again THEN Refresh(u) ELSE u
  BY DEF Landed
<1> HIDE DEF u
<1>3. Client(u) /\ Net(u)
  BY <1>1 DEF Client, Net, Listed
<1>4. Passes(s, u) /\ Sheds(s, u)
  BY <1>1, <1>3, ReqsPass DEF Sheds, Lasts, SameAddress, SameSnap, SameHeld
<1>5. /\ Passes(s, t) /\ Sheds(s, t)
      /\ SameScreen(s, t) \/ (Failed(t) /\ Fits(t))
      /\ t.detail = s.detail \/ (s.hash.view = "runs" /\ ~Set)
      /\ s.again => Renewed(s, t)
  <2>1. CASE s.again
    <3>1. /\ Passes(u, t) /\ Sheds(u, t)
          /\ Renewed(u, t)
          /\ t.detail = u.detail \/ (u.hash.view = "runs" /\ ~Set)
          /\ u.hash.view # "invalid" => SameScreen(u, t)
          /\ u.hash.view = "invalid" => Failed(t) /\ Fits(t)
      BY <1>2, <1>3, <2>1, RefreshPasses DEF Passes
    <3> HIDE DEF t
    <3>2. Passes(s, t) /\ Sheds(s, t)
      BY <1>4, <3>1, PassesTwice, ShedsTwice
    <3> QED BY <1>1, <2>1, <3>1, <3>2 DEF SameScreen, Renewed, SameHeld
  <2>2. CASE ~s.again
    BY <1>1, <1>2, <1>4, <2>2 DEF SameHeld
  <2> QED BY <2>1, <2>2
<1> HIDE DEF t
<1>6. ASSUME Painted(s) PROVE Painted(t)
  <2>1. CASE SameScreen(s, t)
    <3>1. s.hash.view = "runs" => s.painted.kind # "run"
      BY <1>6 DEF Painted, Fits, KindsAt, Deep
    <3> QED BY <1>5, <1>6, <2>1, <3>1, PaintedKept
  <2>2. CASE Failed(t) /\ Fits(t)
    BY <2>2, FailedTruthful
  <2> QED BY <1>5, <2>1, <2>2
<1> QED BY <1>5, <1>6 DEF t
-----------------------------------------------------------------------------
(***************************************************************************)
(* What is stored is newer than what it replaces.                          *)
(***************************************************************************)
\* q has been taken off the network, and the address is as it was.
Takes(s, q, t) ==
    q \in s.reqs /\ q.ans # None /\ q.fresh /\ t.reqs = s.reqs \ {q} /\ SameAddress(s, t)

LEMMA AtMostFacts ==
  /\ \A v \in VerOrNone : AtMost(v, v)
  /\ \A v \in Nat : AtMost(v, v)
  /\ \A v : AtMost(None, v)
BY VersionsAreNat DEF AtMost

\* The parts of Contents that nothing stored can disturb.
LEMMA TakesKeeps ==
  ASSUME NEW s, Contents(s), NEW q, NEW t, Takes(s, q, t)
  PROVE  /\ Proper(t) /\ Honest(t) /\ q.ws \in Sources
         /\ \A p \in t.reqs : p \in s.reqs /\ p # q
         /\ Moved(t) <=> Moved(s)
<1>1. Proper(t)
  BY CarriedSome DEF Takes, Contents, Carried
<1> QED BY <1>1 DEF Takes, Contents, Honest, Proper, SameAddress, Moved

\* What is held that is not stored anew.
LEMMA HeldIsAtMost ==
  ASSUME NEW s, Client(s)
  PROVE  /\ AtMost(s.list, s.list) /\ AtMost(DetailVer(s.detail), DetailVer(s.detail))
         /\ \A w \in Workspaces : /\ AtMost(s.snap[w].list, s.snap[w].list)
                                  /\ AtMost(DetailVer(s.snap[w].detail), DetailVer(s.snap[w].detail))
BY HeldTypes, AtMostFacts DEF DetailVer, AtMost

LEMMA ProjectionFacts ==
  ASSUME NEW s, Client(s), Net(s), NEW q \in s.reqs, q.kind = "detail", q.ans # None,
         q.ans.out \notin FetchFailures
  PROVE  LET d == Projection(q) IN
         /\ d # None /\ d.ws = q.ws /\ d.run = q.ans.run /\ d.ver = q.ans.ver /\ d.body = q.ans.out
         /\ d.ver \in Versions /\ DetailVer(d) = q.ans.ver
<1>1. q \in RequestRecord /\ RequestOK(q)
  BY DEF Client, Browser, Net
<1>2. q.ans \in AnswerRecord /\ q.ws \in All
  BY <1>1 DEF RequestRecord, Maybe
<1>3. q.ans.run \in Runs /\ q.ans.ver \in Versions
  BY <1>1, <1>2 DEF RequestOK, AnswerRecord
<1>4. q.ans.out \in {"ok", "other", "nounit", "hostile", "defect"}
  BY <1>2 DEF AnswerRecord, Outcomes
<1>5. Projection(q) # None
  BY <1>2, <1>3, <1>4, ClientAssumption DEF Projection, Versions
<1> QED BY <1>3, <1>5 DEF Projection, DetailVer

\* A confirmed projection is stored.
LEMMA ProjectionStored ==
  ASSUME NEW s, Client(s), Net(s), Contents(s), Aimed(s), NEW q, NEW t, Takes(s, q, t),
         q.kind = "detail", q.ans.out \notin FetchFailures, q.ans.run = q.run,
         \A p \in s.reqs : p.kind \in {"detail", "runs"} => p = q,
         t.list = s.list, t.detail = Projection(q), Set => t.detailWs = q.ws,
         \A w \in Workspaces :
            /\ t.snap[w].list = s.snap[w].list
            /\ t.snap[w].detail = IF Set /\ w = q.ws THEN Projection(q) ELSE s.snap[w].detail
  PROVE  Orderly(s, t)
<1> DEFINE d == Projection(q)
<1>1. /\ d # None /\ d.ws = q.ws /\ d.run = q.run /\ d.ver = q.ans.ver
      /\ d.ver \in Nat /\ DetailVer(d) = q.ans.ver
  <2>1. q \in s.reqs /\ q.ans # None
    BY DEF Takes
  <2>2. /\ d # None /\ d.ws = q.ws /\ d.run = q.ans.run /\ d.ver = q.ans.ver
        /\ d.ver \in Versions /\ DetailVer(d) = q.ans.ver
    BY <2>1, ProjectionFacts
  <2> QED BY <2>2, VersionsAreNat
<1>2. /\ Proper(t) /\ Honest(t) /\ q.ws \in Sources /\ (Moved(t) <=> Moved(s))
      /\ \A p \in t.reqs : p \in s.reqs /\ p # q
  BY TakesKeeps
<1>3. /\ t.hash = s.hash
      /\ Moved(s) \/ (<<q.ws, q.run>> = Subject(s.hash) /\ Deep(s.hash))
  BY DEF Takes, Aimed, SameAddress
<1> HIDE DEF d
<1>4. t.detail = d
  BY DEF d
<1>5. \A w \in Workspaces : t.snap[w].detail = IF Set /\ w = q.ws THEN d ELSE s.snap[w].detail
  BY DEF d
<1>6. \A w \in Sources : HeldList(t, w) = HeldList(s, w)
  BY DEF HeldList, Sources, Set
<1>7. Newer(t)
  <2>1. ASSUME NEW p \in t.reqs, p.fresh, p.ans # None PROVE AtMost(Holds(t, p.kind, p.ws), p.ans.ver)
    <3>1. p \in s.reqs /\ p.kind # "detail" /\ p.ws \in Sources
      BY <1>2 DEF Proper
    <3>2. AtMost(Holds(s, p.kind, p.ws), p.ans.ver)
      BY <2>1, <3>1 DEF Contents, Newer
    <3> QED BY <1>6, <3>1, <3>2 DEF Holds
  <2> QED BY <2>1 DEF Newer
<1>8. Mirror(t)
  BY <1>1, <1>2, <1>4, <1>5 DEF Mirror, Sources, Set
<1>9. SnapAt(t)
  BY <1>1, <1>5 DEF Contents, SnapAt
<1>10. RowsAt(t)
  BY <1>2, <1>3 DEF RowsAt, Deep
<1>11. DetailAt(t)
  BY <1>1, <1>2, <1>3, <1>4 DEF DetailAt, At
<1>12. AtMost(Holds(s, "detail", q.ws), q.ans.ver)
  BY DEF Takes, Contents, Newer
<1>13. Ahead(s, t)
  <2>1. ASSUME NEW w \in Workspaces PROVE AtMost(DetailVer(s.snap[w].detail), DetailVer(t.snap[w].detail))
    <3>1. CASE Set /\ w = q.ws
      BY <1>1, <1>5, <1>12, <3>1 DEF Holds, HeldDetail
    <3>2. CASE ~(Set /\ w = q.ws)
      BY <1>5, <3>2, HeldIsAtMost
    <3> QED BY <3>1, <3>2
  <2>2. ~Set => (s.detail # None => s.detail.ver <= d.ver)
    BY <1>1, <1>12, HeldTypes DEF Holds, HeldDetail, DetailVer, AtMost
  <2> QED BY <1>4, <2>1, <2>2, HeldIsAtMost DEF Ahead
<1>14. ASSUME NEW V, Read(s, V) PROVE Read(t, V)
  <2>1. ASSUME NEW w \in Sources PROVE AtMost(DetailVer(HeldDetail(t, w)), V[w])
    <3>1. AtMost(DetailVer(HeldDetail(s, w)), V[w]) /\ (w = q.ws => AtMost(q.ans.ver, V[w]))
      BY <1>14 DEF Read, Takes
    <3>2. HeldDetail(t, w) = IF w = q.ws THEN d ELSE HeldDetail(s, w)
      BY <1>2, <1>4, <1>5 DEF HeldDetail, Sources, Set
    <3> QED BY <1>1, <3>1, <3>2
  <2> QED BY <1>2, <1>6, <1>14, <2>1 DEF Read
<1> QED BY <1>2, <1>7, <1>8, <1>9, <1>10, <1>11, <1>13, <1>14 DEF Contents, Orderly

\* The projection held of the source is taken in hand again.
LEMMA HeldAgain ==
  ASSUME NEW s, Client(s), Contents(s), Aimed(s), Set, NEW q, NEW t, Takes(s, q, t),
         q.kind = "detail", SameSnap(s, t), t.list = s.list, q.ws \in Workspaces,
         s.snap[q.ws].detail # None, s.snap[q.ws].detail.run = q.run,
         t.detail = s.snap[q.ws].detail, t.detailWs = q.ws
  PROVE  Orderly(s, t)
<1>1. /\ Proper(t) /\ Honest(t) /\ q.ws \in Sources /\ (Moved(t) <=> Moved(s))
      /\ \A p \in t.reqs : p \in s.reqs /\ p # q
  BY TakesKeeps
<1>2. /\ t.hash = s.hash
      /\ Moved(s) \/ (<<q.ws, q.run>> = Subject(s.hash) /\ Deep(s.hash))
  BY DEF Takes, Aimed, SameAddress
<1>3. t.detail.ws = q.ws
  BY DEF Contents, SnapAt
<1>4. \A w \in Sources : HeldList(t, w) = HeldList(s, w) /\ HeldDetail(t, w) = HeldDetail(s, w)
  BY DEF HeldList, HeldDetail, Sources, Set, SameSnap
<1>5. Newer(t)
  <2>1. ASSUME NEW p \in t.reqs, p.fresh, p.ans # None PROVE AtMost(Holds(t, p.kind, p.ws), p.ans.ver)
    <3>1. p \in s.reqs /\ p.ws \in Sources
      BY <1>1 DEF Proper
    <3> QED BY <1>4, <2>1, <3>1 DEF Holds, Contents, Newer
  <2> QED BY <2>1 DEF Newer
<1>6. Mirror(t) /\ SnapAt(t)
  BY <1>3 DEF Mirror, SameSnap, Contents, SnapAt
<1>7. RowsAt(t) /\ DetailAt(t)
  BY <1>1, <1>2, <1>3 DEF RowsAt, DetailAt, At, Deep
<1>8. Ahead(s, t)
  BY HeldIsAtMost DEF Ahead, SameSnap
<1>9. ASSUME NEW V, Read(s, V) PROVE Read(t, V)
  BY <1>1, <1>4, <1>9 DEF Read
<1> QED BY <1>1, <1>5, <1>6, <1>7, <1>8, <1>9 DEF Contents, Orderly

\* The inventory of single mode: of the address, or acquired for a dead end.
LEMMA RowsStored ==
  ASSUME NEW s, Client(s), Net(s), Contents(s), ~Set, NEW q, NEW t, Takes(s, q, t),
         q.kind \in {"runs", "resolve"},
         \A p \in s.reqs : p.kind = q.kind \/ p.kind = "detail" => p = q,
         q.ans.out \notin FetchFailures, t.list = q.ans.ver, t.snap = s.snap,
         t.detail = None \/ (t.detail = s.detail /\ t.detailWs = s.detailWs)
  PROVE  Orderly(s, t)
<1>1. /\ Proper(t) /\ Honest(t) /\ q.ws \in Sources /\ (Moved(t) <=> Moved(s)) /\ t.hash = s.hash
      /\ \A p \in t.reqs : p \in s.reqs /\ p # q
  BY TakesKeeps DEF Takes, SameAddress
<1>2. Newer(t)
  <2>1. ASSUME NEW p \in t.reqs, p.fresh PROVE FALSE
    <3>1. p \in s.reqs /\ q \in s.reqs /\ p # q /\ q.fresh
      BY <1>1 DEF Takes
    <3>2. p.kind # "list" /\ p.kind # q.kind /\ p.kind # "detail"
      BY <1>1, <3>1 DEF Net, RequestOK
    <3>3. p.kind \in {"list", "detail", "runs", "resolve"}
      BY <3>1 DEF Client, Browser, RequestRecord
    <3> QED BY <2>1, <3>1, <3>2, <3>3 DEF Contents, Proper
  <2> QED BY <2>1 DEF Newer
<1>3. Mirror(t) /\ SnapAt(t) /\ RowsAt(t) /\ DetailAt(t)
  BY <1>1 DEF Contents, Mirror, SnapAt, RowsAt, DetailAt, At
<1>4. AtMost(s.list, q.ans.ver) /\ q.ws = None
  <2>1. q.ws = None
    BY <1>1 DEF Sources, Set
  <2>2. AtMost(Holds(s, q.kind, q.ws), q.ans.ver)
    BY DEF Takes, Contents, Newer
  <2> QED BY <2>1, <2>2 DEF Holds, HeldList
<1>5. Ahead(s, t)
  BY <1>4, HeldIsAtMost, HeldTypes DEF Ahead
<1>6. ASSUME NEW V, Read(s, V) PROVE Read(t, V)
  <2>1. AtMost(q.ans.ver, V[None])
    BY <1>4, <1>6 DEF Read, Takes
  <2>2. ASSUME NEW w \in Sources
        PROVE  AtMost(HeldList(t, w), V[w]) /\ AtMost(DetailVer(HeldDetail(t, w)), V[w])
    <3>1. w = None
      BY DEF Sources, Set
    <3>2. AtMost(DetailVer(s.detail), V[w])
      BY <1>6 DEF Read, HeldDetail
    <3>3. AtMost(HeldList(t, w), V[w])
      BY <2>1, <3>1 DEF HeldList
    <3> QED BY <3>2, <3>3, AtMostFacts DEF HeldDetail, DetailVer
  <2> QED BY <1>1, <1>6, <2>2 DEF Read
<1> QED BY <1>1, <1>2, <1>3, <1>5, <1>6 DEF Contents, Orderly

\* The list of a source, and the rows in hand with it.
LEMMA ListStored ==
  ASSUME NEW s, Client(s), Net(s), Contents(s), Set, NEW q, NEW t, Takes(s, q, t),
         q.kind = "list", t.detail = s.detail, t.detailWs = s.detailWs,
         \A w \in Workspaces :
            /\ t.snap[w].detail = s.snap[w].detail
            /\ t.snap[w].list = IF w = q.ws /\ q.ans.out = "ok" THEN q.ans.ver ELSE s.snap[w].list,
         \/ t.list = s.list /\ (s.hash.view = "runs" /\ s.hash.ws = q.ws => t.snap[q.ws].list = None)
         \/ s.hash.view = "runs" /\ s.hash.ws = q.ws /\ t.list = t.snap[q.ws].list
  PROVE  Orderly(s, t)
<1>1. /\ Proper(t) /\ Honest(t) /\ q.ws \in Workspaces /\ (Moved(t) <=> Moved(s)) /\ t.hash = s.hash
      /\ \A p \in t.reqs : p \in s.reqs /\ p # q
  BY TakesKeeps DEF Takes, SameAddress, Sources, Set
<1>2. q.ans.ver \in Versions /\ q.ans.ver # None
  <2>1. q \in RequestRecord
    BY DEF Takes, Client, Browser
  <2> QED BY <2>1, VersionsAreNat DEF Takes, RequestRecord, Maybe, AnswerRecord
<1>3. Newer(t)
  <2>1. ASSUME NEW p \in t.reqs, p.fresh, p.ans # None PROVE AtMost(Holds(t, p.kind, p.ws), p.ans.ver)
    <3>1. p \in s.reqs /\ p # q /\ p.ws \in Workspaces /\ q \in s.reqs /\ q.fresh
      BY <1>1 DEF Takes, Proper, Sources, Set
    <3>2. AtMost(Holds(s, p.kind, p.ws), p.ans.ver)
      BY <2>1, <3>1 DEF Contents, Newer
    <3>3. p.kind \in {"list", "detail"}
      <4>1. p.kind \in {"list", "detail", "runs", "resolve"}
        BY <3>1 DEF Client, Browser, RequestRecord
      <4>2. p.kind # "runs"
        BY <3>1 DEF Net, RequestOK
      <4>3. p.kind # "resolve"
        BY <2>1, <3>1 DEF Contents, Proper
      <4> QED BY <4>1, <4>2, <4>3
    <3>4. CASE p.kind = "list"
      <4>1. p.ws # q.ws
        BY <2>1, <3>1, <3>4 DEF Contents, Proper
      <4> QED BY <3>1, <3>2, <3>4, <4>1 DEF Holds, HeldList
    <3>5. CASE p.kind = "detail"
      BY <3>1, <3>2, <3>5 DEF Holds, HeldDetail
    <3> QED BY <3>3, <3>4, <3>5
  <2> QED BY <2>1 DEF Newer
<1>4. Mirror(t) /\ SnapAt(t) /\ DetailAt(t)
  BY <1>1 DEF Contents, Mirror, SnapAt, DetailAt, At
<1>5. RowsAt(t)
  <2> SUFFICES ASSUME ~Moved(t), t.hash.view = "runs" PROVE t.list = t.snap[t.hash.ws].list
    BY DEF RowsAt
  <2>1. s.list = s.snap[s.hash.ws].list /\ s.hash.ws \in Workspaces
    BY <1>1 DEF Contents, RowsAt, Client, AddressFits, WellFormed, All
  <2>2. CASE s.hash.ws # q.ws
    BY <1>1, <2>1, <2>2
  <2>3. CASE s.hash.ws = q.ws
    BY <1>1, <1>2, <2>1, <2>3
  <2> QED BY <2>2, <2>3
<1>6. AtMost(s.snap[q.ws].list, q.ans.ver)
  <2>1. AtMost(Holds(s, "list", q.ws), q.ans.ver)
    BY DEF Takes, Contents, Newer
  <2> QED BY <1>1, <2>1, ClientAssumption DEF Holds, HeldList
<1>7. Ahead(s, t)
  BY <1>6, HeldIsAtMost DEF Ahead
<1>8. ASSUME NEW V, Read(s, V) PROVE Read(t, V)
  <2>1. AtMost(q.ans.ver, V[q.ws])
    BY <1>8 DEF Read, Takes
  <2>2. ASSUME NEW w \in Sources
        PROVE  AtMost(HeldList(t, w), V[w]) /\ AtMost(DetailVer(HeldDetail(t, w)), V[w])
    <3>1. w \in Workspaces /\ w # None
      BY ClientAssumption DEF Sources, Set
    <3>2. AtMost(s.snap[w].list, V[w]) /\ AtMost(DetailVer(s.snap[w].detail), V[w])
      BY <1>8, <3>1 DEF Read, HeldList, HeldDetail
    <3> QED BY <2>1, <3>1, <3>2 DEF HeldList, HeldDetail
  <2> QED BY <1>1, <1>8, <2>2 DEF Read
<1> QED BY <1>1, <1>3, <1>4, <1>5, <1>7, <1>8 DEF Contents, Orderly
-----------------------------------------------------------------------------
(***************************************************************************)
(* A task of the event loop leaves what is held in order, and leaves the   *)
(* screen, empties it, or paints a failure or what is held of the address. *)
(***************************************************************************)
Emptied(t) == t.painted = Blank /\ t.lastPaint = None
Inquiring(s) == ~Set /\ \E q \in s.reqs : q.kind = "resolve" /\ q.fresh
Retains(s, t) ==
    /\ t.detail = None \/ t.detail = s.detail
    /\ t.list = s.list \/ Set \/ (Inquiring(s) /\ t.list # None)
Redraws(s, t) ==
    (SameScreen(s, t) /\ Retains(s, t)) \/ Failed(t) \/ Painted(t) \/ Emptied(t) \/ Astray(t)
Advances(s, t) ==
    /\ Contents(t) /\ \A V : Read(s, V) => Read(t, V)
    /\ Failed(t) \/ Emptied(t) \/ (Ahead(s, t) /\ Redraws(s, t))

LEMMA RedrawsThen ==
  ASSUME NEW s, NEW u, NEW z, Redraws(s, u), Sheds(u, z),
         (SameScreen(u, z) /\ (Painted(u) => Painted(z))) \/ Failed(z)
  PROVE  Redraws(s, z)
<1>1. (Moved(z) <=> Moved(u)) /\ z.hash = u.hash /\ z.list = u.list /\ (z.detail = None \/ z.detail = u.detail)
  BY DEF Sheds, Lasts, SameAddress, Moved
<1>2. SameScreen(u, z) => (Failed(u) => Failed(z)) /\ (Pictured(u) => Pictured(z)) /\ (Emptied(u) => Emptied(z))
  BY DEF SameScreen, Failed, Pictured, RecordIs, Emptied
<1>3. SameScreen(s, u) /\ SameScreen(u, z) => SameScreen(s, z)
  BY DEF SameScreen
<1>4. Retains(s, u) => Retains(s, z)
  BY <1>1 DEF Retains
<1>5. SameScreen(u, z) /\ Astray(u) => Astray(z)
  BY <1>1, <1>2 DEF SameScreen, Astray, Legible, InHand, Throws
<1> QED BY <1>2, <1>3, <1>4, <1>5 DEF Redraws

\* A page that keeps its address and what it holds keeps its screen.
LEMMA LastsRetains ==
  ASSUME NEW s, NEW t, Lasts(s, t) \/ SameHeld(s, t)
  PROVE  Retains(s, t)
BY DEF Lasts, SameHeld, Retains

\* What is painted of an address is of what is in hand.
LEMMA PaintedInHand ==
  ASSUME NEW t, Painted(t)
  PROVE  Legible(t) /\ InHand(t)
<1>1. Truthful(t) => Legible(t) /\ InHand(t)
  BY DEF Truthful, RunTrue, RunsTrue, Legible, InHand
<1>2. Fits(t) /\ Unread(t) /\ InHand(t) => Legible(t) /\ InHand(t)
  BY DEF Fits, KindsAt, Deep, Unread, Legible, InHand
<1> QED BY <1>1, <1>2 DEF Painted

LEMMA OrderlyAdvances ==
  ASSUME NEW s, NEW t, Orderly(s, t), Redraws(s, t)
  PROVE  Advances(s, t)
BY DEF Orderly, Advances

LEMMA TakenPasses ==
  ASSUME NEW s, Client(s), Net(s), NEW q \in s.reqs
  PROVE  LET t == Without(s, q) IN
         /\ Client(t) /\ Sheds(s, t) /\ Carried(s, t) /\ SameScreen(s, t) /\ SameHeld(s, t)
         /\ t.reqs = s.reqs \ {q} /\ t.waits = s.waits /\ t.resBusy = s.resBusy
         /\ q.kind # "list" => Net(t)
<1> DEFINE t == Without(s, q)
<1>1. /\ Client(t) /\ SameRest(s, t) /\ SameScreen(s, t) /\ t.waits = s.waits
      /\ t.reqs = s.reqs \ {q} /\ t.resBusy = s.resBusy
      /\ q.kind # "list" => Net(t)
  BY TakenFacts
<1>2. SameHeld(s, t)
  BY DEF Without, SameHeld, Client, Browser
<1> HIDE DEF t
<1>3. Sheds(s, t)
  BY <1>1, <1>2 DEF SameHeld, SameRest, Sheds, Lasts, SameAddress, SameSnap
<1>4. Carried(s, t)
  BY <1>1, CarriedSome
<1> QED BY <1>1, <1>2, <1>3, <1>4 DEF t

\* The catch of refresh in workspace-set mode.
LEMMA SetFailedPasses ==
  ASSUME NEW s, Client(s), Net(s), Set, NEW q, q.ws \in Workspaces, q.run \in Runs,
         NEW failure \in Failures
  PROVE  LET z == SetDetailFailed(s, q, failure)
             held == s.snap[q.ws].detail
             again == held # None /\ held.run = q.run IN
         /\ Relists(s, z) /\ z.snap[q.ws].detailErr
         /\ again => \E u : /\ Client(u) /\ u.reqs = s.reqs /\ SameAddress(s, u) /\ SameSnap(s, u)
                            /\ u.list = s.list /\ u.detail = held /\ u.detailWs = q.ws
                            /\ Passes(u, z) /\ Painted(z)
         /\ ~again => /\ Client(z) /\ Lasts(s, z) /\ Carried(s, z) /\ Failed(z)
                      /\ s.hash.run # None /\ failure # "render" => z.detail = None
<1> DEFINE snap == [s.snap EXCEPT ![q.ws].detailErr = TRUE]
           t == [s EXCEPT !.snap[q.ws].detailErr = TRUE]
           held == t.snap[q.ws].detail
           again == held # None /\ held.run = q.run
           u == [t EXCEPT !.detail = held, !.detailId = q.run, !.detailWs = q.ws, !.conflict = FALSE]
           z == SetDetailFailed(s, q, failure)
<1>1. s.snap \in [Workspaces -> SnapRecord] /\ s.snap[q.ws].detail \in DetailType
  BY DEF Client, Browser, SnapRecord
<1>2. snap \in [Workspaces -> SnapRecord]
  <2>1. [s.snap[q.ws] EXCEPT !.detailErr = TRUE] \in SnapRecord
    BY <1>1 DEF SnapRecord
  <2> QED BY <1>1, <2>1
<1>3. /\ snap[q.ws].detail = s.snap[q.ws].detail
      /\ \A w \in Workspaces : /\ snap[w].list = s.snap[w].list /\ snap[w].detail = s.snap[w].detail
                               /\ snap[w].listErr = s.snap[w].listErr
      /\ snap[q.ws].detailErr = TRUE
  BY <1>1 DEF SnapRecord
<1>0. t = [s EXCEPT !.snap = snap]
  BY DEF Client, Browser
<1>5. z = IF again THEN RenderCurrentGuarded(u) ELSE RenderProjectionFailure(t, failure)
  <2> HIDE DEF u
  <2> QED BY DEF SetDetailFailed, u
<1> HIDE DEF snap, t
<1>4. /\ Client(t) /\ t.reqs = s.reqs /\ t.waits = s.waits /\ SameAddress(s, t)
      /\ t.list = s.list /\ t.detail = s.detail /\ t.detailWs = s.detailWs /\ t.snap = snap
  BY <1>0, <1>2 DEF Client, Browser, SameAddress
<1>11. held = s.snap[q.ws].detail
  BY <1>3, <1>4
<1>6. /\ Client(u) /\ u.reqs = s.reqs /\ u.waits = s.waits /\ SameAddress(s, u)
      /\ u.list = s.list /\ u.detail = held /\ u.detailWs = q.ws /\ u.snap = snap
  <2> HIDE DEF t, held
  <2>1. q.ws \in All /\ q.run \in Maybe(Runs)
    BY DEF All, Maybe
  <2> QED BY ZenonT(60), <1>1, <1>4, <1>11, <2>1 DEF Client, Browser, SameAddress
<1> HIDE DEF u, z, held
<1>7. Net(t) /\ Net(u)
  BY <1>4, <1>6 DEF Net, Listed
<1>8. SameSnap(s, t) /\ SameSnap(s, u)
  BY <1>3, <1>4, <1>6 DEF SameSnap
<1>9. ASSUME again PROVE Passes(u, z) /\ Painted(z)
  <2>1. LET k == RenderCurrentGuarded(u) IN Passes(u, k) /\ Painted(k)
    BY <1>6, <1>7, GuardedPasses
  <2> QED BY <1>5, <1>9, <2>1
<1>10. ASSUME ~again
       PROVE  /\ Client(z) /\ Lasts(s, z) /\ Carried(s, z) /\ Failed(z) /\ Passes(t, z)
              /\ s.hash.run # None /\ failure # "render" => z.detail = None
  <2>1. LET k == RenderProjectionFailure(t, failure) IN
        Passes(t, k) /\ Failed(k) /\ (t.hash.run # None /\ failure # "render" => k.detail = None)
    BY <1>4, <1>7, FailurePasses DEF Free
  <2>2. Passes(t, z) /\ Failed(z) /\ (s.hash.run # None /\ failure # "render" => z.detail = None)
    BY <1>4, <1>5, <1>10, <2>1 DEF SameAddress
  <2>3. Lasts(s, t) /\ Carried(s, t)
    BY <1>4, <1>8, CarriedSome DEF Lasts
  <2> QED BY <2>2, <2>3, ShedsTwice, CarriedTwice DEF Passes, Sheds
<1>12. Relists(s, z) /\ z.snap[q.ws].detailErr
  <2>1. PICK k \in {t, u} : Passes(k, z)
    BY <1>9, <1>10
  <2>2. Relists(s, k) /\ k.snap = snap
    <3>1. k.reqs = s.reqs /\ k.waits = s.waits /\ k.snap = snap
      BY <1>4, <1>6
    <3>2. Carried(s, k)
      BY <3>1, CarriedSome
    <3> QED BY <1>3, <3>1, <3>2 DEF Relists, Coming, Fetched, DeepWait
  <2>3. Relists(s, z)
    BY <2>1, <2>2, PassesRelists, RelistsTwice
  <2> QED BY <1>3, <2>1, <2>2, <2>3 DEF Passes, Sheds
<1> QED BY <1>6, <1>8, <1>9, <1>10, <1>11, <1>12 DEF z

\* Another run's projection is painted as a conflict.
LEMMA UnconfirmedShown ==
  ASSUME NEW y, NEW run, Painted(y), y.detail # None, y.detail.run # run,
         Moved(y) \/ (Deep(y.hash) /\ y.hash.run = run)
  PROVE  Moved(y) \/ Failed(y)
<1> SUFFICES ASSUME ~Moved(y) PROVE Failed(y)
  OBVIOUS
<1>1. y.painted.kind \in {"run", "failure"} /\ ~Unread(y)
  BY DEF Painted, Fits, KindsAt, Unread, Deep
<1>2. y.painted.kind # "run"
  BY <1>1 DEF Painted, Truthful, RunTrue
<1> QED BY <1>1, <1>2 DEF Failed, Painted

\* The answer q of a run is the one that is awaited.
Alone(s, q) ==
    q \in s.reqs /\ q.ans # None /\ q.fresh /\ \A p \in s.reqs : p.kind \in {"detail", "runs"} => p = q

\* What is in hand is the projection answered, or one that is known to be stale.
Given(q, z) ==
    z.detail # None /\ z.hash.run # None =>
        z.detail = Projection(q) \/ (Set /\ z.detail.ws = q.ws /\ z.snap[q.ws].detailErr)

LEMMA SetDetailAdvances ==
  ASSUME NEW s, Client(s), Net(s), Contents(s), Aimed(s), Set, NEW q, Alone(s, q), q.kind = "detail"
  PROVE  LET z == SetDetailArrives(Without(s, q), q) IN
         /\ Client(z) /\ Orderly(s, z) /\ Relists(s, z) /\ Given(q, z)
         /\ Failed(z) \/ Painted(z) \/ Astray(z)
<1> DEFINE v == Without(s, q)
           confirmed == q.ans.run = q.run
           snap == [v.snap EXCEPT ![q.ws] = IF confirmed
                                           THEN [@ EXCEPT !.detail = Projection(q),
                                                          !.detailErr = FALSE]
                                           ELSE @]
           t == [v EXCEPT !.conflict = ~confirmed, !.detail = Projection(q),
                          !.detailId = IF confirmed THEN q.run ELSE None,
                          !.detailWs = IF confirmed THEN q.ws ELSE None,
                          !.snap[q.ws] = IF confirmed
                                         THEN [@ EXCEPT !.detail = Projection(q),
                                                        !.detailErr = FALSE]
                                         ELSE @]
           y == RenderCurrent(t)
           z == SetDetailArrives(v, q)
           out == q.ans.out
<1>0. SUFFICES /\ Client(z) /\ Orderly(s, z) /\ Relists(s, z) /\ Given(q, z)
               /\ Failed(z) \/ Painted(z) \/ Astray(z)
  OBVIOUS
<1>1. q \in s.reqs /\ q \in RequestRecord /\ RequestOK(q)
  BY DEF Alone, Client, Browser, Net
<1>2. q.ws \in Workspaces /\ q.run \in Runs /\ out \in Outcomes
  BY <1>1 DEF RequestOK, RequestRecord, AnswerRecord, Maybe, Alone
<1>3. /\ Client(v) /\ Net(v) /\ Sheds(s, v) /\ Carried(s, v) /\ v.reqs = s.reqs \ {q}
      /\ v.snap = s.snap /\ v.list = s.list /\ SameAddress(s, v) /\ Relists(s, v)
  <2>1. /\ Client(v) /\ Net(v) /\ Sheds(s, v) /\ Carried(s, v) /\ v.reqs = s.reqs \ {q} /\ v.waits = s.waits
    BY <1>1, TakenPasses
  <2> HIDE DEF v
  <2>2. Coming(s, v)
    BY <2>1 DEF Coming, Fetched, DeepWait
  <2> QED BY <2>1, <2>2 DEF Sheds, Lasts, Relists
<1> HIDE DEF v
<1>5. CASE out \in FetchFailures
  <2>1. z = SetDetailFailed(v, q, out) /\ out \in Failures
    BY <1>5 DEF SetDetailArrives, Failures
  <2> DEFINE held == v.snap[q.ws].detail
             again == held # None /\ held.run = q.run
  <2> HIDE DEF z, out
  <2>2. /\ again => \E u : /\ Client(u) /\ u.reqs = v.reqs /\ SameAddress(v, u) /\ SameSnap(v, u)
                           /\ u.list = v.list /\ u.detail = held /\ u.detailWs = q.ws
                           /\ Passes(u, z) /\ Painted(z)
        /\ ~again => /\ Client(z) /\ Lasts(v, z) /\ Carried(v, z) /\ Failed(z)
                     /\ v.hash.run # None /\ out # "render" => z.detail = None
        /\ Relists(v, z) /\ z.snap[q.ws].detailErr
    BY <1>2, <1>3, <2>1, SetFailedPasses
  <2>5. Relists(s, z)
    BY <1>3, <2>2, RelistsTwice
  <2>3. CASE again
    <3>1. PICK u : /\ Client(u) /\ u.reqs = v.reqs /\ SameAddress(v, u) /\ SameSnap(v, u)
                   /\ u.list = v.list /\ u.detail = held /\ u.detailWs = q.ws
                   /\ Passes(u, z) /\ Painted(z)
      BY <2>2, <2>3
    <3>2. Takes(s, q, u)
      BY <1>3, <3>1 DEF Takes, Alone, SameAddress
    <3>3. SameSnap(s, u) /\ u.list = s.list /\ held = s.snap[q.ws].detail
      BY <1>3, <3>1 DEF SameSnap
    <3>4. Orderly(s, u)
      <4>1. u.detail = s.snap[q.ws].detail /\ s.snap[q.ws].detail # None /\ s.snap[q.ws].detail.run = q.run
        BY <2>3, <3>1, <3>3
      <4> HIDE DEF held
      <4> QED BY <1>2, <3>1, <3>2, <3>3, <4>1, HeldAgain
    <3>5. Orderly(s, z)
      BY <3>1, <3>4, OrderlyThen DEF Passes, Sheds
    <3>6. held.ws = q.ws
      BY <1>2, <2>3, <3>3 DEF Contents, SnapAt
    <3>7. Given(q, z)
      BY <2>2, <3>1, <3>6 DEF Given, Passes, Sheds, Lasts
    <3> QED BY <2>5, <3>1, <3>5, <3>7 DEF Passes
  <2>4. CASE ~again
    <3>1. Lasts(s, z) /\ Carried(s, z)
      BY <1>3, <2>2, <2>4, ShedsTwice, CarriedTwice DEF Sheds
    <3>2. v.hash.run # None => z.detail = None
      BY <1>5, <2>2, <2>4 DEF FetchFailures, Absences, Losses, out
    <3>3. Given(q, z)
      BY <2>2, <2>4, <3>2 DEF Given, Lasts, SameAddress
    <3> QED BY <2>2, <2>4, <2>5, <3>1, <3>3, OrderlyLasts
  <2> QED BY <2>3, <2>4
<1>6. CASE out \notin FetchFailures
  <2>1. Projection(q) \in DetailType
    BY <1>1, <1>6, ProjectionType DEF Alone
  <2>2. LET d == Projection(q) IN
        d # None /\ d.ws = q.ws /\ d.run = q.ans.run /\ d.body = q.ans.out
    BY <1>1, <1>6, ProjectionFacts DEF Alone
  <2>3. v.snap \in [Workspaces -> SnapRecord]
    BY <1>3 DEF Client, Browser
  <2>4. snap \in [Workspaces -> SnapRecord]
    <3>1. [v.snap[q.ws] EXCEPT !.detail = Projection(q), !.detailErr = FALSE] \in SnapRecord
      BY <1>2, <2>1, <2>3 DEF SnapRecord
    <3> QED BY <2>3, <3>1
  <2>5. \A w \in Workspaces :
          /\ snap[w].list = v.snap[w].list /\ snap[w].listErr = v.snap[w].listErr
          /\ snap[w].detail = IF confirmed /\ w = q.ws THEN Projection(q) ELSE v.snap[w].detail
    <3> HIDE DEF confirmed
    <3>1. ASSUME NEW w \in Workspaces
          PROVE  /\ snap[w].list = v.snap[w].list /\ snap[w].listErr = v.snap[w].listErr
                 /\ snap[w].detail = IF confirmed /\ w = q.ws THEN Projection(q) ELSE v.snap[w].detail
      <4>1. v.snap[w] \in SnapRecord
        BY <2>3
      <4>2. CASE confirmed /\ w = q.ws
        <5>1. PICK k \in SnapRecord : k = v.snap[w]
          BY <4>1
        <5>2. snap[w] = [k EXCEPT !.detail = Projection(q), !.detailErr = FALSE]
          BY <2>3, <4>2, <5>1
        <5> HIDE DEF snap
        <5>3. snap[w].list = k.list /\ snap[w].listErr = k.listErr /\ snap[w].detail = Projection(q)
          BY <5>2 DEF SnapRecord
        <5> QED BY <4>2, <5>1, <5>3
      <4>3. CASE ~(confirmed /\ w = q.ws)
        <5>1. snap[w] = v.snap[w]
          BY <2>3, <4>3
        <5> QED BY <4>3, <5>1
      <4> QED BY <4>2, <4>3
    <3> QED BY <3>1
  <2>6. t = [v EXCEPT !.conflict = ~confirmed, !.detail = Projection(q),
                      !.detailId = IF confirmed THEN q.run ELSE None,
                      !.detailWs = IF confirmed THEN q.ws ELSE None, !.snap = snap]
    BY <1>3 DEF Client, Browser
  <2>7. /\ (~confirmed) \in BOOLEAN
        /\ (IF confirmed THEN q.run ELSE None) \in Maybe(Runs)
        /\ (IF confirmed THEN q.ws ELSE None) \in All
    BY <1>2 DEF Maybe, All
  <2>8. /\ Client(t) /\ SameRest(v, t) /\ SameNet(v, t) /\ t.list = v.list
        /\ t.detail = Projection(q) /\ (confirmed => t.detailWs = q.ws) /\ t.snap = snap
        /\ t.conflict = ~confirmed
    <3> HIDE DEF snap, t
    <3>1. PICK f1 \in BOOLEAN, f2 \in DetailType, f3 \in Maybe(Runs), f4 \in All,
                f5 \in [Workspaces -> SnapRecord] :
            /\ f1 = ~confirmed /\ f2 = Projection(q) /\ f3 = (IF confirmed THEN q.run ELSE None)
            /\ f4 = (IF confirmed THEN q.ws ELSE None) /\ f5 = snap
      BY <2>1, <2>4, <2>7
    <3>2. t = [v EXCEPT !.conflict = f1, !.detail = f2, !.detailId = f3, !.detailWs = f4, !.snap = f5]
      BY <2>6, <3>1
    <3>3. /\ Client(t) /\ SameRest(v, t) /\ SameNet(v, t) /\ t.list = v.list
          /\ t.conflict = f1 /\ t.detail = f2 /\ t.detailWs = f4 /\ t.snap = f5
      <4> HIDE DEF confirmed
      <4> QED BY ZenonT(60), <1>3, <3>2 DEF Client, Browser, SameRest, SameNet
    <3> QED BY <3>1, <3>3
  <2>9. z = CASE out \in FetchFailures -> SetDetailFailed(v, q, out)
              [] out \notin FetchFailures /\ Throws(t) = None -> DropConflict(y)
              [] out \notin FetchFailures /\ Throws(t) = "defect" -> RenderMonitorDefect(y)
              [] OTHER -> SetDetailFailed(y, q, "render")
    BY DEF SetDetailArrives
  <2> HIDE DEF snap, t
  <2>10. Pure(t, y) /\ (Throws(t) = None => Painted(y))
    BY <2>8, CurrentShown
  <2> HIDE DEF y, z
  <2>11. /\ Net(y) /\ Client(y) /\ y.reqs = v.reqs /\ SameAddress(v, y) /\ SameAddress(s, y)
         /\ y.list = s.list /\ y.snap = snap /\ y.detail = Projection(q) /\ y.conflict = ~confirmed
         /\ confirmed => y.detailWs = q.ws
         /\ y.waits = v.waits
    BY <1>3, <2>8, <2>10 DEF Pure, SameRest, SameNet, SameHeld, Net, Listed, SameAddress
  <2>18. Relists(s, y) /\ Given(q, y)
    <3>1. Relists(v, y)
      BY <2>5, <2>11, CarriedSome DEF Relists, Coming, Fetched, DeepWait
    <3> QED BY <1>3, <2>11, <3>1, RelistsTwice DEF Given
  <2>12. out # "other" => confirmed
    BY <1>1 DEF Contents, Honest, Alone
  \* A confirmed projection is stored, in t and whatever is painted of it.
  <2>13. ASSUME confirmed, NEW u, u.reqs = v.reqs, SameAddress(v, u), u.list = s.list,
                u.detail = Projection(q), u.detailWs = q.ws, SameSnap(y, u)
         PROVE  Orderly(s, u)
    <3>1. Takes(s, q, u)
      BY <1>3, <2>13 DEF Takes, Alone, SameAddress
    <3>2. \A w \in Workspaces :
            /\ u.snap[w].list = s.snap[w].list
            /\ u.snap[w].detail = IF Set /\ w = q.ws THEN Projection(q) ELSE s.snap[w].detail
      BY <1>3, <2>5, <2>11, <2>13 DEF SameSnap
    <3>3. \A p \in s.reqs : p.kind \in {"detail", "runs"} => p = q
      BY DEF Alone
    <3> QED BY <1>6, <2>13, <3>1, <3>2, <3>3, ProjectionStored
  <2>14. confirmed => Orderly(s, y)
    BY <2>11, <2>13 DEF SameSnap
  <2>15. CASE Throws(t) = None /\ confirmed
    <3>0. z = DropConflict(y)
      BY <1>6, <2>9, <2>15, ClientAssumption
    <3>1. z = y
      BY <2>11, <2>15, <3>0 DEF DropConflict
    <3> QED BY <2>10, <2>11, <2>14, <2>15, <2>18, <3>1
  <2>16. CASE Throws(t) = None /\ ~confirmed
    <3>1. z = [y EXCEPT !.detail = None, !.detailWs = None, !.conflict = FALSE]
      <4>1. z = DropConflict(y)
        BY <1>6, <2>9, <2>16, ClientAssumption
      <4> QED BY <2>11, <2>16, <4>1 DEF DropConflict
    <3>2. /\ Client(z) /\ z.hash = y.hash /\ z.pending = y.pending /\ z.base = y.base
          /\ z.snap = y.snap /\ z.list = y.list /\ z.detail = None /\ z.reqs = y.reqs /\ SameScreen(y, z)
          /\ z.waits = y.waits
      <4>1. None \in DetailType /\ None \in All
        BY DEF DetailType, Maybe, All
      <4>2. y \in Browser /\ AddressFits(y.hash)
        BY <2>11 DEF Client
      <4>3. /\ z \in Browser /\ z.hash = y.hash /\ z.pending = y.pending /\ z.base = y.base
            /\ z.snap = y.snap /\ z.list = y.list /\ z.detail = None /\ z.reqs = y.reqs
            /\ z.painted = y.painted /\ z.lastPaint = y.lastPaint /\ z.waits = y.waits
        BY ONLY <3>1, <4>1, <4>2 DEF Browser
      <4> QED BY <4>2, <4>3 DEF Client, SameScreen
    <3>3. SameSnap(s, z)
      BY <1>3, <2>5, <2>11, <2>16, <3>2 DEF SameSnap
    <3>4. Lasts(s, z) /\ Carried(s, z)
      BY <1>3, <2>11, <3>2, <3>3, CarriedSome DEF Lasts, SameAddress
    <3>5. Painted(y)
      BY <2>10, <2>16
    <3>6. Moved(y) \/ (Deep(y.hash) /\ y.hash.run = q.run)
      BY <1>1, <2>11 DEF Aimed, Alone, SameAddress, Moved, Subject
    <3>7. Moved(y) \/ Failed(y)
      BY <2>2, <2>11, <2>16, <3>5, <3>6, UnconfirmedShown
    <3>8. Failed(z) \/ Astray(z)
      <4>1. Legible(z) /\ InHand(z)
        BY <3>2, <3>5, PaintedInHand DEF SameScreen, Legible, InHand
      <4> QED BY <3>2, <3>5, <3>7, <4>1 DEF Moved, Failed, Pictured, RecordIs, SameScreen, Painted, Astray
    <3>9. Relists(s, z) /\ Given(q, z)
      <4>1. Relists(y, z)
        BY <3>2, CarriedSome DEF Relists, Coming, Fetched, DeepWait
      <4> QED BY <2>18, <3>2, <4>1, RelistsTwice DEF Given
    <3> QED BY <3>2, <3>4, <3>8, <3>9, OrderlyLasts
  <2>17. CASE Throws(t) # None
    <3>1. t.detail.body \in {"hostile", "defect"} /\ Throws(t) = t.detail.body
      BY <2>17, ThrowsFacts
    <3>2. confirmed
      BY <2>2, <2>8, <2>12, <3>1
    <3>3. CASE Throws(t) = "defect"
      <4>1. z = RenderMonitorDefect(y)
        BY <1>6, <2>9, <2>17, <3>3
      <4>2. Pure(y, z) /\ Failed(z)
        BY <2>11, <4>1, DefectShown
      <4>3. Orderly(s, z)
        BY <2>11, <2>14, <3>2, <4>2, OrderlyThen, PureSheds DEF Sheds
      <4>4. Relists(s, z) /\ Given(q, z)
        <5>1. Relists(y, z)
          BY <4>2, PurePasses, PassesRelists
        <5> QED BY <2>11, <2>18, <4>2, <5>1, RelistsTwice DEF Given, Pure, SameHeld
      <4> QED BY <4>2, <4>3, <4>4 DEF Pure
    <3>4. CASE Throws(t) # "defect"
      <4>1. z = SetDetailFailed(y, q, "render") /\ "render" \in Failures
        BY <1>6, <2>9, <2>17, <3>4 DEF Failures
      <4>2. y.snap[q.ws].detail = Projection(q)
        BY <1>2, <2>5, <2>11, <3>2
      <4>3. y.snap[q.ws].detail # None /\ y.snap[q.ws].detail.run = q.run
        BY <2>2, <3>2, <4>2
      <4>4. PICK u : /\ Client(u) /\ u.reqs = y.reqs /\ SameAddress(y, u) /\ SameSnap(y, u)
                     /\ u.list = y.list /\ u.detail = y.snap[q.ws].detail /\ u.detailWs = q.ws
                     /\ Passes(u, z) /\ Painted(z) /\ Relists(y, z)
        BY <1>2, <2>11, <4>1, <4>3, SetFailedPasses
      <4>5. Orderly(s, u)
        <5>1. SameAddress(v, u)
          BY <2>11, <4>4 DEF SameAddress
        <5> QED BY <2>11, <2>13, <3>2, <4>2, <4>4, <5>1
      <4>6. Orderly(s, z)
        BY <4>4, <4>5, OrderlyThen DEF Passes, Sheds
      <4>7. Relists(s, z) /\ Given(q, z)
        BY <2>18, <4>2, <4>4, RelistsTwice DEF Given, Passes, Sheds, Lasts
      <4> QED BY <4>4, <4>6, <4>7 DEF Passes
    <3> QED BY <3>3, <3>4
  <2> QED BY <2>15, <2>16, <2>17
<1> QED BY <1>5, <1>6

LEMMA SingleDetailAdvances ==
  ASSUME NEW s, Client(s), Net(s), Contents(s), Aimed(s), ~Set, NEW q, Alone(s, q), q.kind = "detail"
  PROVE  LET z == SingleDetailArrives(Without(s, q), q) IN
         /\ Client(z) /\ Orderly(s, z) /\ Relists(s, z) /\ Given(q, z)
         /\ Failed(z) \/ Painted(z) \/ Astray(z)
<1> DEFINE v == Without(s, q)
           confirmed == q.ans.run = q.run
           t == [v EXCEPT !.conflict = ~confirmed, !.detail = Projection(q),
                          !.detailId = IF confirmed THEN q.run ELSE None]
           y == RenderCurrent(t)
           z == SingleDetailArrives(v, q)
           out == q.ans.out
<1>0. SUFFICES /\ Client(z) /\ Orderly(s, z) /\ Relists(s, z) /\ Given(q, z)
               /\ Failed(z) \/ Painted(z) \/ Astray(z)
  OBVIOUS
<1>1. q \in s.reqs /\ q \in RequestRecord /\ RequestOK(q)
  BY DEF Alone, Client, Browser, Net
<1>2. q.run \in Runs /\ out \in Outcomes
  BY <1>1 DEF RequestOK, RequestRecord, AnswerRecord, Maybe, Alone
<1>3. /\ Client(v) /\ Net(v) /\ Sheds(s, v) /\ Carried(s, v) /\ v.reqs = s.reqs \ {q}
      /\ v.snap = s.snap /\ v.list = s.list /\ SameAddress(s, v) /\ Relists(s, v)
  <2>1. /\ Client(v) /\ Net(v) /\ Sheds(s, v) /\ Carried(s, v) /\ v.reqs = s.reqs \ {q} /\ v.waits = s.waits
    BY <1>1, TakenPasses
  <2> HIDE DEF v
  <2>2. Coming(s, v)
    BY <2>1 DEF Coming, Fetched, DeepWait
  <2> QED BY <2>1, <2>2 DEF Sheds, Lasts, Relists
<1> HIDE DEF v
<1>5. CASE out \in FetchFailures
  <2>1. z = RenderProjectionFailure(v, out) /\ out \in Failures
    BY <1>5 DEF SingleDetailArrives, Failures
  <2>2. Free(v)
    BY <1>3 DEF Alone, Free
  <2> HIDE DEF z, out
  <2>3. Passes(v, z) /\ Failed(z) /\ (v.hash.run # None /\ out # "render" => z.detail = None)
    BY <1>3, <2>1, <2>2, FailurePasses
  <2>4. Lasts(s, z) /\ Carried(s, z)
    BY <1>3, <2>3, ShedsTwice, CarriedTwice DEF Passes, Sheds
  <2>5. Relists(s, z)
    BY <1>3, <2>3, PassesRelists, RelistsTwice
  <2>6. Given(q, z)
    <3>1. out # "render"
      BY <1>5 DEF FetchFailures, Absences, Losses, out
    <3> QED BY <2>3, <3>1 DEF Given, Passes, Sheds, Lasts, SameAddress
  <2> QED BY <2>3, <2>4, <2>5, <2>6, OrderlyLasts DEF Passes
<1>6. CASE out \notin FetchFailures
  <2>1. Projection(q) \in DetailType
    BY <1>1, <1>6, ProjectionType DEF Alone
  <2>2. LET d == Projection(q) IN
        d # None /\ d.ws = q.ws /\ d.run = q.ans.run /\ d.body = q.ans.out
    BY <1>1, <1>6, ProjectionFacts DEF Alone
  <2>3. /\ Client(t) /\ SameRest(v, t) /\ SameNet(v, t) /\ t.list = v.list
        /\ t.detail = Projection(q) /\ t.snap = v.snap
    <3> HIDE DEF t
    <3>1. PICK f1 \in BOOLEAN, f2 \in DetailType, f3 \in Maybe(Runs) :
            f1 = ~confirmed /\ f2 = Projection(q) /\ f3 = (IF confirmed THEN q.run ELSE None)
      BY <1>2, <2>1 DEF Maybe
    <3>2. t = [v EXCEPT !.conflict = f1, !.detail = f2, !.detailId = f3]
      BY <3>1 DEF t
    <3>3. /\ Client(t) /\ SameRest(v, t) /\ SameNet(v, t) /\ t.list = v.list
          /\ t.detail = f2 /\ t.snap = v.snap
      <4> HIDE DEF confirmed
      <4> QED BY ZenonT(60), <1>3, <3>2 DEF Client, Browser, SameRest, SameNet
    <3> QED BY <3>1, <3>3
  <2>4. z = CASE out \in FetchFailures -> RenderProjectionFailure(v, out)
              [] out \notin FetchFailures /\ Throws(t) # None -> RenderError(y, Throws(t))
              [] out \notin FetchFailures /\ Throws(t) = None /\ confirmed -> y
              [] OTHER -> [y EXCEPT !.detail = None, !.conflict = FALSE]
    BY DEF SingleDetailArrives
  <2> HIDE DEF t
  <2>5. Pure(t, y) /\ (Throws(t) = None => Painted(y))
    BY <2>3, CurrentShown
  <2> HIDE DEF y, z
  <2>6. /\ Net(y) /\ Client(y) /\ y.reqs = v.reqs /\ SameAddress(v, y) /\ SameAddress(s, y)
        /\ y.list = s.list /\ y.snap = s.snap /\ y.detail = Projection(q) /\ y.waits = v.waits
    BY <1>3, <2>3, <2>5 DEF Pure, SameRest, SameNet, SameHeld, Net, Listed, SameAddress
  <2>12. Relists(s, y) /\ Given(q, y)
    <3>1. Relists(v, y)
      BY <1>3, <2>6, CarriedSome DEF Relists, Coming, Fetched, DeepWait
    <3> QED BY <1>3, <2>6, <3>1, RelistsTwice DEF Given
  <2>7. out # "other" => confirmed
    BY <1>1 DEF Contents, Honest, Alone
  <2>8. confirmed => Orderly(s, y)
    <3> SUFFICES ASSUME confirmed PROVE Orderly(s, y)
      OBVIOUS
    <3>1. Takes(s, q, y)
      BY <1>3, <2>6 DEF Takes, Alone
    <3>2. \A p \in s.reqs : p.kind \in {"detail", "runs"} => p = q
      BY DEF Alone
    <3> QED BY <1>6, <2>6, <3>1, <3>2, ProjectionStored
  <2>9. CASE Throws(t) = None /\ confirmed
    <3>1. z = y
      BY <1>6, <2>4, <2>9
    <3> QED BY <2>5, <2>6, <2>8, <2>9, <2>12, <3>1
  <2>10. CASE Throws(t) = None /\ ~confirmed
    <3>1. z = [y EXCEPT !.detail = None, !.conflict = FALSE]
      BY <1>6, <2>4, <2>10
    <3>2. /\ Client(z) /\ z.hash = y.hash /\ z.pending = y.pending /\ z.base = y.base
          /\ z.snap = y.snap /\ z.list = y.list /\ z.detail = None /\ z.reqs = y.reqs /\ SameScreen(y, z)
          /\ z.waits = y.waits
      <4>1. None \in DetailType
        BY DEF DetailType, Maybe
      <4> QED BY <2>6, <3>1, <4>1 DEF Client, Browser, SameScreen
    <3>3. Lasts(s, z) /\ Carried(s, z)
      BY <1>3, <2>6, <3>2, CarriedSome DEF Lasts, SameAddress, SameSnap
    <3>4. Painted(y)
      BY <2>5, <2>10
    <3>5. Moved(y) \/ (Deep(y.hash) /\ y.hash.run = q.run)
      BY <1>1, <2>6 DEF Aimed, Alone, SameAddress, Moved, Subject
    <3>6. Moved(y) \/ Failed(y)
      BY <2>2, <2>6, <2>10, <3>4, <3>5, UnconfirmedShown
    <3>7. Failed(z) \/ Astray(z)
      <4>1. Legible(z) /\ InHand(z)
        BY <3>2, <3>4, PaintedInHand DEF SameScreen, Legible, InHand
      <4> QED BY <3>2, <3>4, <3>6, <4>1 DEF Moved, Failed, Pictured, RecordIs, SameScreen, Painted, Astray
    <3>8. Relists(s, z) /\ Given(q, z)
      <4>1. Relists(y, z)
        BY <3>2, CarriedSome DEF Relists, Coming, Fetched, DeepWait
      <4> QED BY <2>12, <3>2, <4>1, RelistsTwice DEF Given
    <3> QED BY <3>2, <3>3, <3>7, <3>8, OrderlyLasts
  <2>11. CASE Throws(t) # None
    <3>1. t.detail.body \in {"hostile", "defect"} /\ Throws(t) = t.detail.body
      BY <2>11, ThrowsFacts
    <3>2. confirmed
      BY <2>2, <2>3, <2>7, <3>1
    <3>3. z = RenderError(y, Throws(t))
      BY <1>6, <2>4, <2>11
    <3>4. Passes(y, z) /\ Failed(z)
      BY <2>6, <3>3, ErrorPasses
    <3>5. Orderly(s, z)
      BY <2>6, <2>8, <3>2, <3>4, OrderlyThen DEF Passes, Sheds
    <3>6. Relists(s, z) /\ Given(q, z)
      <4>1. Relists(y, z)
        BY <3>4, PassesRelists
      <4> QED BY <2>6, <2>12, <3>4, <4>1, RelistsTwice DEF Given, Passes, Sheds, Lasts
    <3> QED BY <3>4, <3>5, <3>6 DEF Passes
  <2> QED BY <2>9, <2>10, <2>11
<1> QED BY <1>5, <1>6

LEMMA RunsAdvances ==
  ASSUME NEW s, Client(s), Net(s), Contents(s), NEW q, Alone(s, q), q.kind = "runs"
  PROVE  LET z == RunsArrives(Without(s, q), q) IN
         Client(z) /\ Orderly(s, z) /\ (Failed(z) \/ Painted(z))
<1> DEFINE v == Without(s, q)
           t == [v EXCEPT !.list = q.ans.ver, !.detail = None, !.detailId = None, !.conflict = FALSE]
           z == RunsArrives(v, q)
           out == q.ans.out
<1>0. SUFFICES Client(z) /\ Orderly(s, z) /\ (Failed(z) \/ Painted(z))
  OBVIOUS
<1>1. q \in s.reqs /\ q \in RequestRecord /\ RequestOK(q) /\ ~Set
  BY DEF Alone, Client, Browser, Net, RequestOK
<1>2. q.ans.ver \in VerOrNone /\ out \in Outcomes
  BY <1>1 DEF RequestRecord, AnswerRecord, Maybe, Alone, VerOrNone
<1>3. /\ Client(v) /\ Net(v) /\ Sheds(s, v) /\ Carried(s, v) /\ v.reqs = s.reqs \ {q}
      /\ v.snap = s.snap /\ SameAddress(s, v)
  BY <1>1, TakenPasses DEF Sheds, Lasts
<1> HIDE DEF v
<1>4. CASE out \in FetchFailures
  <2>1. z = RenderProjectionFailure(v, out) /\ out \in Failures
    BY <1>4 DEF RunsArrives, Failures
  <2>2. Free(v)
    BY <1>3 DEF Alone, Free
  <2> HIDE DEF z, out
  <2>3. Passes(v, z) /\ Failed(z)
    BY <1>3, <2>1, <2>2, FailurePasses
  <2>4. Lasts(s, z) /\ Carried(s, z)
    BY <1>3, <2>3, ShedsTwice, CarriedTwice DEF Passes, Sheds
  <2> QED BY <2>3, <2>4, OrderlyLasts DEF Passes
<1>5. CASE out \notin FetchFailures
  <2>1. z = RenderCurrentGuarded(t)
    BY <1>5 DEF RunsArrives
  <2>2. /\ Client(t) /\ t.hash = v.hash /\ t.pending = v.pending /\ t.base = v.base
        /\ t.reqs = v.reqs /\ t.waits = v.waits /\ t.snap = v.snap /\ t.list = q.ans.ver /\ t.detail = None
    <3>1. None \in DetailType /\ None \in Maybe(Runs)
      BY DEF DetailType, Maybe
    <3> QED BY <1>2, <1>3, <3>1 DEF Client, Browser
  <2> HIDE DEF t, z
  <2>3. Net(t) /\ Takes(s, q, t)
    BY <1>3, <2>2 DEF Net, Listed, Takes, Alone, SameAddress
  <2>4. Orderly(s, t)
    <3>1. \A p \in s.reqs : p.kind = q.kind \/ p.kind = "detail" => p = q
      BY DEF Alone
    <3>2. t.snap = s.snap /\ t.list = q.ans.ver /\ t.detail = None
      BY <1>3, <2>2
    <3> QED BY <1>1, <1>5, <2>3, <3>1, <3>2, RowsStored
  <2>5. Passes(t, z) /\ Painted(z)
    BY <2>1, <2>2, <2>3, GuardedPasses
  <2> QED BY <2>2, <2>4, <2>5, OrderlyThen DEF Passes, Sheds
<1> QED BY <1>4, <1>5

\* The inventory of single mode comes for a dead end.
LEMMA ResolveAdvances ==
  ASSUME NEW s, Client(s), Net(s), Contents(s), Light(s), NEW q \in s.reqs, q.ans # None,
         q.kind = "resolve"
  PROVE  LET z == Arrives(s, q) IN
         Client(z) /\ Orderly(s, z) /\ Redraws(s, z)
<1> DEFINE v == Without(s, q)
           stored == q.fresh /\ q.ans.out = "ok"
           t == IF stored THEN [v EXCEPT !.list = q.ans.ver] ELSE v
           z == Arrives(s, q)
<1>0. SUFFICES Client(z) /\ Orderly(s, z) /\ Redraws(s, z)
  OBVIOUS
<1>1. q \in RequestRecord /\ q.ans.ver \in VerOrNone
  BY DEF Client, Browser, RequestRecord, AnswerRecord, Maybe, VerOrNone
<1>2. z = Resolved(t, q.run)
  BY DEF Arrives, Without
<1>3. /\ Client(v) /\ Net(v) /\ Sheds(s, v) /\ Carried(s, v) /\ SameScreen(s, v) /\ SameHeld(s, v)
      /\ v.reqs = s.reqs \ {q} /\ v.resBusy = s.resBusy
      /\ v.snap = s.snap /\ SameAddress(s, v)
  BY TakenPasses DEF Sheds, Lasts
<1> HIDE DEF v, z
<1>4. /\ Client(t) /\ Net(t) /\ SameScreen(s, t) /\ t.resBusy = s.resBusy /\ t.reqs = v.reqs
      /\ SameAddress(s, t) /\ t.snap = s.snap /\ t.detail = s.detail /\ t.detailWs = s.detailWs
      /\ stored => t.list = q.ans.ver
  <2>1. CASE stored
    <3>1. /\ Client(t) /\ t.painted = v.painted /\ t.lastPaint = v.lastPaint /\ t.resBusy = v.resBusy
          /\ t.reqs = v.reqs /\ t.waits = v.waits /\ t.hash = v.hash /\ t.pending = v.pending
          /\ t.base = v.base /\ t.snap = v.snap /\ t.detail = v.detail /\ t.detailWs = v.detailWs
          /\ t.list = q.ans.ver
      BY <1>1, <1>3, <2>1 DEF Client, Browser
    <3> HIDE DEF t
    <3> QED BY <1>3, <3>1 DEF SameScreen, SameAddress, SameHeld, Net, Listed
  <2>2. CASE ~stored
    BY <1>3, <2>2 DEF SameHeld
  <2> QED BY <2>1, <2>2
<1>10. t.list = s.list \/ (~Set /\ q.fresh /\ t.list # None)
  <2>1. CASE stored
    <3>1. q.ans.ver \in Versions
      BY DEF Client, Browser, RequestRecord, AnswerRecord, Maybe
    <3> HIDE DEF t
    <3> QED BY <1>4, <2>1, <3>1, VersionsAreNat DEF Contents, Proper
  <2>2. CASE ~stored
    BY <1>3, <2>2 DEF SameHeld
  <2> QED BY <2>1, <2>2
<1>5. Orderly(s, t)
  <2>1. CASE stored
    <3>1. ~Set /\ \A p \in s.reqs : p.kind \notin {"detail", "runs"}
      BY <2>1 DEF Contents, Proper
    <3>2. \A p \in s.reqs : p.kind = "resolve" => p = q
      BY DEF Light, ResolveAsked
    <3>3. Takes(s, q, t)
      BY <1>3, <1>4, <2>1 DEF Takes
    <3>4. q.ans.out \notin FetchFailures
      BY <2>1 DEF FetchFailures, Absences, Losses
    <3> HIDE DEF t
    <3> QED BY <1>4, <2>1, <3>1, <3>2, <3>3, <3>4, RowsStored
  <2>2. CASE ~stored
    BY <1>3, <2>2, OrderlyLasts DEF Sheds
  <2> QED BY <2>1, <2>2
<1> HIDE DEF t
<1>6. Free(t)
  <2>1. q \in ResolveAsked(s)
    BY DEF ResolveAsked
  <2> QED BY <1>4, <2>1 DEF Light, Free
<1>7. Passes(t, z) /\ ((SameScreen(t, z) /\ SameHeld(t, z)) \/ Failed(z))
  BY <1>2, <1>4, <1>6, ResolvedPasses
<1>8. Orderly(s, z)
  BY <1>4, <1>5, <1>7, OrderlyThen DEF Passes, Sheds
<1>9. Redraws(s, z)
  <2>1. CASE Failed(z)
    BY <2>1 DEF Redraws
  <2>2. CASE SameScreen(t, z) /\ SameHeld(t, z)
    <3>1. SameScreen(s, z) /\ z.detail = s.detail /\ z.list = t.list
      BY <1>4, <2>2 DEF SameScreen, SameHeld
    <3>2. t.list = s.list \/ (Inquiring(s) /\ t.list # None)
      BY <1>10 DEF Inquiring
    <3> QED BY <3>1, <3>2 DEF Redraws, Retains
  <2> QED BY <1>7, <2>1, <2>2
<1> QED BY <1>7, <1>8, <1>9 DEF Passes

-----------------------------------------------------------------------------
(***************************************************************************)
(* Lists.                                                                  *)
(***************************************************************************)
\* What the answer q of a list leaves held of each source.
Stored(s, q, t) ==
    /\ t.detail \in {None, s.detail}
    /\ \A w \in Workspaces :
         /\ t.snap[w].detail = s.snap[w].detail /\ t.snap[w].detailErr = s.snap[w].detailErr
         /\ t.snap[w].list = IF q.fresh /\ w = q.ws /\ q.ans.out = "ok" THEN q.ans.ver ELSE s.snap[w].list
         /\ t.snap[w].listErr <=> IF q.fresh /\ w = q.ws THEN q.ans.out # "ok" ELSE s.snap[w].listErr

\* It is a list of what the address shows.
Listing(s, q) == s.hash.view = "workspaces" \/ (s.hash.view = "runs" /\ s.hash.ws = q.ws)

\* The answer q of a list paints what it brings, where the address shows it.
Repaints(s, q, t) ==
    \/ SameScreen(s, t) /\ t.detail = s.detail /\ t.list = s.list /\ ~(q.fresh /\ Listing(s, q))
    \/ Failed(t)
    \/ Painted(t) /\ ~Unread(t)

\* A list that is committed, with what it repaints.
LEMMA CommittedAdvances ==
  ASSUME NEW s, Client(s), Net(s), Contents(s), NEW q \in s.reqs, q.ans # None, q.kind = "list"
  PROVE  LET t == ListCommitted(Without(s, q), q) IN
         Client(t) /\ Orderly(s, t) /\ Redraws(s, t) /\ Stored(s, q, t) /\ Repaints(s, q, t)
<1> DEFINE p == Without(s, q)
           good == [p EXCEPT !.snap[q.ws].list = q.ans.ver, !.snap[q.ws].listErr = FALSE]
           bad == [p EXCEPT !.snap[q.ws].listErr = TRUE]
           z == ListCommitted(p, q)
<1>0. SUFFICES Client(z) /\ Orderly(s, z) /\ Redraws(s, z) /\ Stored(s, q, z) /\ Repaints(s, q, z)
  OBVIOUS
<1>1. q \in RequestRecord /\ RequestOK(q) /\ Set /\ q.ws \in Workspaces
  BY DEF Client, Browser, Net, RequestOK
<1>2. q.ans.ver \in Versions /\ q.ans.ver \in VerOrNone /\ q.ans.out \in {"ok", "failed"}
  BY <1>1 DEF RequestRecord, AnswerRecord, Maybe, RequestOK, VerOrNone
<1>3. /\ Client(p) /\ Sheds(s, p) /\ Carried(s, p) /\ SameScreen(s, p) /\ SameHeld(s, p)
      /\ p.reqs = s.reqs \ {q} /\ SameAddress(s, p)
  BY TakenPasses DEF Sheds, Lasts
<1>4. CASE ~q.fresh
  <2>1. z = p
    BY <1>4 DEF ListCommitted
  <2> HIDE DEF p, z
  <2>2. Orderly(s, z) /\ Redraws(s, z)
    BY <1>3, <2>1, OrderlyLasts, LastsRetains DEF Redraws, Sheds
  <2>3. Stored(s, q, z) /\ Repaints(s, q, z)
    BY <1>3, <1>4, <2>1 DEF Stored, Repaints, SameHeld
  <2> QED BY <1>3, <2>1, <2>2, <2>3
<1>5. CASE q.fresh
  <2> DEFINE t == IF q.ans.out = "ok" THEN good ELSE bad
             held == t.snap[q.ws].list
             w == [t EXCEPT !.list = held]
  <2>1. z = ListPainted(t, q)
    BY <1>5 DEF ListCommitted
  <2> HIDE DEF z
  <2>2. /\ Client(t) /\ t.hash = p.hash /\ t.pending = p.pending /\ t.base = p.base
        /\ t.reqs = p.reqs /\ t.list = p.list /\ t.detail = p.detail /\ t.detailWs = p.detailWs
        /\ t.painted = p.painted /\ t.lastPaint = p.lastPaint
        /\ \A y \in Workspaces :
             /\ t.snap[y].detail = p.snap[y].detail
             /\ t.snap[y].list = IF y = q.ws /\ q.ans.out = "ok" THEN q.ans.ver ELSE p.snap[y].list
             /\ t.snap[y].listErr <=> IF y = q.ws THEN q.ans.out # "ok" ELSE p.snap[y].listErr
             /\ t.snap[y].detailErr = p.snap[y].detailErr
    <3> HIDE DEF p
    <3>1. p.snap \in [Workspaces -> SnapRecord]
      BY <1>3 DEF Client, Browser
    <3>2. CASE q.ans.out = "ok"
      <4>1. PICK f : f = [[p.snap EXCEPT ![q.ws].list = q.ans.ver] EXCEPT ![q.ws].listErr = FALSE]
        OBVIOUS
      <4>2. PICK g : g = [p.snap EXCEPT ![q.ws].list = q.ans.ver]
        OBVIOUS
      <4>3. /\ g \in [Workspaces -> SnapRecord]
            /\ \A y \in Workspaces : g[y].detail = p.snap[y].detail
            /\ \A y \in Workspaces : g[y].list = IF y = q.ws THEN q.ans.ver ELSE p.snap[y].list
            /\ \A y \in Workspaces : g[y].listErr = p.snap[y].listErr /\ g[y].detailErr = p.snap[y].detailErr
        BY <1>1, <1>2, <3>1, <4>2 DEF SnapRecord
      <4>4. /\ f \in [Workspaces -> SnapRecord]
            /\ \A y \in Workspaces : f[y].detail = g[y].detail /\ f[y].list = g[y].list
            /\ \A y \in Workspaces :
                 (f[y].listErr <=> (y # q.ws /\ g[y].listErr)) /\ f[y].detailErr = g[y].detailErr
        <5>1. f = [g EXCEPT ![q.ws].listErr = FALSE]
          BY <4>1, <4>2
        <5>2. f \in [Workspaces -> SnapRecord]
          BY <1>1, <4>3, <5>1 DEF SnapRecord
        <5>3. ASSUME NEW y \in Workspaces
              PROVE  /\ f[y].detail = g[y].detail /\ f[y].list = g[y].list /\ f[y].detailErr = g[y].detailErr
                     /\ f[y].listErr <=> (y # q.ws /\ g[y].listErr)
          <6>1. CASE y = q.ws
            BY <1>1, <4>3, <5>1, <6>1 DEF SnapRecord
          <6>2. CASE y # q.ws
            BY <1>1, <4>3, <5>1, <6>2 DEF SnapRecord
          <6> QED BY <6>1, <6>2
        <5> QED BY <5>2, <5>3
      <4>5. PICK r : r = [p EXCEPT !.snap[q.ws].list = q.ans.ver]
        OBVIOUS
      <4>6. /\ r \in Browser /\ r.snap = g /\ r.hash = p.hash /\ r.pending = p.pending /\ r.base = p.base
            /\ r.reqs = p.reqs /\ r.list = p.list /\ r.detail = p.detail /\ r.detailWs = p.detailWs
            /\ r.painted = p.painted /\ r.lastPaint = p.lastPaint
        BY <1>3, <4>2, <4>3, <4>5 DEF Client, Browser
      <4>7. t = [r EXCEPT !.snap[q.ws].listErr = FALSE]
        BY <3>2, <4>5
      <4>8. f = [r.snap EXCEPT ![q.ws].listErr = FALSE]
        BY <4>1, <4>2, <4>6
      <4>9. t = [r EXCEPT !.snap = f]
        BY <4>6, <4>7, <4>8 DEF Browser
      <4> HIDE DEF t
      <4>10. /\ t \in Browser /\ t.snap = f /\ t.hash = p.hash /\ t.pending = p.pending /\ t.base = p.base
             /\ t.reqs = p.reqs /\ t.list = p.list /\ t.detail = p.detail /\ t.detailWs = p.detailWs
             /\ t.painted = p.painted /\ t.lastPaint = p.lastPaint
        BY <4>4, <4>6, <4>9 DEF Browser
      <4>11. ASSUME NEW y \in Workspaces
             PROVE  /\ f[y].detail = p.snap[y].detail /\ f[y].detailErr = p.snap[y].detailErr
                    /\ f[y].list = IF y = q.ws /\ q.ans.out = "ok" THEN q.ans.ver ELSE p.snap[y].list
                    /\ f[y].listErr <=> IF y = q.ws THEN q.ans.out # "ok" ELSE p.snap[y].listErr
        BY <3>2, <4>3, <4>4
      <4> QED BY <1>3, <4>10, <4>11 DEF Client
    <3>3. CASE q.ans.out # "ok"
      <4>1. PICK f : f = [p.snap EXCEPT ![q.ws].listErr = TRUE]
        OBVIOUS
      <4>2. /\ f \in [Workspaces -> SnapRecord]
            /\ \A y \in Workspaces : f[y].detail = p.snap[y].detail /\ f[y].list = p.snap[y].list
            /\ \A y \in Workspaces :
                 (f[y].listErr <=> (y = q.ws \/ p.snap[y].listErr)) /\ f[y].detailErr = p.snap[y].detailErr
        BY <1>1, <3>1, <4>1 DEF SnapRecord
      <4>3. t = [p EXCEPT !.snap = f]
        BY <1>3, <3>3, <4>1 DEF Client, Browser
      <4> HIDE DEF t
      <4> QED BY <1>3, <3>3, <4>2, <4>3 DEF Client, Browser
    <3> QED BY <3>2, <3>3
  <2> HIDE DEF p, t
  <2>3. /\ SameScreen(s, t) /\ t.reqs = s.reqs \ {q} /\ SameAddress(s, t) /\ Takes(s, q, t)
        /\ t.detail = s.detail /\ t.detailWs = s.detailWs /\ t.list = s.list
        /\ \A y \in Workspaces :
             /\ t.snap[y].detail = s.snap[y].detail
             /\ t.snap[y].list = IF y = q.ws /\ q.ans.out = "ok" THEN q.ans.ver ELSE s.snap[y].list
    BY <1>3, <1>5, <2>2 DEF SameScreen, SameAddress, SameHeld, Takes
  <2>12. ASSUME NEW y, y.snap = t.snap, y.detail \in {None, t.detail} PROVE Stored(s, q, y)
    BY <1>3, <1>5, <2>2, <2>3, <2>12 DEF Stored, SameHeld
  <2>4. held = IF q.ans.out = "ok" THEN q.ans.ver ELSE s.snap[q.ws].list
    BY <1>1, <2>3
  <2>5. held \in VerOrNone
    BY <1>1, <2>2 DEF Client, Browser, SnapRecord
  <2> HIDE DEF held
  <2>6. t.hash.view \in {"workspaces", "runs"} => t.hash.run = None
    BY <2>2, ClientAssumption DEF Client, AddressFits, WellFormed
  <2>7. ASSUME ~(s.hash.view = "runs" /\ s.hash.ws = q.ws) \/ held = None
        PROVE  Orderly(s, t)
    <3>1. t.snap[q.ws].list = held
      BY DEF held
    <3> QED BY <1>1, <2>3, <2>7, <3>1, ListStored
  <2>8. CASE t.hash.view = "workspaces"
    <3>1. z = RenderWorkspaceOverview(t)
      BY <2>1, <2>8 DEF ListPainted
    <3>2. Orderly(s, t)
      BY <2>3, <2>7, <2>8 DEF SameAddress
    <3>3. Pure(t, z) /\ Pictured(z) /\ (Fits(z) => Truthful(z))
      BY <1>1, <2>2, <3>1, OverviewShown
    <3>4. Fits(z)
      BY <2>2, <2>8, <3>1, OverviewPainted
    <3>5. Painted(z) /\ Client(z)
      BY <3>3, <3>4 DEF Painted, Pure
    <3>6. Orderly(s, z)
      BY <2>2, <3>2, <3>3, PureSheds, OrderlyThen DEF Sheds
    <3>7. Stored(s, q, z)
      BY <2>12, <3>3 DEF Pure, SameHeld
    <3>8. ~Unread(z)
      BY <2>8, <3>3 DEF Pure, SameRest, Unread
    <3> QED BY <3>5, <3>6, <3>7, <3>8 DEF Redraws, Repaints
  <2>9. CASE t.hash.view = "runs" /\ t.hash.ws = q.ws /\ held # None
    <3>1. z = RenderCurrentGuarded(w)
      BY <2>1, <2>9 DEF ListPainted, held
    <3>2. /\ Client(w) /\ w.hash = t.hash /\ w.pending = t.pending /\ w.base = t.base /\ w.reqs = t.reqs
          /\ w.snap = t.snap /\ w.detail = t.detail /\ w.detailWs = t.detailWs /\ w.list = held
      BY <2>2, <2>5 DEF Client, Browser
    <3> HIDE DEF w
    <3>3. Orderly(s, w)
      <4>1. /\ Takes(s, q, w) /\ w.detail = s.detail /\ w.detailWs = s.detailWs
            /\ \A y \in Workspaces :
                 /\ w.snap[y].detail = s.snap[y].detail
                 /\ w.snap[y].list = IF y = q.ws /\ q.ans.out = "ok" THEN q.ans.ver ELSE s.snap[y].list
            /\ s.hash.view = "runs" /\ s.hash.ws = q.ws
        BY <2>3, <2>9, <3>2 DEF Takes, SameAddress
      <4>2. w.list = w.snap[q.ws].list
        BY <3>2 DEF held
      <4> QED BY <1>1, <4>1, <4>2, ListStored
    <3>4. Passes(w, z) /\ Painted(z)
      BY <2>6, <2>9, <3>1, <3>2, GuardedPasses
    <3>5. Client(z) /\ Orderly(s, z)
      BY <3>2, <3>3, <3>4, OrderlyThen DEF Passes, Sheds
    <3>6. Stored(s, q, z)
      BY <2>12, <3>2, <3>4 DEF Passes, Sheds, Lasts
    <3>7. ~Unread(z)
      BY <2>9, <3>2, <3>4 DEF Passes, Sheds, Lasts, Unread
    <3> QED BY <3>4, <3>5, <3>6, <3>7 DEF Redraws, Repaints
  <2>10. CASE t.hash.view = "runs" /\ t.hash.ws = q.ws /\ held = None
    <3>1. q.ans.out = "failed"
      BY <1>2, <2>4, <2>10, ClientAssumption DEF Versions
    <3>2. z = RenderProjectionFailure(t, "failed")
      BY <2>1, <2>10, <3>1 DEF ListPainted, held
    <3>3. PICK out \in Failures : out = "failed"
      BY DEF Failures, FetchFailures
    <3>4. Orderly(s, t)
      BY <2>7, <2>10
    <3>5. Passes(t, z) /\ Failed(z)
      BY <2>2, <2>6, <2>10, <3>2, <3>3, FailurePasses
    <3>6. Client(z) /\ Orderly(s, z)
      BY <2>2, <3>4, <3>5, OrderlyThen DEF Passes, Sheds
    <3>7. Stored(s, q, z)
      BY <2>12, <3>5 DEF Passes, Sheds, Lasts
    <3> QED BY <3>5, <3>6, <3>7 DEF Redraws, Repaints
  <2>11. CASE ~(t.hash.view = "workspaces") /\ ~(t.hash.view = "runs" /\ t.hash.ws = q.ws)
    <3>1. z = t
      BY <2>1, <2>11 DEF ListPainted
    <3>2. Orderly(s, t)
      BY <2>3, <2>7, <2>11 DEF SameAddress
    <3>3. Stored(s, q, z)
      BY <2>12, <3>1
    <3>4. ~Listing(s, q)
      BY <2>3, <2>11 DEF Listing, SameAddress
    <3>5. Retains(s, z)
      BY <1>1, <2>2, <2>3, <3>1 DEF Retains
    <3> QED BY <2>2, <2>3, <3>1, <3>2, <3>3, <3>4, <3>5 DEF Redraws, Repaints
  <2> QED BY <2>8, <2>9, <2>10, <2>11
<1> QED BY <1>4, <1>5

\* A cause that shares the refresh in flight, or starts one.
LEMMA SingleFlightPasses ==
  ASSUME NEW s, Client(s), Net(s), mode \in Modes
  PROVE  LET t == RefreshSingleFlight(s) IN
         /\ Passes(s, t)
         /\ SameScreen(s, t) \/ (Failed(t) /\ Fits(t))
         /\ Painted(s) => Painted(t)
         /\ IF s.flight THEN t.again = TRUE ELSE Renewed(s, t)
<1> DEFINE t == RefreshSingleFlight(s)
<1>0. SUFFICES /\ Passes(s, t)
               /\ SameScreen(s, t) \/ (Failed(t) /\ Fits(t))
               /\ Painted(s) => Painted(t)
               /\ IF s.flight THEN t.again = TRUE ELSE Renewed(s, t)
  OBVIOUS
<1>1. CASE s.flight
  <2>1. t = [s EXCEPT !.again = TRUE]
    BY <1>1 DEF RefreshSingleFlight
  <2>2. /\ Client(t) /\ SameScreen(s, t) /\ SameHeld(s, t) /\ t.reqs = s.reqs /\ t.waits = s.waits
        /\ t.hash = s.hash /\ t.pending = s.pending /\ t.base = s.base /\ t.again = TRUE
    BY ZenonT(60), <2>1 DEF Client, Browser, SameScreen, SameHeld
  <2> HIDE DEF t
  <2>3. Sheds(s, t)
    BY <2>2 DEF Sheds, Lasts, SameAddress, SameSnap, SameHeld
  <2>4. Passes(s, t)
    BY <2>2, <2>3, ReqsPass
  <2>5. Painted(s) => Painted(t)
    BY <2>2, <2>3, PaintedKept DEF SameHeld
  <2> QED BY <1>1, <2>2, <2>4, <2>5
<1>2. CASE ~s.flight
  <2>1. t = Refresh(s)
    BY <1>2 DEF RefreshSingleFlight
  <2>2. /\ Client(t) /\ Sheds(s, t) /\ Carried(s, t) /\ Coming(s, t) /\ Renewed(s, t)
        /\ t.detail = s.detail \/ (s.hash.view = "runs" /\ ~Set)
        /\ s.hash.view # "invalid" => SameScreen(s, t)
        /\ s.hash.view = "invalid" => Failed(t) /\ Fits(t)
    BY <2>1, RefreshPasses
  <2> HIDE DEF t
  <2>3. ASSUME Painted(s) PROVE Painted(t)
    <3>1. CASE s.hash.view # "invalid"
      <4>1. s.hash.view = "runs" => s.painted.kind # "run"
        BY <2>3 DEF Painted, Fits, KindsAt, Deep
      <4> QED BY <2>2, <2>3, <3>1, <4>1, PaintedKept
    <3>2. CASE s.hash.view = "invalid"
      BY <2>2, <3>2, FailedTruthful
    <3> QED BY <3>1, <3>2
  <2> QED BY <1>2, <2>2, <2>3 DEF Passes
<1> QED BY <1>1, <1>2


\* What follows a step that is in order, and repaints at most a failure.
LEMMA AdvancesThen ==
  ASSUME NEW s, NEW u, Client(u), Orderly(s, u), Redraws(s, u), NEW z, Passes(u, z),
         (SameScreen(u, z) /\ (Painted(u) => Painted(z))) \/ Failed(z)
  PROVE  Orderly(s, z) /\ Redraws(s, z)
BY OrderlyThen, RedrawsThen DEF Passes, Sheds

\* The callback that waited for the last of its lists.
LEMMA ReleasedAdvances ==
  ASSUME NEW s, NEW u, Client(u), Net(u), Set, Orderly(s, u), Redraws(s, u), mode \in Modes,
         NEW x \in WaitRecord, x.then = "overview" /\ x.fresh => u.hash.view = "workspaces" \/ Moved(u)
  PROVE  Orderly(s, Released(u, x)) /\ Redraws(s, Released(u, x))
<1> DEFINE z == Released(u, x)
<1>0. SUFFICES Orderly(s, z) /\ Redraws(s, z)
  OBVIOUS
<1>1. x.then \in {"land", "overview", "deep", "resolve", "nothing"}
  BY DEF WaitRecord
<1>2. CASE x.then = "land" \/ (x.then = "overview" /\ ~x.fresh)
  <2>1. z = Landed(u)
    BY <1>2 DEF Released
  <2>2. /\ Passes(u, z)
        /\ SameScreen(u, z) \/ (Failed(z) /\ Fits(z))
        /\ Painted(u) => Painted(z)
    BY <2>1, LandedPasses
  <2> HIDE DEF z
  <2> QED BY <2>2, AdvancesThen
<1>3. CASE x.then = "overview" /\ x.fresh
  <2> DEFINE y == RenderWorkspaceOverview(u)
  <2>1. z = Landed(y)
    BY <1>3 DEF Released
  <2>2. /\ Pure(u, y) /\ Pictured(y) /\ y.painted.kind = "overview"
        /\ (Fits(y) => Truthful(y)) /\ (u.hash.view = "workspaces" => Fits(y))
    BY OverviewShown, OverviewPainted
  <2> HIDE DEF y, z
  <2>3. Client(y) /\ Net(y) /\ (Moved(y) <=> Moved(u))
    BY <2>2 DEF Pure, SameNet, SameRest, Net, Listed, Moved
  <2>4. Orderly(s, y)
    BY <2>2, PureSheds, OrderlyThen DEF Sheds
  <2>7. y.painted.kind = "overview" => Legible(y) /\ InHand(y)
    BY DEF Legible, InHand
  <2>5. Redraws(s, y)
    BY <1>3, <2>2, <2>3, <2>7 DEF Redraws, Painted, Astray
  <2>6. /\ Passes(y, z)
        /\ SameScreen(y, z) \/ (Failed(z) /\ Fits(z))
        /\ Painted(y) => Painted(z)
    BY <2>1, <2>3, LandedPasses
  <2> QED BY <2>3, <2>4, <2>5, <2>6, AdvancesThen
<1>4. CASE x.then = "deep"
  <2>1. z = RefreshSingleFlight(u)
    BY <1>4 DEF Released
  <2>2. /\ Passes(u, z)
        /\ SameScreen(u, z) \/ (Failed(z) /\ Fits(z))
        /\ Painted(u) => Painted(z)
    BY <2>1, SingleFlightPasses
  <2> HIDE DEF z
  <2> QED BY <2>2, AdvancesThen
<1>5. CASE x.then = "resolve"
  <2>1. z = Resolved(u, x.run)
    BY <1>5 DEF Released
  <2>2. Passes(u, z) /\ ((SameScreen(u, z) /\ SameHeld(u, z)) \/ Failed(z))
    BY <2>1, ResolvedPasses DEF Free
  <2> HIDE DEF z
  <2>3. SameScreen(u, z) /\ SameHeld(u, z) => (Painted(u) => Painted(z))
    BY <2>2, PaintedKept DEF Passes, SameHeld
  <2> QED BY <2>2, <2>3, AdvancesThen
<1>6. CASE x.then = "nothing"
  BY <1>6 DEF Released
<1> QED BY <1>1, <1>2, <1>3, <1>4, <1>5, <1>6

LEMMA ListAdvances ==
  ASSUME NEW s, BrowserInv(s), Contents(s), NEW q \in s.reqs, q.ans # None, q.kind = "list",
         mode \in Modes
  PROVE  LET z == Arrives(s, q) IN Orderly(s, z) /\ Redraws(s, z)
<1> DEFINE p == Without(s, q)
           one == <<q.ws, q.id>>
           t == ListCommitted(p, q)
           last == LastWaits(t, one)
           u == Unwaited(t, one)
           z == Arrives(s, q)
<1>0. SUFFICES Orderly(s, z) /\ Redraws(s, z)
  OBVIOUS
<1>1. Client(s) /\ Net(s) /\ q \in RequestRecord /\ RequestOK(q) /\ Set
  BY DEF BrowserInv, Client, Browser, Net, RequestOK
<1>2. q.ws \in Workspaces /\ q.ans.ver \in Versions /\ q.ans.out \in {"ok", "failed"}
  BY <1>1 DEF RequestOK, RequestRecord, AnswerRecord, Maybe
<1>3. Client(p)
  BY <1>1, TakenFacts
<1>4. z = IF last = {} THEN u ELSE Released(u, CHOOSE x \in last : TRUE)
  BY DEF Arrives, ListArrives, Without, LastWaits, Unwaited
<1>5. Committed(Without(s, q), q, t)
  <2> HIDE DEF p
  <2>1. Committed(p, q, ListCommitted(p, q))
    BY <1>2, <1>3, CommittedFacts
  <2> QED BY <2>1 DEF p
<1>6. Client(t) /\ Orderly(s, t) /\ Redraws(s, t)
  BY <1>1, CommittedAdvances
<1> HIDE DEF p, t, z
<1>7. Taken(s, u, last)
  BY <1>5, ListTaken
<1>8. Client(u) /\ Net(u)
  BY <1>7 DEF Taken
<1>9. /\ u.reqs = t.reqs /\ SameScreen(t, u) /\ SameHeld(t, u)
      /\ u.hash = t.hash /\ u.pending = t.pending /\ u.base = t.base
  BY <1>6 DEF Unwaited, SameScreen, SameHeld, Client, Browser
<1> HIDE DEF u
<1>10. Sheds(t, u) /\ Carried(t, u)
  BY <1>9, CarriedSome DEF Sheds, Lasts, SameAddress, SameSnap, SameHeld
<1>11. Orderly(s, u)
  BY <1>6, <1>10, OrderlyThen DEF Sheds
<1>12. Redraws(s, u)
  <2>1. Painted(t) => Painted(u)
    BY <1>6, <1>9, <1>10, PaintedKept DEF SameHeld
  <2> QED BY <1>6, <1>9, <1>10, <2>1, RedrawsThen
<1>13. CASE last = {}
  BY <1>4, <1>11, <1>12, <1>13
<1>14. CASE last # {}
  <2>1. PICK x : x = CHOOSE y \in last : TRUE
    OBVIOUS
  <2>2. x \in last /\ x \in s.waits /\ x \in WaitRecord
    BY <1>1, <1>7, <1>14, <2>1 DEF Taken, Client, Browser
  <2>3. z = Released(u, x)
    BY <1>4, <1>14, <2>1
  <2>4. x.then = "overview" /\ x.fresh => u.hash.view = "workspaces" \/ Moved(u)
    BY <1>7, <2>2 DEF Taken, BrowserInv, Aimed
  <2> QED BY <1>1, <1>8, <1>11, <1>12, <2>2, <2>3, <2>4, ReleasedAdvances
<1> QED BY <1>13, <1>14

\* An answer that arrives, whatever it answers.
LEMMA ArrivesAdvances ==
  ASSUME NEW s, BrowserInv(s), Contents(s), Light(s), NEW q \in s.reqs, q.ans # None, mode \in Modes
  PROVE  LET z == Arrives(s, q) IN Orderly(s, z) /\ Redraws(s, z)
<1> DEFINE p == Without(s, q)
           z == Arrives(s, q)
<1>0. SUFFICES Orderly(s, z) /\ Redraws(s, z)
  OBVIOUS
<1>1. Client(s) /\ Net(s) /\ Aimed(s) /\ q \in RequestRecord /\ RequestOK(q)
  BY DEF BrowserInv, Client, Browser, Net
<1>2. q.kind \in {"list", "detail", "runs", "resolve"}
  BY <1>1 DEF RequestRecord
<1>3. CASE q.kind = "list"
  BY <1>3, ListAdvances
<1>4. CASE q.kind = "resolve"
  BY <1>1, <1>4, ResolveAdvances
<1>5. CASE q.kind \in {"detail", "runs"}
  <2>1. ASSUME NEW k \in s.reqs, k.kind \in {"detail", "runs"} PROVE k = q
    BY <1>5, <2>1 DEF BrowserInv, Flying, AwaitedIn
  <2>2. /\ Client(p) /\ Net(p) /\ Sheds(s, p) /\ Carried(s, p) /\ SameScreen(s, p) /\ SameHeld(s, p)
    BY <1>1, <1>5, TakenPasses
  \* What the answer paints is landed.
  <2>3. ASSUME NEW v, Client(v), Net(v), Orderly(s, v), Redraws(s, v), z = Landed(v)
        PROVE  Orderly(s, z) /\ Redraws(s, z)
    <3>1. /\ Passes(v, z)
          /\ SameScreen(v, z) \/ (Failed(z) /\ Fits(z))
          /\ Painted(v) => Painted(z)
      BY <2>3, LandedPasses
    <3> HIDE DEF z
    <3> QED BY <2>3, <3>1, AdvancesThen
  <2>4. CASE ~q.fresh
    <3>1. z = Landed(p)
      BY <1>5, <2>4 DEF Arrives, Without
    <3> HIDE DEF z, p
    <3>2. Orderly(s, p)
      BY <1>1, <2>2, OrderlyLasts DEF Sheds
    <3>3. Redraws(s, p)
      BY <2>2, LastsRetains DEF Redraws
    <3> QED BY <2>2, <2>3, <3>1, <3>2, <3>3
  <2>5. CASE q.fresh
    <3>1. Alone(s, q)
      BY <2>1, <2>5 DEF Alone
    <3>2. CASE q.kind = "runs"
      <4> DEFINE v == RunsArrives(p, q)
      <4>1. z = Landed(v)
        BY <2>5, <3>2 DEF Arrives, Without
      <4>2. Client(v) /\ Orderly(s, v) /\ (Failed(v) \/ Painted(v))
        BY <1>1, <3>1, <3>2, RunsAdvances
      <4> HIDE DEF p
      <4>3. Net(v)
        BY <1>1, <2>2, <3>2, RunsPaints DEF Paints, Gains
      <4> HIDE DEF v, z
      <4> QED BY <2>3, <4>1, <4>2, <4>3 DEF Redraws
    <3>3. CASE q.kind = "detail" /\ Set
      <4> DEFINE v == SetDetailArrives(p, q)
      <4>1. z = Landed(v)
        BY <2>5, <3>3 DEF Arrives, Without
      <4>2. Client(v) /\ Orderly(s, v) /\ (Failed(v) \/ Painted(v) \/ Astray(v))
        BY <1>1, <3>1, <3>3, SetDetailAdvances
      <4> HIDE DEF p
      <4>3. Net(v)
        BY <1>1, <2>2, <3>3, SetDetailPaints DEF Paints, Gains
      <4> HIDE DEF v, z
      <4> QED BY <2>3, <4>1, <4>2, <4>3 DEF Redraws
    <3>4. CASE q.kind = "detail" /\ ~Set
      <4> DEFINE v == SingleDetailArrives(p, q)
      <4>1. z = Landed(v)
        BY <2>5, <3>4 DEF Arrives, Without
      <4>2. Client(v) /\ Orderly(s, v) /\ (Failed(v) \/ Painted(v) \/ Astray(v))
        BY <1>1, <3>1, <3>4, SingleDetailAdvances
      <4> HIDE DEF p
      <4>3. Net(v)
        BY <1>1, <2>2, <3>4, SingleDetailPaints DEF Paints, Gains
      <4> HIDE DEF v, z
      <4> QED BY <2>3, <4>1, <4>2, <4>3 DEF Redraws
    <3> QED BY <1>5, <3>2, <3>3, <3>4
  <2> QED BY <2>4, <2>5
<1> QED BY <1>2, <1>3, <1>4, <1>5


-----------------------------------------------------------------------------
(***************************************************************************)
(* Stream events, the operator, the server, the start.                     *)
(***************************************************************************)
\* What is asked for anew, at most with a failure that is painted.
LEMMA PassesAdvance ==
  ASSUME NEW s, Client(s), Contents(s), NEW t, Passes(s, t), SameScreen(s, t) \/ Failed(t)
  PROVE  Advances(s, t)
<1>1. Orderly(s, t)
  BY OrderlyLasts DEF Passes, Sheds
<1>2. Redraws(s, t)
  BY LastsRetains DEF Redraws, Passes, Sheds
<1> QED BY <1>1, <1>2, OrderlyAdvances

\* What the client is told of the stream is neither held nor asked for.
LEMMA SameViewPasses ==
  ASSUME NEW s, NEW t, Client(t), SameView(s, t), SameHeld(s, t)
  PROVE  Passes(s, t) /\ SameScreen(s, t)
<1>1. Sheds(s, t)
  BY DEF SameView, SameHeld, Sheds, Lasts, SameAddress, SameSnap
<1> QED BY <1>1, ReqsPass DEF SameView, SameNet

LEMMA RefetchPasses ==
  ASSUME NEW s, Client(s), Net(s), Set, NEW W \in SUBSET Workspaces, W # {},
         NEW then \in {"land", "overview", "deep", "resolve", "nothing"}, NEW run \in Maybe(Runs)
  PROVE  LET t == RefetchWorkspaceList(s, W, then, run) IN
         /\ Passes(s, t) /\ SameScreen(s, t) /\ SameHeld(s, t)
         /\ (then = "deep" => DeepWait(t))
         /\ \A w \in W : Fetched(t, w)
<1> DEFINE t == RefetchWorkspaceList(s, W, then, run)
<1>1. /\ Carried(s, t) /\ Coming(s, t) /\ SameHeld(s, t) /\ (then = "deep" => DeepWait(t))
      /\ \A w \in W : Fetched(t, w)
  BY RefetchCarries
<1>4. Refetched(s, t, W, then)
  BY RefetchFacts
<1> HIDE DEF t
<1>2. Client(t) /\ SameRest(s, t) /\ SameScreen(s, t)
  BY <1>4 DEF Refetched
<1>3. Sheds(s, t)
  BY <1>1, <1>2 DEF SameRest, SameHeld, Sheds, Lasts, SameAddress, SameSnap
<1> QED BY <1>1, <1>2, <1>3 DEF Passes, t

\* The lists of a source may be asked for again, or what the address shows.
LEMMA InvalidationPasses ==
  ASSUME NEW s, Client(s), Net(s), mode \in Modes, NEW e, e.seq \in Nat, e.ws \in Sources
  PROVE  LET z == HandleInvalidation(s, e) IN
         Passes(s, z) /\ (SameScreen(s, z) \/ Failed(z))
<1> DEFINE r == s.hash
           t == [s EXCEPT !.lastEventId = IF @ = None \/ e.seq > @ THEN e.seq ELSE @]
           W == IF Anomalous(s, e) THEN Workspaces ELSE {e.ws}
           then == IF Deep(r) /\ r.ws \in W THEN "deep" ELSE "nothing"
           z == HandleInvalidation(s, e)
<1>0. SUFFICES Passes(s, z) /\ (SameScreen(s, z) \/ Failed(z))
  OBVIOUS
<1>1. Client(t) /\ SameView(s, t) /\ SameHeld(s, t)
  <2>1. (IF s.lastEventId = None \/ e.seq > s.lastEventId THEN e.seq ELSE s.lastEventId)
          \in Maybe(Nat)
    BY DEF Client, Browser, Maybe
  <2> QED BY <2>1 DEF Client, Browser, SameView, SameNet, SameScreen, SameHeld
<1>2. z = IF ~Set THEN RefreshSingleFlight(t) ELSE RefetchWorkspaceList(t, W, then, None)
  BY DEF HandleInvalidation
<1> HIDE DEF t, z
<1>3. Passes(s, t) /\ SameScreen(s, t) /\ Net(t)
  BY <1>1, SameViewPasses DEF SameView, SameNet, Net, Listed
<1>4. CASE ~Set
  <2>1. Passes(t, z) /\ (SameScreen(t, z) \/ Failed(z))
    BY <1>1, <1>2, <1>3, <1>4, SingleFlightPasses
  <2> QED BY <1>3, <2>1, PassesTwice DEF SameScreen
<1>5. CASE Set
  <2>1. W \in SUBSET Workspaces /\ W # {}
    BY <1>5, ClientAssumption DEF Set, Sources
  <2>2. PICK th \in {"land", "overview", "deep", "resolve", "nothing"} : th = then
    OBVIOUS
  <2>3. None \in Maybe(Runs)
    BY DEF Maybe
  <2> HIDE DEF W, then
  <2>4. Passes(t, RefetchWorkspaceList(t, W, th, None)) /\ SameScreen(t, RefetchWorkspaceList(t, W, th, None))
    BY <1>1, <1>3, <1>5, <2>1, <2>3, RefetchPasses
  <2> QED BY <1>2, <1>3, <1>5, <2>2, <2>4, PassesTwice DEF SameScreen
<1> QED BY <1>4, <1>5

LEMMA StreamPasses ==
  ASSUME NEW s, Client(s), Net(s), mode \in Modes, NEW z \in {StreamOpened(s), StreamFailed(s)}
  PROVE  Passes(s, z) /\ (SameScreen(s, z) \/ Failed(z))
<1> DEFINE up == [s EXCEPT !.stream = "connected"]
           again == [up EXCEPT !.lastEventId = None]
           down == [s EXCEPT !.stream = "down"]
<1>1. /\ Client(up) /\ SameView(s, up) /\ SameHeld(s, up)
      /\ Client(down) /\ SameView(s, down) /\ SameHeld(s, down)
  BY DEF Client, Browser, SameView, SameNet, SameScreen, SameHeld
<1>2. Client(again) /\ SameView(s, again) /\ SameHeld(s, again)
  <2>1. None \in Maybe(Nat)
    BY DEF Maybe
  <2> QED BY <2>1 DEF Client, Browser, SameView, SameNet, SameScreen, SameHeld
<1>3. \E t \in {up, again, down} : z = t \/ z = RefreshSingleFlight(t)
  BY DEF StreamOpened, StreamFailed
<1> HIDE DEF up, again, down
<1>4. PICK t : /\ Client(t) /\ SameView(s, t) /\ SameHeld(s, t)
               /\ z = t \/ z = RefreshSingleFlight(t)
  BY <1>1, <1>2, <1>3
<1>5. Passes(s, t) /\ SameScreen(s, t) /\ Net(t)
  BY <1>4, SameViewPasses DEF SameView, SameNet, Net, Listed
<1>6. CASE z = t
  BY <1>5, <1>6
<1>7. CASE z = RefreshSingleFlight(t)
  <2>1. Passes(t, z) /\ (SameScreen(t, z) \/ Failed(z))
    BY <1>4, <1>5, <1>7, SingleFlightPasses
  <2> QED BY <1>5, <2>1, PassesTwice DEF SameScreen
<1> QED BY <1>4, <1>6, <1>7

\* The operator goes to another address: what is held is that of the old one.
LEMMA GoToAdvances ==
  ASSUME NEW s, BrowserInv(s), Contents(s), ~s.pending, NEW r, AddressFits(r)
  PROVE  Advances(s, GoTo(s, r)) /\ SameScreen(s, GoTo(s, r)) /\ SameHeld(s, GoTo(s, r))
<1> DEFINE t == GoTo(s, r)
<1>0. SUFFICES Advances(s, t) /\ SameScreen(s, t) /\ SameHeld(s, t)
  OBVIOUS
<1>1. Client(s) /\ s.base = UnderlyingKey(s.hash) /\ s.hash \in AddressType /\ r \in AddressType
  BY DEF BrowserInv, Addressed, Client, Browser, AddressFits, WellFormed, AddressType
<1>2. /\ SameScreen(s, t) /\ SameHeld(s, t) /\ t.reqs = s.reqs /\ t.hash = r
      /\ t.pending = (r # s.hash) /\ t.base = s.base
  BY <1>1 DEF GoTo, Client, Browser, SameScreen, SameHeld
<1> HIDE DEF t
<1>3. ~Moved(s)
  BY DEF Moved
<1>4. ~Moved(t) => s.hash.view = r.view /\ s.hash.ws = r.ws /\ s.hash.run = r.run
  <2>1. ASSUME UnderlyingKey(s.hash) = UnderlyingKey(r)
        PROVE  s.hash.view = r.view /\ s.hash.ws = r.ws /\ s.hash.run = r.run
    BY <1>1, <2>1 DEF UnderlyingKey, AddressType
  <2> QED BY <1>1, <1>2, <2>1 DEF Moved
<1>5. \A w : HeldList(t, w) = HeldList(s, w) /\ HeldDetail(t, w) = HeldDetail(s, w)
  BY <1>2 DEF SameHeld, HeldList, HeldDetail
<1>6. Proper(t) /\ Honest(t) /\ Newer(t) /\ Mirror(t) /\ SnapAt(t)
  BY <1>2, <1>5 DEF Contents, Proper, Honest, Newer, Holds, Mirror, SnapAt, SameHeld
<1>7. RowsAt(t) /\ DetailAt(t)
  BY <1>2, <1>3, <1>4 DEF Contents, RowsAt, DetailAt, Deep, At, Subject, SameHeld
<1>8. \A V : Read(s, V) => Read(t, V)
  BY <1>2, <1>5 DEF Read
<1>9. Ahead(s, t)
  BY <1>1, <1>2, HeldIsAtMost, HeldTypes DEF Ahead, SameHeld
<1>10. Redraws(s, t)
  BY <1>2, LastsRetains DEF Redraws
<1> QED BY <1>2, <1>6, <1>7, <1>8, <1>9, <1>10 DEF Advances, Contents

\* The server answers from the source as it is.
LEMMA AnsweredAdvances ==
  ASSUME NEW s, Client(s), Contents(s), NEW q \in s.reqs, q.ans = None, NEW V \in [All -> Nat], Read(s, V),
         NEW p \in RequestRecord, p.kind = q.kind, p.ws = q.ws, p.run = q.run, p.fresh = q.fresh,
         p.ans.ver = V[q.ws], p.ans.out = "other" <=> p.ans.run # q.run
  PROVE  LET t == [s EXCEPT !.reqs = (@ \ {q}) \cup {p}] IN
         /\ Contents(t) /\ Read(t, V)
         /\ SameScreen(s, t) /\ SameHeld(s, t) /\ t.hash = s.hash
<1> DEFINE t == [s EXCEPT !.reqs = (@ \ {q}) \cup {p}]
<1>0. SUFFICES /\ Contents(t) /\ Read(t, V)
               /\ SameScreen(s, t) /\ SameHeld(s, t) /\ t.hash = s.hash
  OBVIOUS
<1>1. /\ SameScreen(s, t) /\ SameHeld(s, t) /\ t.hash = s.hash /\ t.pending = s.pending /\ t.base = s.base
      /\ t.reqs = (s.reqs \ {q}) \cup {p}
  BY DEF Client, Browser, SameScreen, SameHeld
<1> HIDE DEF t
<1>2. q.ws \in Sources /\ V[q.ws] \in Nat
  <2>1. q.ws \in Sources /\ q.ws \in All
    BY DEF Contents, Proper, Client, Browser, RequestRecord
  <2> QED BY <2>1
<1>3. \A w : HeldList(t, w) = HeldList(s, w) /\ HeldDetail(t, w) = HeldDetail(s, w)
  BY <1>1 DEF SameHeld, HeldList, HeldDetail
<1>4. \A k \in t.reqs : k # p => k \in s.reqs /\ k # q
  BY <1>1
<1>5. Proper(t)
  <2>1. \A k \in t.reqs : k.ws \in Sources
    BY <1>2, <1>4 DEF Contents, Proper
  <2>2. ASSUME NEW k \in t.reqs, NEW l \in t.reqs, k.kind = "list", l.kind = "list", k.fresh, l.fresh,
               k.ws = l.ws
        PROVE  k = l
    <3>1. \A m \in s.reqs : m.kind = "list" /\ m.fresh /\ m.ws = k.ws =>
             \A n \in s.reqs : n.kind = "list" /\ n.fresh /\ n.ws = k.ws => m = n
      BY DEF Contents, Proper
    <3> QED BY <1>4, <2>2, <3>1
  <2>3. ASSUME NEW k \in t.reqs, NEW l \in t.reqs, l.kind = "resolve", l.fresh
        PROVE  ~Set /\ k.kind \notin {"detail", "runs"}
    BY <1>4, <2>3 DEF Contents, Proper
  <2> QED BY <2>1, <2>2, <2>3 DEF Proper
<1>6. Honest(t)
  BY <1>4 DEF Contents, Honest
<1>7. Newer(t)
  <2>1. AtMost(Holds(s, p.kind, p.ws), p.ans.ver)
    BY <1>2 DEF Read, Holds
  <2>2. ASSUME NEW k \in t.reqs, k.fresh, k.ans # None
        PROVE  AtMost(Holds(t, k.kind, k.ws), k.ans.ver)
    <3>1. Holds(t, k.kind, k.ws) = Holds(s, k.kind, k.ws)
      BY <1>3 DEF Holds
    <3>2. CASE k = p
      BY <2>1, <3>1, <3>2
    <3>3. CASE k # p
      BY <1>4, <2>2, <3>1, <3>3 DEF Contents, Newer
    <3> QED BY <3>2, <3>3
  <2> QED BY <2>2 DEF Newer
<1>8. Mirror(t) /\ SnapAt(t)
  BY <1>1 DEF Contents, Mirror, SnapAt, SameHeld
<1>9. RowsAt(t) /\ DetailAt(t)
  BY <1>1 DEF Contents, RowsAt, DetailAt, Moved, At, SameHeld
<1>10. Read(t, V)
  <2>1. AtMost(p.ans.ver, V[p.ws])
    BY <1>2, AtMostFacts
  <2> QED BY <1>3, <1>4, <2>1 DEF Read
<1> QED BY <1>1, <1>5, <1>6, <1>7, <1>8, <1>9, <1>10 DEF Contents

\* The page boots with nothing held.
LEMMA BootContents ==
  ASSUME NEW r, AddressFits(r), mode \in Modes
  PROVE  Contents(Boot(r)) /\ Pictured(Boot(r)) /\ \A V : Read(Boot(r), V)
<1> DEFINE snap == [w \in Workspaces |-> [list |-> None, listErr |-> FALSE,
                                          detail |-> None, detailErr |-> FALSE]]
           s == [hash |-> r, pending |-> FALSE, routed |-> <<None, None>>, painted |-> Blank,
                 lastPaint |-> None, list |-> None, detail |-> None, detailId |-> None,
                 detailWs |-> None, conflict |-> FALSE, flight |-> FALSE, again |-> FALSE,
                 force |-> FALSE, manual |-> r.manual, base |-> UnderlyingKey(r),
                 snap |-> snap, dead |-> None, resTried |-> None, resBusy |-> FALSE,
                 lastEventId |-> None, stream |-> "connecting", reqs |-> {}, waits |-> {}]
<1>1. /\ r \in AddressType /\ UnderlyingKey(r) \in AddressType /\ r.manual \in BOOLEAN
  BY DEF AddressFits, WellFormed, AddressType, UnderlyingKey
<1>2. /\ None \in All /\ \A S : None \in Maybe(S)
      /\ None \in VerOrNone /\ None \in DetailType
  BY DEF All, Maybe, VerOrNone, DetailType
<1>3. snap \in [Workspaces -> SnapRecord] /\ \A w \in Workspaces : snap[w].list = None /\ snap[w].detail = None
  BY <1>2 DEF SnapRecord
<1>4. Boot(r) = Refresh(s)
  BY DEF Boot
<1> HIDE DEF snap
<1>5. s \in Browser
  BY <1>1, <1>2, <1>3, BlankType DEF Browser
<1>6. /\ s.hash = r /\ s.reqs = {} /\ s.waits = {} /\ s.painted = Blank /\ s.snap = snap
      /\ s.list = None /\ s.detail = None
  OBVIOUS
<1> HIDE DEF s
<1>7. Client(s)
  BY <1>5, <1>6 DEF Client
<1>8. Net(s)
  BY <1>6, FS_EmptySet DEF Net
<1>9. \A w \in Sources : HeldList(s, w) = None /\ HeldDetail(s, w) = None
  BY <1>3, <1>6, ClientAssumption DEF Sources, Set, HeldList, HeldDetail
<1>10. Contents(s)
  <2>1. Proper(s) /\ Honest(s) /\ Newer(s) /\ Mirror(s) /\ SnapAt(s) /\ DetailAt(s)
    BY <1>3, <1>6 DEF Proper, Honest, Newer, Mirror, SnapAt, DetailAt
  <2>2. RowsAt(s)
    BY <1>3, <1>6, <1>7 DEF RowsAt, Client, AddressFits, All, WellFormed
  <2> QED BY <2>1, <2>2 DEF Contents
<1>11. \A V : Read(s, V)
  BY <1>6, <1>9 DEF Read, AtMost, DetailVer
<1>12. /\ Sheds(s, Refresh(s)) /\ Carried(s, Refresh(s))
       /\ SameScreen(s, Refresh(s)) \/ Failed(Refresh(s))
  BY <1>7, <1>8, RefreshPasses
<1>13. Contents(Boot(r)) /\ \A V : Read(Boot(r), V)
  BY <1>4, <1>7, <1>10, <1>11, <1>12, ContentsKept DEF Sheds
<1>14. Pictured(Boot(r))
  <2>1. Blank.kind = "blank" /\ Blank.kind \notin Projections
    BY BlankIsCalm DEF Projections
  <2> QED BY <1>4, <1>6, <1>12, <2>1 DEF SameScreen, Failed, Pictured, Shaped, RecordIs
<1> QED BY <1>13, <1>14


-----------------------------------------------------------------------------
(***************************************************************************)
(* Addresses.                                                              *)
(***************************************************************************)
\* What is held is kept or dropped; in workspace-set mode the rows in hand are
\* not what is held.
Drops(s, t) ==
    /\ t.snap = s.snap /\ (Set \/ t.list \in {None, s.list})
    /\ t.detail = None \/ (t.detail = s.detail /\ t.detailWs = s.detailWs)

\* What routeChanged has in hand when it paints the address or asks for it.
Entered(s, x) ==
    /\ Client(x) /\ Net(x) /\ Contents(x) /\ \A V : Read(s, V) => Read(x, V)
    /\ (SameScreen(s, x) /\ Retains(s, x)) \/ Emptied(x)
    /\ Ahead(s, x) \/ (Emptied(x) /\ x.list = None /\ x.detail = None)

LEMMA DropsEnter ==
  ASSUME NEW s, Client(s), Contents(s), NEW x, Client(x), Net(x), Carried(s, x), Drops(s, x),
         RowsAt(x), DetailAt(x), SameScreen(s, x) \/ Emptied(x),
         Set \/ x.list = s.list \/ (Emptied(x) /\ x.list = None /\ x.detail = None)
  PROVE  Entered(s, x)
<1>0. ASSUME NEW w \in Sources, NEW kind
      PROVE  /\ HeldList(x, w) \in {None, HeldList(s, w)} /\ HeldDetail(x, w) \in {None, HeldDetail(s, w)}
             /\ Holds(x, kind, w) \in {None, Holds(s, kind, w)}
  <2>1. HeldList(x, w) \in {None, HeldList(s, w)} /\ HeldDetail(x, w) \in {None, HeldDetail(s, w)}
    BY DEF Drops, HeldList, HeldDetail
  <2> QED BY <2>1 DEF Holds, DetailVer
<1>1. Proper(x) /\ \A q \in x.reqs : q.ws \in Sources
  BY DEF Contents, Carried, Proper
<1>2. Honest(x)
  BY DEF Contents, Carried, Honest
<1>3. Newer(x)
  <2>1. ASSUME NEW q \in x.reqs, q.fresh, q.ans # None
        PROVE  AtMost(Holds(x, q.kind, q.ws), q.ans.ver)
    <3>1. PICK p \in s.reqs : p.kind = q.kind /\ p.ws = q.ws /\ p.ans = q.ans /\ p.fresh
      BY <2>1 DEF Carried
    <3>2. AtMost(Holds(s, q.kind, q.ws), q.ans.ver)
      BY <2>1, <3>1 DEF Contents, Newer
    <3>3. Holds(x, q.kind, q.ws) \in {None, Holds(s, q.kind, q.ws)}
      BY <1>0, <1>1
    <3> QED BY <3>2, <3>3 DEF AtMost
  <2> QED BY <2>1 DEF Newer
<1>4. Mirror(x) /\ SnapAt(x)
  BY DEF Contents, Mirror, SnapAt, Drops
<1>5. ASSUME NEW V, Read(s, V) PROVE Read(x, V)
  <2>1. ASSUME NEW q \in x.reqs, q.ans # None PROVE AtMost(q.ans.ver, V[q.ws])
    BY <1>5, <2>1 DEF Carried, Read
  <2>2. ASSUME NEW w \in Sources
        PROVE  AtMost(HeldList(x, w), V[w]) /\ AtMost(DetailVer(HeldDetail(x, w)), V[w])
    BY <1>0, <1>5 DEF Read, AtMost, DetailVer
  <2> QED BY <2>1, <2>2 DEF Read
<1>6. Set \/ x.list = s.list => Ahead(s, x)
  BY HeldIsAtMost, HeldTypes DEF Drops, Ahead
<1>7. Set \/ x.list = s.list => Retains(s, x)
  BY DEF Drops, Retains
<1> QED BY <1>1, <1>2, <1>3, <1>4, <1>5, <1>6, <1>7 DEF Entered, Contents

\* The address is asked for: the screen stays until it is answered.
LEMMA EnteredRefreshes ==
  ASSUME NEW s, NEW x, Entered(s, x), mode \in Modes
  PROVE  Advances(s, RefreshSingleFlight(x))
<1> DEFINE z == RefreshSingleFlight(x)
<1>1. Passes(x, z) /\ (SameScreen(x, z) \/ Failed(z))
  BY SingleFlightPasses DEF Entered
<1> HIDE DEF z
<1>2. Contents(z) /\ (\A V : Read(x, V) => Read(z, V))
  BY <1>1, ContentsKept DEF Entered, Passes, Sheds
<1>3. Ahead(s, x) => Ahead(s, z)
  BY <1>1, AheadThen DEF Passes, Sheds
<1>4. SameScreen(x, z) => (SameScreen(s, x) => SameScreen(s, z)) /\ (Emptied(x) => Emptied(z))
  BY DEF SameScreen, Emptied
<1>5. Retains(s, x) => Retains(s, z)
  BY <1>1 DEF Retains, Passes, Sheds, Lasts
<1> QED BY <1>1, <1>2, <1>3, <1>4, <1>5 DEF Entered, Advances, Redraws, z

\* The address is painted from what is held, and may be asked for besides.
LEMMA EnteredPaints ==
  ASSUME NEW s, NEW x, Entered(s, x), Ahead(s, x) \/ x.hash.view = "invalid", mode \in Modes
  PROVE  LET g == RenderCurrentGuarded(x) IN
         Advances(s, g) /\ Advances(s, RefreshSingleFlight(g))
<1> DEFINE g == RenderCurrentGuarded(x)
           z == RefreshSingleFlight(g)
<1>1. Passes(x, g) /\ Painted(g)
  BY GuardedPasses DEF Entered
<1>2. Net(g)
  BY GuardedPainted DEF Entered, Shows, Gains
<1> HIDE DEF g
<1>3. Passes(g, z) /\ Painted(z)
  BY <1>1, <1>2, SingleFlightPasses DEF Passes
<1> HIDE DEF z
<1>4. ASSUME NEW y, Passes(x, y), Painted(y) PROVE Advances(s, y)
  <2>1. Contents(y) /\ (\A V : Read(x, V) => Read(y, V))
    BY <1>4, ContentsKept DEF Entered, Passes, Sheds
  <2>2. Ahead(s, x) => Ahead(s, y)
    BY <1>4, AheadThen DEF Passes, Sheds
  <2>3. x.hash.view = "invalid" => Failed(y)
    BY <1>4 DEF Painted, Fits, KindsAt, Failed, Passes, Sheds, Lasts, SameAddress, Deep
  <2> QED BY <1>4, <2>1, <2>2, <2>3 DEF Entered, Advances, Redraws
<1>5. Passes(x, z)
  BY <1>1, <1>3, PassesTwice
<1> QED BY <1>1, <1>3, <1>4, <1>5 DEF g, z

\* What routeChanged does before it looks at the view.
LEMMA RoutedHeld ==
  ASSUME NEW s, Client(s), Net(s), Flying(s), Recorded(s), ~s.pending
  PROVE  LET t == Routed(s) IN
         /\ Client(t) /\ Net(t) /\ t.hash = s.hash /\ ~t.pending /\ ~Moved(t)
         /\ Carried(s, t) /\ Coming(s, t) /\ Drops(s, t) /\ t.flight = s.flight
         /\ t.routed = Subject(t.hash) /\ (s.flight => t.again)
         /\ \A q \in t.reqs : q.kind # "list" => ~q.fresh
         /\ t.detail = s.detail => t.detailId = s.detailId \/ t.detail = None
         /\ \/ SameScreen(s, t) /\ t.list = s.list /\ s.routed = Subject(s.hash) /\ t.detail = s.detail
            \/ Emptied(t) /\ t.list = None /\ t.detail = None /\ s.routed # Subject(s.hash)
<1> DEFINE r == s.hash
           c == Bump(s)
           u == [c EXCEPT !.manual = r.manual, !.base = UnderlyingKey(r), !.again = @ \/ s.flight,
                          !.routed = Subject(r), !.force = FALSE]
           d == [u EXCEPT !.list = None, !.detail = None, !.detailId = None,
                          !.detailWs = None, !.conflict = FALSE]
           t == Routed(s)
<1>1. Core(t) /\ t.hash = r /\ t.flight = s.flight /\ (s.flight => t.again)
  BY RoutedCore
<1>2. Client(c) /\ SameRest(s, c) /\ SameScreen(s, c) /\ Stale(c)
  BY BumpFacts
<1>3. Carried(s, c) /\ Coming(s, c) /\ SameHeld(s, c)
  BY BumpCarries
<1>4. t = IF s.routed = Subject(r) THEN u ELSE EmptyApp(d)
  BY DEF Routed
<1> HIDE DEF c, t
<1>5. /\ u.reqs = c.reqs /\ u.waits = c.waits /\ u.painted = c.painted /\ u.lastPaint = c.lastPaint
      /\ u.snap = c.snap /\ u.list = c.list /\ u.detail = c.detail /\ u.detailWs = c.detailWs
      /\ u.detailId = c.detailId
  BY <1>2 DEF Client, Browser
<1>6. DOMAIN u = DOMAIN c /\ DOMAIN d = DOMAIN c
  OBVIOUS
<1>7. LET e == EmptyApp(d) IN
      /\ e.reqs = c.reqs /\ e.waits = c.waits /\ Emptied(e)
      /\ e.snap = c.snap /\ e.list = None /\ e.detail = None
  BY <1>2 DEF Client, Browser, EmptyApp, Emptied
<1>8. /\ t.reqs = c.reqs /\ t.waits = c.waits /\ t.snap = s.snap
      /\ \/ /\ SameScreen(s, t) /\ t.list = s.list /\ s.routed = Subject(s.hash)
            /\ t.detail = s.detail /\ t.detailWs = s.detailWs /\ t.detailId = s.detailId
         \/ Emptied(t) /\ t.list = None /\ t.detail = None /\ s.routed # Subject(s.hash)
  <2>1. CASE s.routed = Subject(r)
    <3> HIDE DEF u
    <3> QED BY <1>2, <1>3, <1>4, <1>5, <2>1 DEF SameScreen, SameHeld
  <2>2. CASE s.routed # Subject(r)
    <3> HIDE DEF u, d
    <3> QED BY <1>3, <1>4, <1>7, <2>2 DEF SameHeld
  <2> QED BY <2>1, <2>2
<1> HIDE DEF u, d
<1>9. Carried(s, t) /\ Coming(s, t)
  <2>1. Carried(c, t)
    BY <1>8, CarriedSome
  <2> QED BY <1>3, <1>8, <2>1, CarriedTwice DEF Coming, Fetched, DeepWait
<1>10. Client(t) /\ Net(t)
  BY <1>1 DEF Core
<1>11. ~t.pending
  BY <1>4, <1>2 DEF EmptyApp, u, d, SameRest, Client, Browser
<1>12. ~Moved(t) /\ Drops(s, t)
  BY <1>8, <1>11 DEF Moved, Drops
<1>13. t.routed = Subject(t.hash) /\ \A q \in t.reqs : q.kind # "list" => ~q.fresh
  BY <1>1, <1>2, <1>8, <1>11 DEF Core, Addressed, Stale
<1> QED BY <1>1, <1>8, <1>9, <1>10, <1>11, <1>12, <1>13 DEF t


\* The hashchange to come is dispatched, which changes nothing that is held.
LEMMA HandledHeld ==
  ASSUME NEW s, BrowserInv(s)
  PROVE  LET h == Handled(s) IN
         /\ SameScreen(s, h) /\ SameHeld(s, h) /\ h.reqs = s.reqs /\ h.waits = s.waits
         /\ h.routed = s.routed /\ h.force = s.force
BY DEF Handled, BrowserInv, Client, Browser, SameScreen, SameHeld

\* Only the pane moves: what is painted is a failure, or what is held.
LEMMA ManualAdvances ==
  ASSUME NEW s, BrowserInv(s), Contents(s), ManualOnly(Handled(s)), mode \in Modes
  PROVE  Advances(s, ManualMoved(Handled(s)))
<1> DEFINE h == Handled(s)
           t == [h EXCEPT !.manual = h.hash.manual]
           z == ManualMoved(h)
<1>0. SUFFICES Advances(s, z)
  OBVIOUS
<1>1. /\ Client(s) /\ Client(h) /\ Net(h) /\ h.pending = FALSE /\ h.hash = s.hash /\ h.base = s.base
      /\ SameScreen(s, h) /\ SameHeld(s, h) /\ h.reqs = s.reqs /\ h.waits = s.waits
  BY HandledFacts, HandledHeld DEF BrowserInv
<1>2. ~Moved(s)
  BY <1>1 DEF ManualOnly, Moved
<1>3. z = IF t.lastPaint # None THEN ReplayLastPaint(t) ELSE RenderCurrentGuarded(t)
  BY DEF ManualMoved
<1> HIDE DEF h, z
<1>4. /\ Client(t) /\ SameScreen(h, t) /\ SameHeld(h, t) /\ t.reqs = h.reqs /\ t.waits = h.waits
      /\ t.hash = h.hash
  BY <1>1 DEF Client, Browser, AddressType, SameScreen, SameHeld
<1> HIDE DEF t
<1>5. Net(t) /\ SameScreen(s, t) /\ SameHeld(s, t) /\ t.hash = s.hash /\ t.reqs = s.reqs
  BY <1>1, <1>4 DEF Net, Listed, SameScreen, SameHeld
<1>6. Entered(s, t)
  <2>1. Carried(s, t) /\ Drops(s, t)
    BY <1>5, CarriedSome DEF Drops, SameHeld
  <2>2. RowsAt(t) /\ DetailAt(t)
    BY <1>2, <1>5 DEF Contents, RowsAt, DetailAt, At, SameHeld
  <2> QED BY <1>1, <1>4, <1>5, <2>1, <2>2, DropsEnter DEF SameHeld
<1>7. Ahead(s, t)
  BY <1>1, <1>5, HeldIsAtMost, HeldTypes DEF Ahead, SameHeld
<1>8. CASE t.lastPaint # None
  <2>1. Pure(t, z) /\ Failed(z)
    BY <1>3, <1>4, <1>8, ReplayShown
  <2>2. Sheds(t, z) /\ Carried(t, z)
    BY <2>1, PureSheds
  <2>3. Contents(z) /\ (\A V : Read(t, V) => Read(z, V))
    BY <1>4, <1>6, <2>2, ContentsKept DEF Entered, Sheds
  <2> QED BY <1>6, <2>1, <2>3 DEF Entered, Advances
<1>9. CASE t.lastPaint = None
  BY <1>3, <1>6, <1>7, <1>9, EnteredPaints
<1> QED BY <1>8, <1>9

\* The address that has been handled is shown, or asked for.
LEMMA RouteAdvances ==
  ASSUME NEW s, BrowserInv(s), Contents(s), mode \in Modes
  PROVE  Advances(s, RouteChanged(Handled(s)))
<1> DEFINE h == Handled(s)
           r == s.hash
           runChanged == h.routed # Subject(r)
           t == Routed(h)
           z == RouteChanged(h)
<1>0. SUFFICES Advances(s, z)
  OBVIOUS
<1>1. /\ Client(s) /\ Client(h) /\ Net(h) /\ Flying(h) /\ Recorded(h) /\ h.pending = FALSE /\ h.hash = r
      /\ SameScreen(s, h) /\ SameHeld(s, h) /\ h.reqs = s.reqs /\ h.waits = s.waits
  BY HandledFacts, HandledHeld DEF BrowserInv
<1>2. z = CASE ManualOnly(h) -> ManualMoved(h)
            [] ~ManualOnly(h) /\ r.view = "invalid" -> RenderCurrentGuarded(t)
            [] ~ManualOnly(h) /\ r.view = "workspaces" -> OverviewRouted(t, runChanged)
            [] ~ManualOnly(h) /\ r.view = "runs" -> RunsRouted(t, h.force)
            [] ~ManualOnly(h) /\ Deep(r) -> RunRouted(t, h.force, runChanged)
  BY <1>1 DEF RouteChanged
<1>3. CASE ManualOnly(h)
  BY <1>2, <1>3, ManualAdvances
<1>4. CASE ~ManualOnly(h)
  <2> HIDE DEF h, z, runChanged
  <2>1. /\ Client(t) /\ Net(t) /\ t.hash = r /\ ~Moved(t) /\ ~t.pending
        /\ Carried(h, t) /\ Drops(h, t)
        /\ \/ SameScreen(h, t) /\ t.list = h.list /\ t.detail = h.detail
           \/ Emptied(t) /\ t.list = None /\ t.detail = None
    BY <1>1, RoutedHeld
  <2> HIDE DEF t
  <2>2. /\ Carried(s, t) /\ Drops(s, t)
        /\ \/ SameScreen(s, t) /\ t.list = s.list
           \/ Emptied(t) /\ t.list = None /\ t.detail = None
    <3>1. Carried(s, h)
      BY <1>1, CarriedSome
    <3> QED BY <1>1, <2>1, <3>1, CarriedTwice DEF Drops, SameHeld, SameScreen
  <2>3. r.view \in {"workspaces", "runs", "detail", "unit", "invalid"}
    BY <1>1 DEF Client, AddressFits, WellFormed
  <2>4. CASE r.view = "invalid"
    <3>1. z = RenderCurrentGuarded(t)
      BY <1>2, <1>4, <2>4 DEF Deep
    <3>2. Entered(s, t)
      BY <1>1, <2>1, <2>2, <2>4, DropsEnter DEF RowsAt, DetailAt, Deep
    <3> QED BY <2>1, <2>4, <3>1, <3>2, EnteredPaints
  <2>5. CASE r.view = "workspaces"
    <3> DEFINE x == [t EXCEPT !.detail = None, !.detailId = None, !.conflict = FALSE]
    <3>1. z = OverviewRouted(t, runChanged)
      BY <1>2, <1>4, <2>5 DEF Deep
    <3>2. \/ z = RefreshSingleFlight(x)
          \/ z = RefreshSingleFlight(RenderCurrentGuarded(x))
          \/ z = RenderCurrentGuarded(x)
      <4>1. PICK known \in BOOLEAN : OverviewRouted(t, runChanged) =
              CASE ~known -> RefreshSingleFlight(x)
                [] known /\ runChanged -> RefreshSingleFlight(RenderCurrentGuarded(x))
                [] known /\ ~runChanged -> RenderCurrentGuarded(x)
        <5>1. PICK known \in BOOLEAN :
                known = (\A w \in Workspaces : t.snap[w].list # None \/ t.snap[w].listErr)
          OBVIOUS
        <5>2. OverviewRouted(t, runChanged) =
                CASE ~known -> RefreshSingleFlight(x)
                  [] known /\ runChanged -> RefreshSingleFlight(RenderCurrentGuarded(x))
                  [] known /\ ~runChanged -> RenderCurrentGuarded(x)
          BY <5>1 DEF OverviewRouted
        <5> QED BY <5>2
      <4>2. runChanged \in BOOLEAN
        BY DEF runChanged
      <4> HIDE DEF x
      <4> QED BY <3>1, <4>1, <4>2
    <3>3. /\ Client(x) /\ SameRest(t, x) /\ SameNet(t, x) /\ SameScreen(t, x)
          /\ x.snap = t.snap /\ x.list = t.list /\ x.detail = None
      <4>1. None \in Maybe(Runs)
        BY DEF Maybe
      <4>2. x.snap = t.snap /\ x.list = t.list /\ x.detail = None
        BY <2>1 DEF Client, Browser
      <4> QED BY <2>1, <4>1, <4>2, DroppedFacts
    <3> HIDE DEF x
    <3>4. Net(x) /\ x.hash = r /\ (SameScreen(s, x) \/ Emptied(x))
      BY <2>1, <2>2, <3>3 DEF Net, Listed, SameNet, SameRest, SameScreen, Emptied
    <3>5. Carried(s, x) /\ Drops(s, x)
      <4>1. Carried(t, x)
        BY <3>3, CarriedSome DEF SameNet
      <4> QED BY <2>2, <3>3, <4>1, CarriedTwice DEF Drops
    <3>6. RowsAt(x) /\ DetailAt(x) /\ Set
      BY <1>1, <2>5, <3>3, <3>4 DEF RowsAt, DetailAt, Client, AddressFits
    <3>7. Entered(s, x) /\ Ahead(s, x)
      <4>1. Ahead(s, x)
        BY <1>1, <3>5, <3>6, HeldIsAtMost DEF Ahead, Drops
      <4> QED BY <1>1, <3>3, <3>4, <3>5, <3>6, <4>1, DropsEnter
    <3> QED BY <3>2, <3>7, EnteredRefreshes, EnteredPaints
  <2>6. CASE r.view = "runs"
    <3> DEFINE list == IF Set THEN t.snap[t.hash.ws].list ELSE t.list
               x == [t EXCEPT !.detail = None, !.detailId = None, !.conflict = FALSE, !.list = list]
    <3>1. z = RunsRouted(t, h.force)
      BY <1>2, <1>4, <2>6 DEF Deep
    <3>2. z = IF h.force \/ x.list = None THEN RefreshSingleFlight(x) ELSE RenderCurrentGuarded(x)
      BY <2>1, <3>1 DEF RunsRouted, Client, Browser
    <3>3. list \in VerOrNone /\ (Set => r.ws \in Workspaces)
      BY <1>1, <2>1, <2>6 DEF Client, Browser, SnapRecord, AddressFits, WellFormed, All
    <3>4. x.list = list
      BY <2>1 DEF Client, Browser
    <3> HIDE DEF list
    <3>5. /\ Client(x) /\ x.reqs = t.reqs /\ x.waits = t.waits /\ SameScreen(t, x) /\ x.hash = r
          /\ x.snap = t.snap /\ x.detail = None
      <4>1. None \in DetailType /\ None \in Maybe(Runs)
        BY DEF DetailType, Maybe
      <4> QED BY <2>1, <3>3, <4>1 DEF Client, Browser, SameScreen
    <3> HIDE DEF x
    <3>6. Net(x) /\ (SameScreen(s, x) \/ Emptied(x))
      BY <2>1, <2>2, <3>5 DEF Net, Listed, SameScreen, Emptied
    <3>7. Carried(s, x) /\ Drops(s, x)
      <4>1. Carried(t, x)
        BY <3>5, CarriedSome
      <4> QED BY <2>2, <3>4, <3>5, <4>1, CarriedTwice DEF Drops, list
    <3>8. RowsAt(x) /\ DetailAt(x)
      BY <2>1, <3>4, <3>5 DEF RowsAt, DetailAt, list
    <3>9. Entered(s, x) /\ (x.list # None => Ahead(s, x))
      <4>1. ~Set => x.list = t.list
        BY <3>4 DEF list
      <4>2. Set \/ x.list = s.list => Ahead(s, x)
        BY <1>1, <3>5, <3>7, HeldIsAtMost DEF Ahead, Drops
      <4>3. Set \/ x.list = s.list \/ (Emptied(x) /\ x.list = None /\ x.detail = None)
        BY <2>2, <3>5, <4>1 DEF Emptied, SameScreen
      <4> QED BY <1>1, <3>5, <3>6, <3>7, <3>8, <4>2, <4>3, DropsEnter
    <3> QED BY <3>2, <3>9, EnteredRefreshes, EnteredPaints
  <2>7. CASE Deep(r)
    <3> DEFINE matching == /\ t.detail # None /\ t.detailId = r.run /\ (Set => t.detailWs = r.ws)
                           /\ t.detail.run = r.run
               stale == \/ t.detailId \notin {None, r.run}
                        \/ Set /\ t.detailWs \notin {None, r.ws}
                        \/ t.detail # None /\ ~matching
               preserve == r.follow /\ ~runChanged /\ t.detail = None /\ t.detailId = r.run
               e == [t EXCEPT !.detail = None, !.detailWs = None, !.conflict = FALSE,
                              !.detailId = IF preserve THEN r.run ELSE None]
               x == IF stale \/ (FollowShown(t) /\ (~matching \/ runChanged)) THEN EmptyApp(e) ELSE t
    <3>1. z = IF matching /\ ~h.force THEN RenderCurrentGuarded(x) ELSE RefreshSingleFlight(x)
      <4>1. z = RunRouted(t, h.force, runChanged)
        BY <1>2, <1>4, <2>7 DEF Deep
      <4> QED BY <2>1, <4>1 DEF RunRouted
    <3>2. Client(e) /\ SameRest(t, e) /\ SameNet(t, e) /\ e.snap = t.snap /\ e.list = t.list /\ e.detail = None
      <4>1. /\ None \in DetailType /\ None \in All /\ r.run \in Maybe(Runs)
            /\ (IF preserve THEN r.run ELSE None) \in Maybe(Runs)
        BY <1>1 DEF DetailType, Maybe, All, Client, Browser, AddressType
      <4> HIDE DEF preserve
      <4> QED BY ZenonT(60), <2>1, <4>1 DEF Client, Browser, SameRest, SameNet
    <3> HIDE DEF e
    <3>3. LET k == EmptyApp(e) IN
          /\ Client(k) /\ SameRest(e, k) /\ SameNet(e, k) /\ Emptied(k)
          /\ k.snap = e.snap /\ k.list = e.list /\ k.detail = e.detail
      <4>1. LET k == EmptyApp(e) IN Client(k) /\ SameRest(e, k) /\ SameNet(e, k)
        BY <3>2, EmptiedFacts
      <4>2. LET k == EmptyApp(e) IN
            Emptied(k) /\ k.snap = e.snap /\ k.list = e.list /\ k.detail = e.detail
        BY <3>2 DEF EmptyApp, Emptied, Client, Browser
      <4> QED BY <4>1, <4>2
    <3>4. \/ x = t /\ ~stale
          \/ /\ Client(x) /\ SameRest(t, x) /\ SameNet(t, x) /\ Emptied(x)
             /\ x.snap = t.snap /\ x.list = t.list /\ x.detail = None
      BY <3>2, <3>3 DEF SameRest, SameNet
    <3> HIDE DEF x, stale
    <3>5. /\ Client(x) /\ Net(x) /\ x.hash = r /\ x.reqs = t.reqs /\ (SameScreen(s, x) \/ Emptied(x))
          /\ x.snap = t.snap /\ x.list = t.list /\ (x.detail = None \/ x = t)
      BY <2>1, <2>2, <3>4 DEF Net, Listed, SameNet, SameRest
    <3>6. Carried(s, x) /\ Drops(s, x)
      <4>1. Carried(t, x)
        BY <3>5, CarriedSome
      <4> QED BY <2>2, <3>5, <4>1, CarriedTwice DEF Drops
    <3>7. RowsAt(x)
      BY <2>7, <3>5 DEF RowsAt, Deep
    <3>8. DetailAt(x)
      <4> SUFFICES ASSUME x.detail # None PROVE At(x) = Subject(r)
        BY <3>5 DEF DetailAt
      <4>1. x = t /\ ~stale
        BY <3>4
      <4>2. matching
        BY <4>1 DEF stale
      <4>3. t.detail = s.detail /\ t.detailWs = s.detailWs /\ Mirror(s)
        BY <2>2, <4>1 DEF Drops, Contents
      <4>4. Set <=> r.ws # None
        BY <1>1, <2>7 DEF Client, AddressFits, Deep
      <4> QED BY <4>1, <4>2, <4>3, <4>4 DEF Mirror, At, Subject
    <3>9. Entered(s, x) /\ (Set \/ x.list = s.list => Ahead(s, x))
      <4>1. Set \/ x.list = s.list => Ahead(s, x)
        BY <1>1, <3>5, <3>6, HeldIsAtMost, HeldTypes DEF Ahead, Drops
      <4>2. Set \/ x.list = s.list \/ (Emptied(x) /\ x.list = None /\ x.detail = None)
        BY <2>2, <3>4, <3>5 DEF Emptied
      <4> QED BY <1>1, <3>5, <3>6, <3>7, <3>8, <4>1, <4>2, DropsEnter
    <3>10. matching => Ahead(s, x)
      <4>1. matching => t.list = s.list
        BY <2>2
      <4> QED BY <3>5, <3>9, <4>1
    <3> HIDE DEF matching
    <3> QED BY <3>1, <3>9, <3>10, EnteredRefreshes, EnteredPaints
  <2> QED BY <2>3, <2>4, <2>5, <2>6, <2>7 DEF Deep
<1> QED BY <1>3, <1>4


-----------------------------------------------------------------------------
(***************************************************************************)
(* The invariant: what is held is in order, nothing held or answered is of *)
(* a version to come, and the screen is a picture of its kind.             *)
(***************************************************************************)
Growth(s, t) == Failed(t) \/ Emptied(t) \/ (Ahead(s, t) /\ Redraws(s, t))
ContentInv == Contents(b) /\ Read(b, ver) /\ Pictured(b)
Grown == Contents(b') /\ Read(b', ver') /\ Pictured(b') /\ Growth(b, b')

LEMMA AdvancesGrow ==
  ASSUME NEW s, NEW t, Pictured(s), Advances(s, t), NEW V, Read(s, V)
  PROVE  Contents(t) /\ Read(t, V) /\ Pictured(t) /\ Growth(s, t)
<1>1. Contents(t) /\ Read(t, V) /\ Growth(s, t)
  BY DEF Advances, Growth
<1>2. Emptied(t) => Pictured(t)
  BY BlankIsCalm DEF Emptied, Pictured, Shaped, Projections, RecordIs
<1>3. SameScreen(s, t) => Pictured(t)
  BY DEF SameScreen, Pictured, RecordIs
<1>4. Pictured(t)
  BY <1>1, <1>2, <1>3 DEF Growth, Redraws, Failed, Painted, Astray
<1> QED BY <1>1, <1>4

\* A source that has changed since leaves what was read of it in the past.
LEMMA ReadGrows ==
  ASSUME NEW s, Client(s), NEW V \in [All -> Versions], NEW U \in [All -> Versions],
         \A w \in All : V[w] <= U[w], Read(s, V), \A q \in s.reqs : q.ws \in Sources
  PROVE  Read(s, U)
<1>1. ASSUME NEW v, v # None => v \in Nat, NEW w \in All, AtMost(v, V[w])
      PROVE  AtMost(v, U[w])
  <2>1. V[w] \in Nat /\ U[w] \in Nat /\ U[w] # None /\ V[w] <= U[w]
    BY VersionsAreNat
  <2> QED BY <1>1, <2>1 DEF AtMost
<1>2. Sources \subseteq All
  BY DEF Sources, All
<1>3. ASSUME NEW q \in s.reqs, q.ans # None PROVE AtMost(q.ans.ver, U[q.ws])
  <2>1. q.ans.ver \in Nat
    <3>1. q.ans.ver \in Versions
      BY <1>3 DEF Client, Browser, RequestRecord, AnswerRecord, Maybe
    <3> QED BY <3>1, VersionsAreNat
  <2>2. AtMost(q.ans.ver, V[q.ws]) /\ q.ws \in All
    BY <1>2, <1>3 DEF Read
  <2> QED BY <1>1, <2>1, <2>2
<1>4. ASSUME NEW w \in Sources
      PROVE  AtMost(HeldList(s, w), U[w]) /\ AtMost(DetailVer(HeldDetail(s, w)), U[w])
  <2>1. w \in All /\ AtMost(HeldList(s, w), V[w]) /\ AtMost(DetailVer(HeldDetail(s, w)), V[w])
    BY <1>2 DEF Read
  <2>2. Set => w \in Workspaces
    BY DEF Set, Sources
  <2>3. HeldList(s, w) # None => HeldList(s, w) \in Nat
    BY <2>2, HeldTypes, VersionsAreNat DEF HeldList
  <2>4. DetailVer(HeldDetail(s, w)) # None => DetailVer(HeldDetail(s, w)) \in Nat
    BY <2>2, HeldTypes DEF DetailVer, HeldDetail
  <2> QED BY <1>1, <2>1, <2>3, <2>4
<1> QED BY <1>3, <1>4 DEF Read

\* The mode is read by all of it, and never changes.
LEMMA ContentPrimed ==
  ASSUME mode' = mode, Contents(b'), Read(b', ver'), Pictured(b')
  PROVE  ContentInv'
<1>1. Set' <=> Set
  BY DEF Set
<1>2. Sources' = Sources
  BY DEF Sources
<1>3. Contents(b)'
  BY <1>1, <1>2 DEF Contents, Proper, Honest, Newer, Mirror, SnapAt, RowsAt, DetailAt, Holds, HeldList,
                    HeldDetail, DetailVer, AtMost, Moved, UnderlyingKey, Deep, At, Subject
<1>4. Read(b, ver)'
  BY <1>1, <1>2 DEF Read, HeldList, HeldDetail, DetailVer, AtMost
<1>5. Pictured(b)'
  BY <1>1 DEF Pictured, Shaped, RecordIs, Only, Blank, LossView, Losses, Absences
<1> QED BY <1>3, <1>4, <1>5 DEF ContentInv

LEMMA InitContent ==
  Init => ContentInv
<1> SUFFICES ASSUME Init PROVE ContentInv
  OBVIOUS
<1>1. PICK v \in Visitable : mode \in Modes /\ b = Boot(Address(v, v.manual))
  BY DEF Init
<1>2. v.manual \in BOOLEAN
  BY ClientAssumption DEF Visitable, WellFormed
<1>3. AddressFits(Address(v, v.manual))
  BY <1>2, VisitsFit
<1> QED BY <1>1, <1>3, BootContents DEF ContentInv

\* There are as many versions as changes.
LEMMA CountsAreVersions ==
  ASSUME NEW n \in Nat, n <= MaxChanges, NEW V \in [All -> 0 .. n]
  PROVE  V \in [All -> Versions]
<1>1. \A i \in 0 .. n : i \in 0 .. MaxChanges
  BY ClientAssumption
<1>2. \A w \in All : V[w] \in 0 .. n
  OBVIOUS
<1>3. \A w \in All : V[w] \in Versions
  BY ONLY <1>1, <1>2 DEF Versions
<1> QED BY ONLY <1>3, V \in [All -> 0 .. n]

\* The sources change, and their hints travel.
LEMMA HubGrows ==
  ASSUME ClientInv, ClientInv', ContentInv, (\E w \in Sources : Publish(w)) \/ Relay \/ HubRestarts
  PROVE  Grown
<1>1. b' = b /\ Client(b) /\ Contents(b) /\ Read(b, ver) /\ Pictured(b)
  BY DEF ClientInv, BrowserInv, ContentInv, Publish, Relay, HubRestarts
<1>2. ver \in [All -> Versions] /\ ver' \in [All -> Versions]
  <2>1. ver \in [All -> 0 .. budget.changes] /\ budget.changes \in Nat /\ budget.changes <= MaxChanges
    BY DEF ClientInv, Outside
  <2>2. ver' \in [All -> 0 .. budget'.changes] /\ budget'.changes \in Nat /\ budget'.changes <= MaxChanges
    BY DEF ClientInv, Outside
  <2> QED BY ONLY <2>1, <2>2, CountsAreVersions
<1>3. \A w \in All : ver[w] \in Nat
  BY <1>2, VersionsAreNat
<1>4. \A w \in All : ver[w] <= ver'[w]
  <2>1. ASSUME NEW w \in Sources, Publish(w) PROVE \A x \in All : ver[x] <= ver'[x]
    <3>1. ver' = [ver EXCEPT ![w] = @ + 1] /\ w \in All
      BY <2>1 DEF Publish, Sources, All
    <3> QED BY <1>2, <1>3, <3>1
  <2>2. CASE Relay \/ HubRestarts
    <3>1. ver' = ver
      BY <2>2 DEF Relay, HubRestarts
    <3> QED BY <1>3, <3>1
  <2> QED BY <2>1, <2>2
<1>5. Read(b', ver')
  BY <1>1, <1>2, <1>4, ReadGrows DEF Contents, Proper
<1>6. Ahead(b, b')
  BY <1>1, LastsAhead DEF Lasts, SameAddress, SameSnap
<1>7. Redraws(b, b')
  BY <1>1 DEF Redraws, SameScreen, Retains
<1> QED BY <1>1, <1>5, <1>6, <1>7 DEF Grown, Growth

\* A step of the browser alone.
LEMMA StepGrows ==
  ASSUME ContentInv, ver' = ver, Advances(b, b')
  PROVE  Grown
BY AdvancesGrow DEF ContentInv, Grown

\* The stream opens, breaks or delivers.
LEMMA StreamGrows ==
  ASSUME ClientInv, ContentInv, StreamOpens \/ StreamBreaks \/ DeliverEvent
  PROVE  Grown
<1>1. /\ Client(b) /\ Net(b) /\ Contents(b) /\ mode \in Modes /\ wire \in Seq(Hints) /\ ver' = ver
  BY DEF ClientInv, Outside, BrowserInv, ContentInv, StreamOpens, StreamBreaks, DeliverEvent
<1>2. CASE StreamOpens \/ StreamBreaks
  <2>1. b' \in {StreamOpened(b), StreamFailed(b)}
    BY <1>2 DEF StreamOpens, StreamBreaks
  <2>2. Advances(b, b')
    BY <1>1, <2>1, StreamPasses, PassesAdvance
  <2> QED BY <1>1, <2>2, StepGrows
<1>3. CASE DeliverEvent
  <2>1. PICK e : e = Head(wire)
    OBVIOUS
  <2>2. wire # <<>> /\ b' = HandleInvalidation(b, e)
    BY <1>3, <2>1 DEF DeliverEvent
  <2>3. e \in Hints
    BY <1>1, <2>1, <2>2
  <2>4. e.seq \in Nat /\ e.ws \in Sources
    BY <2>3 DEF Hints
  <2>5. Advances(b, b')
    BY <1>1, <2>2, <2>4, InvalidationPasses, PassesAdvance
  <2> QED BY <1>1, <2>5, StepGrows
<1> QED BY <1>2, <1>3

\* An answer is received, or a hashchange dispatched.
LEMMA BrowserGrows ==
  ASSUME ClientInv, LightInv, ContentInv, (\E q \in b.reqs : ReceiveAnswer(q)) \/ HashChange
  PROVE  Grown
<1>1. BrowserInv(b) /\ Light(b) /\ Contents(b) /\ mode \in Modes /\ ver' = ver
  BY DEF ClientInv, LightInv, Outside, ContentInv, ReceiveAnswer, HashChange
<1>2. ASSUME NEW q \in b.reqs, ReceiveAnswer(q) PROVE Advances(b, b')
  <2>1. q.ans # None /\ b' = Arrives(b, q)
    BY <1>2 DEF ReceiveAnswer
  <2> QED BY <1>1, <2>1, ArrivesAdvances, OrderlyAdvances
<1>3. ASSUME HashChange PROVE Advances(b, b')
  <2>1. b' = RouteChanged(Handled(b))
    BY <1>3 DEF HashChange, Handled
  <2> QED BY <1>1, <2>1, RouteAdvances
<1> QED BY <1>1, <1>2, <1>3, StepGrows

\* A request is answered from its source as it now is.
LEMMA ServerGrows ==
  ASSUME ClientInv, ContentInv, NEW q \in b.reqs, ServerAnswers(q)
  PROVE  Grown
<1>1. /\ Client(b) /\ Net(b) /\ q \in RequestRecord /\ RequestOK(q) /\ q.ans = None
      /\ Contents(b) /\ Read(b, ver) /\ Pictured(b) /\ ver' = ver
  BY DEF ClientInv, BrowserInv, Client, Browser, Net, ContentInv, ServerAnswers
<1>2. PICK out \in Answers(q.kind), run \in Runs \cup {None} :
        /\ IF out = "other" THEN run \in Runs \ {q.run} ELSE run = q.run
        /\ b' = [b EXCEPT !.reqs = (@ \ {q}) \cup
                  {[q EXCEPT !.ans = [out |-> out, run |-> run, ver |-> ver[q.ws]]]}]
  BY DEF ServerAnswers
<1> DEFINE ans == [out |-> out, run |-> run, ver |-> ver[q.ws]]
           p == [q EXCEPT !.ans = ans]
<1>3. out \in Outcomes
  BY DEF Answers, RunFailures, Outcomes, FetchFailures, Absences
<1>4. ver \in [All -> Versions] /\ ver \in [All -> Nat]
  <2>1. ver \in [All -> 0 .. budget.changes] /\ budget.changes \in Nat /\ budget.changes <= MaxChanges
    BY DEF ClientInv, Outside
  <2>2. ver \in [All -> Versions]
    BY ONLY <2>1, CountsAreVersions
  <2> QED BY <2>2, VersionsAreNat
<1>5. /\ ans \in AnswerRecord /\ ans.ver = ver[q.ws]
      /\ ans.out = "other" <=> ans.run # q.run
  <2>1. q.ws \in All /\ run \in Maybe(Runs)
    BY <1>1, <1>2 DEF RequestRecord, Maybe
  <2> QED BY <1>2, <1>3, <1>4, <2>1 DEF AnswerRecord
<1>6. b' = [b EXCEPT !.reqs = (@ \ {q}) \cup {p}]
  BY <1>2
<1> HIDE DEF ans
<1>7. /\ p \in RequestRecord /\ p.kind = q.kind /\ p.ws = q.ws /\ p.run = q.run
      /\ p.fresh = q.fresh /\ p.ans = ans
  BY <1>1, <1>5 DEF RequestRecord, Maybe
<1> HIDE DEF p
<1>8. Contents(b') /\ Read(b', ver) /\ SameScreen(b, b') /\ SameHeld(b, b') /\ b'.hash = b.hash
  BY <1>1, <1>4, <1>5, <1>6, <1>7, AnsweredAdvances
<1>9. Pictured(b')
  BY <1>1, <1>8 DEF SameScreen, Pictured, RecordIs
<1>10. Ahead(b, b')
  <2>1. Ahead(b, b)
    BY <1>1, LastsAhead DEF Lasts, SameAddress, SameSnap
  <2> QED BY <1>8, <2>1 DEF SameHeld, Ahead
<1> QED BY <1>1, <1>8, <1>9, <1>10, LastsRetains DEF Grown, Growth, Redraws

\* The operator goes to another address, or moves the pane.
LEMMA GoToGrows ==
  ASSUME NEW s, BrowserInv(s), ContentInv, Passes(b, s), SameScreen(b, s), SameHeld(b, s),
         Client(b), ~s.pending, NEW r, AddressFits(r), ver' = ver, b' = GoTo(s, r)
  PROVE  Grown
<1>1. Contents(s) /\ Read(s, ver)
  BY ContentsKept DEF ContentInv, Passes, Sheds
<1>2. Advances(s, b') /\ SameScreen(s, b') /\ SameHeld(s, b')
  BY <1>1, GoToAdvances
<1>3. Contents(b') /\ Read(b', ver)
  BY <1>1, <1>2 DEF Advances
<1>4. SameScreen(b, b') /\ SameHeld(b, b')
  BY <1>2 DEF SameScreen, SameHeld
<1>5. Pictured(b')
  BY <1>4 DEF ContentInv, SameScreen, Pictured, RecordIs
<1>6. Ahead(b, b')
  <2>1. Ahead(b, b)
    BY LastsAhead DEF Lasts, SameAddress, SameSnap
  <2> QED BY <1>4, <2>1 DEF SameHeld, Ahead
<1> QED BY <1>3, <1>4, <1>5, <1>6, LastsRetains DEF Grown, Growth, Redraws

LEMMA ActGrows ==
  ASSUME ClientInv, ContentInv,
         \/ \E v \in Visitable : Navigate(v)
         \/ ToggleManual \/ Refetch \/ Retry
         \/ \E w \in Sources : RetrySource(w)
  PROVE  Grown
<1>1. /\ BrowserInv(b) /\ Client(b) /\ Net(b) /\ AddressFits(b.hash) /\ mode \in Modes
      /\ b.hash.manual \in BOOLEAN /\ Contents(b)
  BY DEF ClientInv, Outside, BrowserInv, Client, AddressFits, WellFormed, ContentInv
<1>2. Passes(b, b) /\ SameScreen(b, b) /\ SameHeld(b, b)
  <2>1. SameView(b, b) /\ SameHeld(b, b)
    BY DEF SameView, SameNet, SameScreen, SameHeld
  <2> QED BY <1>1, <2>1, SameViewPasses
<1>3. ASSUME Operator(RefreshSingleFlight(b)) PROVE Grown
  <2>1. b' = RefreshSingleFlight(b) /\ ver' = ver
    BY <1>3 DEF Operator
  <2>2. Advances(b, b')
    BY <1>1, <2>1, SingleFlightPasses, PassesAdvance
  <2> QED BY <2>1, <2>2, StepGrows
<1>4. ASSUME NEW v \in Visitable, Navigate(v) PROVE Grown
  <2> DEFINE r == Address(v, b.hash.manual)
  <2>1. AddressFits(r)
    BY <1>1, VisitsFit
  <2>2. ~b.pending /\ b' = GoTo(b, r) /\ ver' = ver
    BY <1>4 DEF Navigate, Operator
  <2> HIDE DEF r
  <2> QED BY <1>1, <1>2, <2>1, <2>2, GoToGrows
<1>5. ASSUME ToggleManual PROVE Grown
  <2> DEFINE r == [Canonical(b.hash) EXCEPT !.manual = ~@]
  <2>1. AddressFits(r)
    BY <1>1, AddressesFit
  <2>2. ~b.pending /\ b' = GoTo(b, r) /\ ver' = ver
    BY <1>5 DEF ToggleManual, Operator
  <2> HIDE DEF r
  <2> QED BY <1>1, <1>2, <2>1, <2>2, GoToGrows
<1>6. ASSUME Refetch PROVE Grown
  BY <1>3, <1>6 DEF Refetch
<1>7. ASSUME Retry PROVE Grown
  <2> DEFINE r == [Canonical(b.hash) EXCEPT !.follow = TRUE]
             f == [b EXCEPT !.force = TRUE]
  <2>1. Operator(IF b.hash.run # None /\ b.hash # r THEN GoTo(f, r) ELSE RefreshSingleFlight(b))
    BY <1>7 DEF Retry
  <2>2. b.hash.run # None => AddressFits(r)
    BY <1>1, AddressesFit
  <2>3. Client(f) /\ SameView(b, f) /\ SameHeld(b, f)
    BY <1>1 DEF Client, Browser, SameView, SameNet, SameScreen, SameHeld
  <2> HIDE DEF r, f
  <2>4. BrowserInv(f) /\ Passes(b, f) /\ SameScreen(b, f)
    BY <1>1, <2>3, SameViewInv, SameViewPasses
  <2>5. CASE b.hash.run # None /\ b.hash # r
    <3>1. ~f.pending /\ b' = GoTo(f, r) /\ ver' = ver
      BY <2>1, <2>3, <2>5 DEF Operator, SameView
    <3> QED BY <1>1, <2>2, <2>3, <2>4, <2>5, <3>1, GoToGrows
  <2>6. CASE ~(b.hash.run # None /\ b.hash # r)
    BY <1>3, <2>1, <2>6
  <2> QED BY <2>5, <2>6
<1>8. ASSUME NEW w \in Sources, RetrySource(w) PROVE Grown
  <2>1. /\ w \in b.painted.stale /\ ver' = ver
        /\ b' = RefetchWorkspaceList(b, {w}, "nothing", None)
    BY <1>8 DEF RetrySource, Operator
  <2>2. w \in Workspaces
    BY <1>1, <2>1 DEF Client, Browser, ViewType
  <2>3. Set
    BY <1>8, <2>2, ClientAssumption DEF Sources, Set
  <2>4. /\ {w} \in SUBSET Workspaces /\ {w} # {} /\ None \in Maybe(Runs)
        /\ "nothing" \in {"land", "overview", "deep", "resolve", "nothing"}
    BY <2>2 DEF Maybe
  <2>5. Passes(b, b') /\ SameScreen(b, b')
    BY <1>1, <2>1, <2>3, <2>4, RefetchPasses
  <2> QED BY <1>1, <2>1, <2>5, PassesAdvance, StepGrows
<1> QED BY <1>4, <1>5, <1>6, <1>7, <1>8

LEMMA ModeStays ==
  [Next]_vars => mode' = mode
BY DEF vars, Next, Publish, Relay, HubRestarts, StreamOpens, StreamBreaks, DeliverEvent, ServerAnswers,
       ReceiveAnswer, HashChange, Navigate, ToggleManual, Refetch, Retry, RetrySource, Operator

LEMMA NextContent ==
  ClientInv /\ LightInv /\ ContentInv /\ [Next]_vars => (ClientInv /\ LightInv /\ ContentInv)' /\ Grown
<1> SUFFICES ASSUME ClientInv, LightInv, ContentInv, [Next]_vars
             PROVE  (ClientInv /\ LightInv /\ ContentInv)' /\ Grown
  OBVIOUS
<1>1. ClientInv' /\ Light(b')
  BY NextInv DEF Held, Drains, LightInv
<1>2. LightInv'
  BY <1>1 DEF LightInv, Light, ResolveAsked, ResolveWaits
<1>3. CASE UNCHANGED vars
  <2>1. mode' = mode /\ b' = b /\ ver' = ver /\ Client(b)
    BY <1>3 DEF vars, ClientInv, BrowserInv
  <2>2. Ahead(b, b') /\ SameScreen(b, b') /\ Lasts(b, b')
    BY <2>1, LastsAhead DEF Lasts, SameAddress, SameSnap, SameScreen
  <2>3. Grown
    BY <2>1, <2>2, LastsRetains DEF ContentInv, Grown, Growth, Redraws
  <2>4. ContentInv'
    BY <2>1, <2>3, ContentPrimed DEF Grown
  <2> QED BY <1>1, <1>2, <2>3, <2>4
<1>4. CASE Next
  <2>1. ASSUME (\E w \in Sources : Publish(w)) \/ Relay \/ HubRestarts PROVE Grown
    BY <1>1, <2>1, HubGrows
  <2>2. ASSUME StreamOpens \/ StreamBreaks \/ DeliverEvent PROVE Grown
    BY <2>2, StreamGrows
  <2>3. ASSUME (\E q \in b.reqs : ReceiveAnswer(q)) \/ HashChange PROVE Grown
    BY <2>3, BrowserGrows
  <2>4. ASSUME NEW q \in b.reqs, ServerAnswers(q) PROVE Grown
    BY <2>4, ServerGrows
  <2>5. ASSUME \/ \E v \in Visitable : Navigate(v)
               \/ ToggleManual \/ Refetch \/ Retry
               \/ \E w \in Sources : RetrySource(w)
        PROVE  Grown
    BY <2>5, ActGrows
  <2>6. Grown
    BY <1>4, <2>1, <2>2, <2>3, <2>4, <2>5 DEF Next
  <2>7. mode' = mode
    BY ModeStays
  <2>8. ContentInv'
    BY <2>6, <2>7, ContentPrimed DEF Grown
  <2> QED BY <1>1, <1>2, <2>6, <2>8
<1> QED BY <1>3, <1>4

-----------------------------------------------------------------------------
(***************************************************************************)
(* Theorems.                                                               *)
(***************************************************************************)
\* What is shown of what is held is as old as what is held.
LEMMA GrowthShows ==
  ASSUME NEW s, Client(s), Contents(s), Pictured(s), NEW t, Client(t), Contents(t), Growth(s, t),
         t.painted.kind = s.painted.kind, t.painted.ws = s.painted.ws, t.painted.run = s.painted.run,
         ~t.pending, NEW w \in Shown(s.painted),
         s.painted.ver[w] # None, s.painted.ver[w] = HeldVer(s, w)
  PROVE  t.painted.ver[w] # None /\ t.painted.ver[w] >= s.painted.ver[w]
<1>1. w \in All
  BY DEF Client, Browser, ViewType, Shown, All
<1>2. s.painted.ver[w] \in Nat
  BY <1>1, VersionsAreNat DEF Client, Browser, ViewType
<1>3. s.painted.kind \notin {"blank", "failure"}
  BY <1>1, BlankVer DEF Pictured, Shaped
<1>4. s.painted.kind \in {"overview", "runs", "run"}
  BY <1>3 DEF Client, Browser, ViewType
<1>5. ~Failed(t) /\ ~Emptied(t) /\ ~Moved(t)
  BY <1>3, BlankIsCalm DEF Failed, Emptied, Moved
<1>6. Ahead(s, t) /\ (SameScreen(s, t) \/ Painted(t))
  BY <1>5 DEF Growth, Redraws, Astray
<1>7. CASE SameScreen(s, t)
  BY <1>2, <1>7 DEF SameScreen
<1>8. CASE Painted(t)
  <2>1. Fits(t) /\ (Truthful(t) \/ Unread(t))
    BY <1>8 DEF Painted
  <2>2. t.hash.ws = s.painted.ws /\ t.hash.run = s.painted.run
    BY <2>1 DEF Fits, Subject
  <2>3. t.hash.view \in {"workspaces", "runs", "detail", "unit", "invalid"}
    BY DEF Client, Browser, AddressType
  <2>4. CASE s.painted.kind = "run"
    <3>1. Deep(t.hash)
      BY <2>1, <2>3, <2>4 DEF Fits, KindsAt, Deep
    <3>2. t.detail # None /\ t.painted.ver = Only(t.detail.ws, t.detail.ver)
      BY <2>1, <2>4, <3>1 DEF Truthful, RunTrue, Unread, Deep
    <3>3. w = s.painted.ws
      BY <2>4 DEF Shown
    <3>4. t.detail.ws = w
      BY <1>5, <2>2, <3>1, <3>2, <3>3 DEF Contents, DetailAt, At, Subject
    <3>5. s.detail # None /\ s.detail.ws = w /\ s.painted.ver[w] = s.detail.ver
      BY <2>4, <3>3 DEF HeldVer, At
    <3>6. t.painted.ver[w] = t.detail.ver
      BY <1>1, <3>2, <3>4 DEF Only
    <3>7. t.detail.ver \in Nat /\ t.detail.ver # None /\ s.detail.ver \in Nat /\ s.detail.ver # None
      BY <3>2, <3>5, HeldTypes
    <3>8. s.detail.ver <= t.detail.ver
      <4>1. CASE Set
        <5>1. w \in Workspaces /\ s.snap[w].detail = s.detail /\ t.snap[w].detail = t.detail
          BY <3>2, <3>4, <3>5, <4>1 DEF Contents, Mirror
        <5>2. AtMost(s.detail.ver, t.detail.ver)
          BY <1>6, <3>2, <3>5, <5>1 DEF Ahead, DetailVer
        <5> QED BY <3>7, <5>2 DEF AtMost
      <4>2. CASE ~Set
        BY <1>6, <3>2, <3>5, <4>2 DEF Ahead
      <4> QED BY <4>1, <4>2
    <3> QED BY <3>5, <3>6, <3>7, <3>8
  <2>5. CASE s.painted.kind = "runs"
    <3>1. t.hash.view = "runs"
      BY <2>1, <2>3, <2>5 DEF Fits, KindsAt, Deep
    <3>2. w = s.painted.ws /\ s.painted.ver[w] = HeldList(s, w) /\ (Set <=> w # None)
      BY <2>5 DEF Shown, HeldVer, Pictured, Shaped
    <3>3. Set => w \in Workspaces
      BY <1>1, <3>2 DEF All
    <3>4. AtMost(HeldList(s, w), t.list)
      <4>1. CASE Set
        <5>1. t.list = t.snap[w].list
          BY <1>5, <2>2, <3>1, <3>2, <4>1 DEF Contents, RowsAt
        <5>2. w \in Workspaces /\ HeldList(s, w) = s.snap[w].list
          BY <3>2, <3>3, <4>1 DEF HeldList
        <5>3. AtMost(s.snap[w].list, t.snap[w].list)
          BY <1>6, <5>2 DEF Ahead
        <5> QED BY <5>1, <5>2, <5>3
      <4>2. CASE ~Set
        BY <1>6, <4>2 DEF Ahead, HeldList
      <4> QED BY <4>1, <4>2
    <3>5. t.list # None /\ HeldList(s, w) <= t.list
      BY <3>2, <3>4 DEF AtMost
    <3>6. t.painted.ver = Only(t.hash.ws, t.list)
      BY <2>1, <2>5, <3>5 DEF Truthful, RunsTrue, Unread
    <3>7. t.painted.ver[w] = t.list
      BY <1>1, <2>2, <3>2, <3>6 DEF Only
    <3>8. t.list \in Nat
      BY <3>5, HeldTypes, VersionsAreNat
    <3> QED BY <1>2, <3>2, <3>5, <3>7, <3>8
  <2>6. CASE s.painted.kind = "overview"
    <3>1. Set /\ w \in Workspaces /\ w # None
      BY <2>6, ClientAssumption DEF Shown, Pictured, Shaped
    <3>2. s.painted.ver[w] = s.snap[w].list
      BY <2>6, <3>1 DEF HeldVer, HeldList
    <3>3. t.hash.view = "workspaces"
      BY <2>1, <2>3, <2>6 DEF Fits, KindsAt, Deep
    <3>4. t.painted.ver = ListsOf(t)
      BY <2>1, <2>6, <3>3 DEF Truthful, OverviewTrue, Unread
    <3>5. t.painted.ver[w] = t.snap[w].list
      BY <1>1, <3>1, <3>4 DEF ListsOf
    <3>6. AtMost(s.snap[w].list, t.snap[w].list)
      BY <1>6, <3>1 DEF Ahead
    <3>7. t.snap[w].list # None => t.snap[w].list \in Nat
      BY <3>1, HeldTypes, VersionsAreNat
    <3> QED BY <1>2, <3>2, <3>5, <3>6, <3>7 DEF AtMost
  <2> QED BY <1>4, <2>4, <2>5, <2>6
<1> QED BY <1>6, <1>7, <1>8

\* What is held is in order in every state, and of no version to come.
THEOREM ContentInvariant ==
  Spec => []ContentInv
<1>1. Init => ClientInv /\ LightInv /\ ContentInv
  BY InitInv, InitContent DEF LightInv
<1>2. ClientInv /\ LightInv /\ ContentInv /\ [Next]_vars => (ClientInv /\ LightInv /\ ContentInv)'
  BY NextContent
<1> QED BY <1>1, <1>2, PTL DEF Spec

\* A view of what is held is never repainted from an older snapshot of its
\* subject: not by a late answer, a failure, a replayed refresh, a replayed
\* failure record, a navigation away and back, or a source read again.
THEOREM VersionsNeverRegressCorrect ==
  Spec => VersionsNeverRegress
<1> DEFINE Step ==
      /\ b'.painted.kind = b.painted.kind /\ b'.painted.ws = b.painted.ws
      /\ b'.painted.run = b.painted.run /\ ~b'.pending
      => \A w \in Shown(b.painted) :
            b.painted.ver[w] # None /\ b.painted.ver[w] = HeldVer(b, w) =>
                b'.painted.ver[w] # None /\ b'.painted.ver[w] >= b.painted.ver[w]
<1>1. ClientInv /\ LightInv /\ ContentInv /\ [Next]_vars => Step
  <2> SUFFICES ASSUME ClientInv, LightInv, ContentInv, [Next]_vars PROVE Step
    OBVIOUS
  <2>1. Client(b) /\ Contents(b) /\ Pictured(b)
    BY DEF ClientInv, BrowserInv, ContentInv
  <2>2. ClientInv' /\ Contents(b') /\ Growth(b, b')
    BY NextContent DEF Grown
  <2>3. Client(b')
    BY <2>2, ModeStays DEF ClientInv, BrowserInv, Client, AddressFits, Set
  <2> QED BY <2>1, <2>2, <2>3, GrowthShows
<1>2. ClientInv /\ LightInv /\ ContentInv /\ [Next]_vars
        => (ClientInv /\ LightInv /\ ContentInv)' /\ [Step]_vars
  BY <1>1, NextContent
<1>3. Init => ClientInv /\ LightInv /\ ContentInv
  BY InitInv, InitContent DEF LightInv
<1> QED BY <1>2, <1>3, PTL DEF Spec, VersionsNeverRegress
=============================================================================
