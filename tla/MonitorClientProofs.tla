------------------------ MODULE MonitorClientProofs ------------------------
(***************************************************************************)
(* Proofs about MonitorClient: the browser state is well typed, one        *)
(* refresh is in flight at a time and a superseded one is run again, no    *)
(* late answer is used, the record of a failure view is the view on the    *)
(* screen, and a client that has come to rest shows the address it is at   *)
(* and says a run is not projected only where that was said of it.         *)
(***************************************************************************)
EXTENDS MonitorClient, FiniteSetTheorems, TLAPS

-----------------------------------------------------------------------------
(***************************************************************************)
(* The inductive invariant, as predicates of a browser state.              *)
(***************************************************************************)
Failures == FetchFailures \cup {"render"}
Outcomes == {"ok", "other", "nounit", "hostile", "defect"} \cup FetchFailures
AnswerRecord == [out: Outcomes, run: Maybe(Runs), ver: Versions]
RequestRecord ==
    [kind: {"list", "detail", "runs", "resolve"}, ws: All, run: Maybe(Runs), id: Nat,
     fresh: BOOLEAN, ans: Maybe(AnswerRecord)]
WaitRecord ==
    [on: SUBSET (Workspaces \X Nat), then: {"land", "overview", "deep", "resolve", "nothing"},
     run: Maybe(Runs), fresh: BOOLEAN]
SnapRecord == [list: VerOrNone, listErr: BOOLEAN, detail: DetailType, detailErr: BOOLEAN]
Browser ==
    [hash: AddressType, pending: BOOLEAN, routed: All \X Maybe(Runs), painted: ViewType,
     lastPaint: Maybe(PaintRecords), list: VerOrNone, detail: DetailType,
     detailId: Maybe(Runs), detailWs: All, conflict: BOOLEAN, flight: BOOLEAN,
     again: BOOLEAN, force: BOOLEAN, manual: BOOLEAN, base: AddressType,
     snap: [Workspaces -> SnapRecord], dead: Maybe([run: Runs, failure: Losses]),
     resTried: Maybe(Runs), resBusy: BOOLEAN, lastEventId: Maybe(Nat),
     stream: {"connecting", "connected", "down"}, reqs: SUBSET RequestRecord,
     waits: SUBSET WaitRecord]

\* An address of the launch mode the page runs in.
AddressFits(r) ==
    /\ WellFormed(r)
    /\ r.view # "invalid" => (Set <=> (r.ws # None \/ r.view = "workspaces"))

Client(s) == s \in Browser /\ AddressFits(s.hash)

\* What each kind of request asks for, and what it is answered.
RequestOK(q) ==
    /\ q.kind = "list" => Set /\ q.ws \in Workspaces
    /\ q.kind = "detail" => q.run \in Runs /\ (Set => q.ws \in Workspaces)
    /\ q.kind = "runs" => q.run = None /\ q.ws = None /\ ~Set
    /\ q.kind = "resolve" => q.run \in Runs
    /\ q.ans # None /\ q.kind = "detail" => q.ans.run \in Runs
    /\ q.ans # None /\ q.kind # "detail" => q.ans.out \in {"ok", "failed"}

\* Every list a callback waits for is on its way, and for that callback only.
Listed(s, p) == \E q \in s.reqs : q.kind = "list" /\ p = <<q.ws, q.id>>
Net(s) ==
    /\ IsFiniteSet(s.reqs)
    /\ \A q \in s.reqs : RequestOK(q)
    /\ \A x \in s.waits : x.on # {}
    /\ \A x \in s.waits : \A p \in x.on : Listed(s, p)
    /\ \A x, y \in s.waits : x.on \cap y.on # {} => x = y

\* SingleFlight and SupersededIsReplayed, of any browser state.
AwaitedIn(s) ==
    {q \in s.reqs : q.kind \in {"detail", "runs"}}
    \cup {x \in s.waits : x.then \in {"land", "overview"}}
Flying(s) ==
    /\ s.flight <=> AwaitedIn(s) # {}
    /\ \A x, y \in AwaitedIn(s) : x = y
    /\ s.again => s.flight
    /\ \A x \in AwaitedIn(s) : x.fresh \/ s.again

\* The address has moved, by more than the pane, and hashchange is to come.
Moved(s) == s.pending /\ s.base # UnderlyingKey(s.hash)

\* An answer that will be used is about the address, unless that has moved.
Aimed(s) ==
    /\ \A q \in s.reqs : q.fresh /\ q.kind \in {"detail", "runs"} =>
         \/ Moved(s)
         \/ /\ <<q.ws, q.run>> = Subject(s.hash)
            /\ q.kind = "detail" => Deep(s.hash)
            /\ q.kind = "runs" => s.hash.view = "runs"
    /\ \A x \in s.waits : x.fresh /\ x.then = "overview" => Moved(s) \/ s.hash.view = "workspaces"
    /\ \A q \in s.reqs : q.fresh /\ q.kind = "resolve" => Moved(s) \/ s.hash.run # None

\* An address that has been handled is the one the client works for.
Addressed(s) ==
    ~s.pending => /\ s.routed = Subject(s.hash) /\ s.base = UnderlyingKey(s.hash)
                  /\ s.manual = s.hash.manual

\* The record of a failure view that says the run is not projected.
Lossy(p) ==
    \/ p.by = "follow" /\ p.cls \in LossClasses
    \/ p.by = "unavailable" /\ p.failure \in Absences
Calm(s) == s.lastPaint = None \/ ~Lossy(s.lastPaint)
Backed(p) ==
    p.by = "follow" /\ p.cls \in LossClasses => p.run # None /\ p.failure \in Grounds(p.cls)

\* t records at most the loss that failure is.
Cites(t, failure) == ~Calm(t) => failure \in Absences /\ t.lastPaint.failure = failure

\* LastPaintDescribesScreen, and what it records of a loss.
Recorded(s) ==
    /\ s.lastPaint # None <=> s.painted.kind = "failure"
    /\ s.lastPaint # None => Backed(s.lastPaint)
    /\ s.painted.cls \in LossClasses =>
         ~Calm(s) /\ s.painted.run # None /\ s.lastPaint.failure \in Grounds(s.painted.cls)

\* The view on the screen is one of the address, and so is the record that a
\* move of the pane would replay.
KindsAt(r) ==
    CASE r.view = "workspaces" -> {"overview"}
      [] r.view = "runs" -> {"runs", "failure"}
      [] r.view = "invalid" -> {"failure"}
      [] Deep(r) -> {"run", "failure"}
Fits(s) ==
    /\ s.painted.kind \in KindsAt(s.hash)
    /\ <<s.painted.ws, s.painted.run>> = Subject(s.hash)
    /\ s.lastPaint # None /\ s.lastPaint.by = "follow" =>
         <<s.lastPaint.ws, s.lastPaint.run>> = Subject(s.hash)
PaneFits(s) == s.painted.pane = s.hash.manual

\* Something is on its way that will paint the address when it lands.
ListComing(s) ==
    s.hash.view = "runs" /\ \E q \in s.reqs : q.kind = "list" /\ q.fresh /\ q.ws = s.hash.ws
Busy(s) ==
    \/ s.again
    \/ \E q \in s.reqs : q.kind \in {"detail", "runs"}
    \/ \E x \in s.waits : x.then = "overview"
    \/ ListComing(s)

\* The screen is about the address, or will be.
ScreenKept(s) ==
    /\ Fits(s) \/ Busy(s) \/ Moved(s)
    /\ PaneFits(s) \/ Busy(s) \/ s.pending

\* The client at s has no reason to be right about a loss: it names no run,
\* records no loss, or will paint the address again.
Excused(s) == s.hash.run = None \/ Calm(s) \/ Busy(s) \/ Moved(s)

\* What is recorded of a loss is true of the address, or will be repainted; L
\* holds the losses that are true.
LossKept(s, L) == Excused(s) \/ <<s.hash.ws, s.hash.run, s.lastPaint.failure>> \in L

\* t records a loss only if s does, by the same failure.
SameLoss(s, t) == ~Calm(t) => ~Calm(s) /\ t.lastPaint.failure = s.lastPaint.failure

\* And of the same run.
NoNewLoss(s, t) ==
    ~Excused(t) =>
        /\ ~Excused(s) /\ Subject(t.hash) = Subject(s.hash)
        /\ t.lastPaint.failure = s.lastPaint.failure

BrowserInv(s) ==
    /\ Client(s)
    /\ Net(s)
    /\ Flying(s)
    /\ Aimed(s)
    /\ Addressed(s)
    /\ Recorded(s)
    /\ ScreenKept(s)

-----------------------------------------------------------------------------
(***************************************************************************)
(* What a painting leaves alone.                                           *)
(***************************************************************************)
SameRest(s, t) ==
    /\ t.hash = s.hash /\ t.pending = s.pending /\ t.routed = s.routed
    /\ t.base = s.base /\ t.manual = s.manual /\ t.force = s.force
    /\ t.flight = s.flight /\ t.again = s.again
    /\ t.lastEventId = s.lastEventId /\ t.stream = s.stream
SameReqs(s, t) == t.reqs = s.reqs /\ t.waits = s.waits
SameNet(s, t) ==
    t.reqs = s.reqs /\ t.waits = s.waits /\ t.resBusy = s.resBusy /\ t.pending = s.pending

\* A painting of the address, which may ask for an inventory besides.
Draws(s, t) ==
    /\ Client(t) /\ SameRest(s, t) /\ Recorded(t) /\ PaneFits(t)
DrawsFailure(s, t) ==
    /\ Draws(s, t) /\ t.painted.kind = "failure"
    /\ <<t.painted.ws, t.painted.run>> = Subject(t.hash)
    /\ t.lastPaint.by = "follow" => <<t.lastPaint.ws, t.lastPaint.run>> = Subject(t.hash)

LEMMA ReplaceFacts ==
  ASSUME NEW s, s \in Browser, NEW v, v \in ViewType
  PROVE  LET t == ReplaceContent(s, v) IN
         /\ t \in Browser /\ SameRest(s, t) /\ SameNet(s, t) /\ t.lastPaint = s.lastPaint
         /\ t.painted.kind = v.kind /\ t.painted.ws = v.ws /\ t.painted.run = v.run
         /\ t.painted.cls = v.cls /\ PaneFits(t)
<1>1. Disclosed(s) \subseteq Workspaces
  BY DEF Disclosed, Browser, AddressType, All
<1> DEFINE w == [v EXCEPT !.pane = s.hash.manual, !.stale = @ \cup Disclosed(s)]
<1>2. w \in ViewType
  BY <1>1 DEF Browser, ViewType, AddressType
<1>3. /\ w.kind = v.kind /\ w.ws = v.ws /\ w.run = v.run /\ w.cls = v.cls
      /\ w.pane = s.hash.manual
  BY DEF ViewType
<1> HIDE DEF w
<1>4. [s EXCEPT !.painted = w] \in Browser
  BY <1>2 DEF Browser
<1>5. LET t == [s EXCEPT !.painted = w] IN
      /\ SameRest(s, t) /\ SameNet(s, t) /\ t.lastPaint = s.lastPaint
      /\ t.painted = w /\ t.hash = s.hash
  BY DEF Browser, SameRest, SameNet
<1>6. ReplaceContent(s, v) = [s EXCEPT !.painted = w]
  BY DEF ReplaceContent, w
<1> QED BY <1>3, <1>4, <1>5, <1>6 DEF PaneFits

LEMMA BlankType ==
  Blank \in ViewType
BY DEF Blank, ViewType, All, Maybe, VerOrNone

LEMMA FailureViewFacts ==
  ASSUME NEW w \in All, NEW run \in Maybe(Runs), NEW cls \in Maybe(ViewClasses),
         NEW offer \in BOOLEAN
  PROVE  LET v == FailureView(w, run, cls, offer) IN
         v \in ViewType /\ v.kind = "failure" /\ v.ws = w /\ v.run = run /\ v.cls = cls
BY BlankType DEF FailureView, ViewType

LEMMA OfferedType ==
  ASSUME NEW s, NEW w, NEW run
  PROVE  Offered(s, w, run) \in BOOLEAN
BY DEF Offered

\* What a view of a loss may rest on is an answer that says the run is absent.
LEMMA GroundsTell ==
    Grounds("degraded") = Losses /\ \A cls : Grounds(cls) \subseteq Absences
BY DEF Grounds, Absences, Losses

\* One painting of a failure view, with its record.
LEMMA FailurePainted ==
  ASSUME NEW s, Client(s), NEW p \in PaintRecords,
         NEW w \in All, NEW run \in Maybe(Runs), NEW cls \in Maybe(ViewClasses),
         NEW offer \in BOOLEAN, Backed(p),
         cls \in LossClasses => Lossy(p) /\ run # None /\ p.failure \in Grounds(cls)
  PROVE  LET t == ReplaceContent([s EXCEPT !.lastPaint = p], FailureView(w, run, cls, offer)) IN
         /\ Draws(s, t) /\ SameNet(s, t)
         /\ t.painted.kind = "failure" /\ t.painted.ws = w /\ t.painted.run = run
         /\ t.lastPaint = p
<1> DEFINE u == [s EXCEPT !.lastPaint = p]
           v == FailureView(w, run, cls, offer)
           t == ReplaceContent(u, v)
<1>1. u \in Browser /\ SameRest(s, u) /\ SameNet(s, u) /\ u.lastPaint = p
  BY DEF Client, Browser, Maybe, SameRest, SameNet
<1>2. v \in ViewType /\ v.kind = "failure" /\ v.ws = w /\ v.run = run /\ v.cls = cls
  BY FailureViewFacts
<1> HIDE DEF u, v
<1>3. /\ t \in Browser /\ SameRest(u, t) /\ SameNet(u, t) /\ t.lastPaint = u.lastPaint
      /\ t.painted.kind = v.kind /\ t.painted.ws = v.ws /\ t.painted.run = v.run
      /\ t.painted.cls = v.cls /\ PaneFits(t)
  BY <1>1, <1>2, ReplaceFacts
<1> HIDE DEF t
<1>4. SameRest(s, t) /\ SameNet(s, t) /\ AddressFits(t.hash)
  BY <1>1, <1>3 DEF SameRest, SameNet, Client
<1>5. Recorded(t)
  BY <1>1, <1>2, <1>3, ClientAssumption DEF Recorded, Calm
<1> QED BY <1>1, <1>2, <1>3, <1>4, <1>5 DEF Draws, Client, u, v, t

LEMMA FollowErrorPainted ==
  ASSUME NEW s, Client(s), NEW w \in All, NEW run \in Maybe(Runs), NEW cls \in Maybe(ViewClasses),
         NEW failure \in Maybe(Failures), cls \in LossClasses => run # None /\ failure \in Grounds(cls)
  PROVE  LET t == RenderFollowErrorView(s, w, run, cls, failure) IN
         /\ Draws(s, t) /\ SameNet(s, t)
         /\ t.painted.kind = "failure"
         /\ ~Calm(t) => cls \in LossClasses /\ failure \in Grounds(cls)
         /\ t.lastPaint.failure = failure
         /\ <<w, run>> = Subject(s.hash) => DrawsFailure(s, t)
<1> DEFINE p == [by |-> "follow", ws |-> w, run |-> run, cls |-> cls, failure |-> failure]
           offer == Offered(s, w, run)
           u == [s EXCEPT !.lastPaint = p]
           t == ReplaceContent(u, FailureView(w, run, cls, offer))
<1>1. p \in PaintRecords /\ p.ws = w /\ p.run = run /\ p.failure = failure /\ offer \in BOOLEAN
  BY OfferedType DEF PaintRecords, Failures, FetchFailures, Absences, Losses, Maybe
<1>0. Backed(p) /\ (Lossy(p) <=> cls \in LossClasses)
  BY DEF Backed, Lossy
<1> HIDE DEF p, offer, u
<1>2. /\ Draws(s, t) /\ SameNet(s, t)
      /\ t.painted.kind = "failure" /\ t.painted.ws = w /\ t.painted.run = run /\ t.lastPaint = p
  BY <1>0, <1>1, FailurePainted DEF u
<1> HIDE DEF t
<1>3. /\ t.hash = s.hash /\ (~Calm(t) => cls \in LossClasses /\ failure \in Grounds(cls))
      /\ t.lastPaint.failure = failure
  BY <1>0, <1>1, <1>2 DEF Draws, SameRest, Calm
<1>4. <<w, run>> = Subject(s.hash) => DrawsFailure(s, t)
  BY <1>1, <1>2, <1>3 DEF DrawsFailure
<1>5. RenderFollowErrorView(s, w, run, cls, failure) = t
  BY DEF RenderFollowErrorView, p, offer, u, t
<1> QED BY <1>2, <1>3, <1>4, <1>5

LEMMA UnavailablePainted ==
  ASSUME NEW s, Client(s), NEW failure \in Maybe(Failures)
  PROVE  LET t == RenderUnavailable(s, failure) IN
         DrawsFailure(s, t) /\ SameNet(s, t) /\ Cites(t, failure) /\ t.lastPaint.failure = failure
<1> DEFINE p == [by |-> "unavailable", ws |-> None, run |-> None, cls |-> None, failure |-> failure]
           u == [s EXCEPT !.lastPaint = p]
           offer == Offered(s, s.hash.ws, s.hash.run)
<1>1. p \in PaintRecords /\ p.by # "follow" /\ p.failure = failure /\ offer \in BOOLEAN
  BY OfferedType DEF PaintRecords, Failures, FetchFailures, Absences, Losses, Maybe, All
<1>2. s.hash.ws \in All /\ s.hash.run \in Maybe(Runs)
  BY DEF Client, AddressFits, WellFormed
<1>0. Backed(p) /\ (Lossy(p) <=> failure \in Absences)
  BY DEF Backed, Lossy
<1> HIDE DEF p, offer, u
<1>3. ASSUME NEW cls \in ViewClasses,
             cls \in LossClasses => s.hash.run # None /\ failure \in Grounds(cls),
             NEW panel \in BOOLEAN
      PROVE  LET t == ReplaceContent(u, FailureView(s.hash.ws, s.hash.run, cls, panel)) IN
             DrawsFailure(s, t) /\ SameNet(s, t) /\ Cites(t, failure) /\ t.lastPaint.failure = failure
  <2> DEFINE t == ReplaceContent(u, FailureView(s.hash.ws, s.hash.run, cls, panel))
  <2>1. /\ Draws(s, t) /\ SameNet(s, t) /\ t.painted.kind = "failure"
        /\ t.painted.ws = s.hash.ws /\ t.painted.run = s.hash.run /\ t.lastPaint = p
    <3>1. cls \in Maybe(ViewClasses)
      BY DEF Maybe
    <3>2. cls \in LossClasses => Lossy(p) /\ s.hash.run # None /\ p.failure \in Grounds(cls)
      BY <1>0, <1>1, <1>3, GroundsTell
    <3> QED BY <1>0, <1>1, <1>2, <1>3, <3>1, <3>2, FailurePainted DEF u
  <2> HIDE DEF t
  <2>2. t.hash = s.hash /\ Cites(t, failure) /\ t.lastPaint.failure = failure
    BY <1>0, <1>1, <2>1 DEF Draws, SameRest, Calm, Cites
  <2>3. DrawsFailure(s, t)
    BY <1>1, <2>1, <2>2 DEF DrawsFailure, Subject
  <2> QED BY <2>1, <2>2, <2>3 DEF t
<1>4. PICK cls \in ViewClasses, panel \in BOOLEAN :
        /\ RenderUnavailable(s, failure)
             = ReplaceContent(u, FailureView(s.hash.ws, s.hash.run, cls, panel))
        /\ cls \in LossClasses => s.hash.run # None /\ failure \in Grounds(cls)
  <2> DEFINE loss == s.hash.run # None /\ failure \in Losses
             dropped == s.hash.run # None /\ failure \in {"capped", "limit"}
             cls == CASE loss /\ offer -> "resolved_child"
                      [] dropped /\ ~(loss /\ offer) -> "dropped_parent"
                      [] loss /\ ~offer /\ ~dropped -> "not_found"
                      [] OTHER -> "projection_unavailable"
             panel == offer /\ cls # "dropped_parent"
  <2>1. cls \in ViewClasses /\ panel \in BOOLEAN
    BY <1>1 DEF ViewClasses
  <2>3. cls \in LossClasses => s.hash.run # None /\ failure \in Grounds(cls)
    BY DEF LossClasses, Grounds, Losses
  <2>2. RenderUnavailable(s, failure)
          = ReplaceContent(u, FailureView(s.hash.ws, s.hash.run, cls, panel))
    BY DEF RenderUnavailable, u, p, offer
  <2> QED BY <2>1, <2>2, <2>3
<1> QED BY <1>3, <1>4

LEMMA DefectPainted ==
  ASSUME NEW s, Client(s)
  PROVE  LET t == RenderMonitorDefect(s) IN DrawsFailure(s, t) /\ SameNet(s, t) /\ Calm(t)
<1> DEFINE p == [by |-> "defect", ws |-> None, run |-> None, cls |-> None, failure |-> None]
           u == [s EXCEPT !.lastPaint = p]
<1>0. PICK cls \in Maybe(ViewClasses), offer \in BOOLEAN : cls = "monitor_defect" /\ offer = FALSE
  BY DEF Maybe, ViewClasses
<1> DEFINE t == ReplaceContent(u, FailureView(s.hash.ws, s.hash.run, cls, offer))
<1>1. p \in PaintRecords /\ p.by # "follow" /\ Backed(p) /\ ~Lossy(p) /\ cls \notin LossClasses
  BY <1>0 DEF PaintRecords, Maybe, All, Backed, Lossy, LossClasses
<1>2. s.hash.ws \in All /\ s.hash.run \in Maybe(Runs)
  BY DEF Client, AddressFits, WellFormed, Maybe, ViewClasses
<1> HIDE DEF p, u
<1>3. /\ Draws(s, t) /\ SameNet(s, t) /\ t.painted.kind = "failure"
      /\ t.painted.ws = s.hash.ws /\ t.painted.run = s.hash.run /\ t.lastPaint = p
  BY <1>1, <1>2, FailurePainted DEF u
<1>4. RenderMonitorDefect(s) = t
  BY <1>0 DEF RenderMonitorDefect, t, u, p
<1> HIDE DEF t
<1>5. t.hash = s.hash /\ Calm(t)
  BY <1>1, <1>3 DEF Draws, SameRest, Calm
<1>6. DrawsFailure(s, t)
  BY <1>1, <1>3, <1>5 DEF DrawsFailure, Subject
<1> QED BY <1>3, <1>4, <1>5, <1>6

LEMMA FollowOrPainted ==
  ASSUME NEW s, Client(s), NEW cls \in ViewClasses, cls \notin LossClasses
  PROVE  LET t == FollowOr(s, cls, None) IN DrawsFailure(s, t) /\ SameNet(s, t) /\ Calm(t)
<1>1. s.hash.ws \in All /\ s.hash.run \in Maybe(Runs) /\ cls \in Maybe(ViewClasses)
  BY DEF Client, AddressFits, WellFormed, Maybe
<1>2. <<s.hash.ws, s.hash.run>> = Subject(s.hash)
  BY DEF Subject
<1>0. None \in Maybe(Failures) /\ None \notin Absences
  BY ClientAssumption DEF Maybe, Absences, Losses
<1>3. LET t == RenderFollowErrorView(s, s.hash.ws, s.hash.run, cls, None) IN
      DrawsFailure(s, t) /\ SameNet(s, t) /\ Calm(t)
  BY <1>0, <1>1, <1>2, FollowErrorPainted
<1>4. LET t == RenderUnavailable(s, None) IN DrawsFailure(s, t) /\ SameNet(s, t) /\ Calm(t)
  BY <1>0, UnavailablePainted DEF Cites
<1> QED BY <1>3, <1>4 DEF FollowOr

\* A projection view replaces the failure view that the record was of.
LEMMA ProjectionPainted ==
  ASSUME NEW s, Client(s), s.lastPaint = None, NEW v \in ViewType, v.kind # "failure", v.cls = None
  PROVE  LET t == ReplaceContent(s, v) IN
         /\ Draws(s, t) /\ SameNet(s, t) /\ t.lastPaint = None
         /\ t.painted.kind = v.kind /\ t.painted.ws = v.ws /\ t.painted.run = v.run
<1> DEFINE t == ReplaceContent(s, v)
<1>1. /\ t \in Browser /\ SameRest(s, t) /\ SameNet(s, t) /\ t.lastPaint = s.lastPaint
      /\ t.painted.kind = v.kind /\ t.painted.ws = v.ws /\ t.painted.run = v.run
      /\ t.painted.cls = v.cls /\ PaneFits(t)
  BY ReplaceFacts DEF Client
<1> HIDE DEF t
<1>0. None \notin LossClasses
  BY ClientAssumption DEF LossClasses, ViewClasses, FollowStates
<1>2. Recorded(t) /\ AddressFits(t.hash)
  BY <1>0, <1>1 DEF Recorded, SameRest, Client
<1> QED BY <1>1, <1>2 DEF Draws, Client, t

LEMMA ViewFits ==
  ASSUME NEW s, Client(s), <<s.painted.ws, s.painted.run>> = Subject(s.hash), s.lastPaint = None,
         \/ s.hash.view = "workspaces" /\ s.painted.kind = "overview"
         \/ s.hash.view = "runs" /\ s.painted.kind = "runs"
         \/ Deep(s.hash) /\ s.painted.kind = "run"
  PROVE  Fits(s)
<1>1. s.painted.kind \in KindsAt(s.hash)
  BY DEF KindsAt, Deep
<1> QED BY <1>1 DEF Fits

LEMMA FailureFits ==
  ASSUME NEW s, NEW t, DrawsFailure(s, t), s.hash.view # "workspaces"
  PROVE  Fits(t)
<1>1. t.hash = s.hash /\ t.hash.view \in {"runs", "detail", "unit", "invalid"}
  BY DEF DrawsFailure, Draws, SameRest, Client, AddressFits, WellFormed
<1>2. t.painted.kind \in KindsAt(t.hash)
  BY <1>1 DEF KindsAt, Deep, DrawsFailure
<1> QED BY <1>2 DEF Fits, DrawsFailure

LEMMA RunsPainted ==
  ASSUME NEW s, Client(s), s.lastPaint = None, s.hash.view = "runs"
  PROVE  LET t == RenderRuns(s) IN Draws(s, t) /\ SameNet(s, t) /\ Fits(t) /\ Calm(t)
<1> DEFINE v == [Blank EXCEPT !.kind = "runs", !.ws = s.hash.ws, !.ver[s.hash.ws] = s.list]
           t == ReplaceContent(s, v)
<1>1. s.hash.ws \in All /\ s.hash.run = None /\ s.list \in VerOrNone
  BY DEF Client, AddressFits, WellFormed, Browser
<1>2. v \in ViewType /\ v.kind = "runs" /\ v.ws = s.hash.ws /\ v.run = None /\ v.cls = None
  BY <1>1, BlankType DEF Blank, ViewType
<1> HIDE DEF v
<1>3. /\ Draws(s, t) /\ SameNet(s, t) /\ t.lastPaint = None
      /\ t.painted.kind = v.kind /\ t.painted.ws = v.ws /\ t.painted.run = v.run
  BY <1>2, ProjectionPainted
<1> HIDE DEF t
<1>4. t.hash = s.hash
  BY <1>3 DEF Draws, SameRest
<1>5. Fits(t) /\ Calm(t)
  BY <1>1, <1>2, <1>3, <1>4, ViewFits DEF Draws, Subject, Calm
<1> QED BY <1>3, <1>5 DEF RenderRuns, t, v

LEMMA OverviewPainted ==
  ASSUME NEW s, Client(s)
  PROVE  LET t == RenderWorkspaceOverview(s) IN
         Draws(s, t) /\ SameNet(s, t) /\ (s.hash.view = "workspaces" => Fits(t)) /\ Calm(t)
<1> DEFINE u == [s EXCEPT !.lastPaint = None]
           v == [Blank EXCEPT !.kind = "overview",
                      !.ver = [w \in All |-> IF w = None THEN None ELSE s.snap[w].list],
                      !.stale = {w \in Workspaces : s.snap[w].listErr}]
           t == ReplaceContent(u, v)
<1>1. /\ u \in Browser /\ SameRest(s, u) /\ SameNet(s, u) /\ u.lastPaint = None /\ u.hash = s.hash
  BY DEF Client, Browser, Maybe, SameRest, SameNet
<1>2. [w \in All |-> IF w = None THEN None ELSE s.snap[w].list] \in [All -> VerOrNone]
  BY DEF Client, Browser, SnapRecord, All, VerOrNone
<1>3. v \in ViewType /\ v.kind = "overview" /\ v.ws = None /\ v.run = None /\ v.cls = None
  BY <1>2, BlankType DEF Blank, ViewType
<1> HIDE DEF u, v
<1>4. /\ Draws(u, t) /\ SameNet(u, t) /\ t.lastPaint = None
      /\ t.painted.kind = v.kind /\ t.painted.ws = v.ws /\ t.painted.run = v.run
  BY <1>1, <1>3, ProjectionPainted DEF Client
<1> HIDE DEF t
<1>5. Draws(s, t) /\ SameNet(s, t) /\ t.hash = s.hash /\ Calm(t)
  BY <1>1, <1>4 DEF Draws, SameNet, SameRest, Calm
<1>6. s.hash.view = "workspaces" => Fits(t)
  <2>1. s.hash.view = "workspaces" => s.hash.ws = None /\ s.hash.run = None
    BY DEF Client, AddressFits, WellFormed
  <2> QED BY <1>3, <1>4, <1>5, <2>1, ViewFits DEF Draws, Subject
<1> QED BY <1>5, <1>6 DEF RenderWorkspaceOverview, t, u, v

LEMMA DetailPainted ==
  ASSUME NEW s, Client(s), s.lastPaint = None, Deep(s.hash), s.detail # None, Throws(s) = None
  PROVE  LET t == PaintDetail(s) IN Draws(s, t) /\ SameNet(s, t) /\ Fits(t) /\ Calm(t)
<1> DEFINE v == [Blank EXCEPT !.kind = "run", !.ws = s.hash.ws, !.run = s.hash.run,
                              !.ver[s.detail.ws] = s.detail.ver]
           t == ReplaceContent(s, v)
<1>1. /\ s.hash.ws \in All /\ s.hash.run \in Maybe(Runs)
      /\ s.detail.ws \in All /\ s.detail.ver \in VerOrNone
  BY DEF Client, AddressFits, WellFormed, Browser, DetailType, Maybe, VerOrNone
<1>2. v \in ViewType /\ v.kind = "run" /\ v.ws = s.hash.ws /\ v.run = s.hash.run /\ v.cls = None
  BY <1>1, BlankType DEF Blank, ViewType
<1> HIDE DEF v
<1>3. /\ Draws(s, t) /\ SameNet(s, t) /\ t.lastPaint = None
      /\ t.painted.kind = v.kind /\ t.painted.ws = v.ws /\ t.painted.run = v.run
  BY <1>2, ProjectionPainted
<1> HIDE DEF t
<1>4. t.hash = s.hash
  BY <1>3 DEF Draws, SameRest
<1>5. Fits(t) /\ Calm(t)
  BY <1>1, <1>2, <1>3, <1>4, ViewFits DEF Draws, Subject, Calm
<1> QED BY <1>3, <1>5 DEF PaintDetail, t, v

LEMMA ThrowsFacts ==
  ASSUME NEW s, Throws(s) # None
  PROVE  /\ Deep(s.hash) /\ s.detail # None /\ s.detail.run = s.hash.run
         /\ s.detail.body \in {"hostile", "defect"} /\ Throws(s) = s.detail.body
BY DEF Throws

\* renderCurrent paints the address, unless the renderer throws: then it has
\* only dropped the record.
LEMMA CurrentPainted ==
  ASSUME NEW s, Client(s)
  PROVE  LET t == RenderCurrent(s) IN
         /\ Client(t) /\ SameRest(s, t) /\ SameNet(s, t) /\ Calm(t)
         /\ Throws(s) = None => Draws(s, t) /\ Fits(t)
<1> DEFINE u == [s EXCEPT !.lastPaint = None]
<1>1. /\ Client(u) /\ SameRest(s, u) /\ SameNet(s, u) /\ u.lastPaint = None
      /\ u.hash = s.hash /\ u.detail = s.detail
  BY DEF Client, Browser, Maybe, SameRest, SameNet
<1>2. Throws(u) = Throws(s)
  BY <1>1 DEF Throws
<1>3. ASSUME NEW t, Draws(u, t), SameNet(u, t), Fits(t), Calm(t)
      PROVE  /\ Client(t) /\ SameRest(s, t) /\ SameNet(s, t) /\ Draws(s, t) /\ Fits(t) /\ Calm(t)
  BY <1>1, <1>3 DEF Draws, SameRest, SameNet
<1>4. ASSUME NEW t, DrawsFailure(u, t), SameNet(u, t), s.hash.view # "workspaces", Calm(t)
      PROVE  /\ Client(t) /\ SameRest(s, t) /\ SameNet(s, t) /\ Draws(s, t) /\ Fits(t) /\ Calm(t)
  BY <1>1, <1>3, <1>4, FailureFits DEF DrawsFailure
<1>9. Calm(u)
  BY <1>1 DEF Calm
<1> HIDE DEF u
<1>5. CASE s.hash.view = "workspaces"
  <2>1. RenderCurrent(s) = RenderWorkspaceOverview(u)
    BY <1>5 DEF RenderCurrent, u
  <2> QED BY <1>1, <1>3, <1>5, <2>1, OverviewPainted
<1>6. CASE s.hash.view = "runs"
  <2>1. RenderCurrent(s) = RenderRuns(u)
    BY <1>6 DEF RenderCurrent, u
  <2> QED BY <1>1, <1>3, <1>6, <2>1, RunsPainted
<1>7. CASE s.hash.view = "invalid"
  <2>1. RenderCurrent(s) = RenderUnavailable(u, None) /\ None \in Maybe(Failures) /\ None \notin Absences
    BY <1>7, ClientAssumption DEF RenderCurrent, u, Maybe, Absences, Losses
  <2> QED BY <1>1, <1>4, <1>7, <2>1, UnavailablePainted DEF Cites
<1>8. CASE Deep(s.hash)
  <2>1. ASSUME NEW cls \in ViewClasses \ LossClasses
        PROVE  LET t == FollowOr(u, cls, None) IN
               /\ Client(t) /\ SameRest(s, t) /\ SameNet(s, t) /\ Draws(s, t) /\ Fits(t) /\ Calm(t)
    <3>1. s.hash.view # "workspaces"
      BY <1>8 DEF Deep
    <3> QED BY <1>1, <1>4, <3>1, FollowOrPainted
  <2>2. \/ \E cls \in ViewClasses \ LossClasses : RenderCurrent(s) = FollowOr(u, cls, None)
        \/ u.detail # None /\ RenderCurrent(s) = PaintDetail(u)
    <3>1. {"snapshot_unavailable", "identity_conflict", "unit_unavailable"}
            \subseteq ViewClasses \ LossClasses
      BY DEF ViewClasses, FollowStates, LossClasses
    <3>2. CASE s.hash.view = "unit"
      <4>1. RenderCurrent(s) = RenderUnit(u)
        BY <3>2 DEF RenderCurrent, u
      <4> QED BY <3>1, <4>1 DEF RenderUnit
    <3>3. CASE s.hash.view = "detail"
      <4>1. RenderCurrent(s) = RenderDetail(u)
        BY <3>3 DEF RenderCurrent, u
      <4> QED BY <3>1, <4>1 DEF RenderDetail
    <3> QED BY <1>8, <3>2, <3>3 DEF Deep
  <2>3. CASE u.detail # None /\ RenderCurrent(s) = PaintDetail(u)
    <3>1. CASE Throws(s) = None
      BY <1>1, <1>2, <1>3, <1>8, <2>3, <3>1, DetailPainted
    <3>2. CASE Throws(s) # None
      <4>1. RenderCurrent(s) = u
        BY <1>2, <2>3, <3>2 DEF PaintDetail
      <4> QED BY <1>1, <1>9, <3>2, <4>1
    <3> QED BY <3>1, <3>2
  <2> QED BY <2>1, <2>2, <2>3
<1> QED BY <1>5, <1>6, <1>7, <1>8 DEF Client, AddressFits, WellFormed, Deep

-----------------------------------------------------------------------------
(***************************************************************************)
(* Requests.                                                               *)
(***************************************************************************)
LEMMA ImageIsFinite ==
  ASSUME NEW S, IsFiniteSet(S), NEW f, DOMAIN f = S
  PROVE  IsFiniteSet({f[x] : x \in S}) /\ Cardinality({f[x] : x \in S}) <= Cardinality(S)
<1> DEFINE T == {f[x] : x \in S}
           g == [x \in S |-> f[x]]
<1>1. g \in Surjection(S, T)
  BY DEF Surjection
<1> QED BY <1>1, FS_Surjection

\* There is an id that no list of the source on its way has.
LEMMA NewIdIsNew ==
  ASSUME NEW s, s \in Browser, IsFiniteSet(s.reqs), NEW w
  PROVE  NewId(s, w) \in Nat /\ \A q \in Lists(s, w) : q.id # NewId(s, w)
<1> DEFINE L == Lists(s, w)
           n == Cardinality(L)
<1>1. IsFiniteSet(L) /\ L \subseteq s.reqs
  BY FS_Subset DEF Lists
<1>2. n \in Nat
  BY <1>1, FS_CardinalityType
<1>3. \E i \in 0..n : \A q \in L : q.id # i
  <2> SUFFICES ASSUME \A i \in 0..n : \E q \in L : q.id = i
               PROVE  FALSE
    OBVIOUS
  <2> DEFINE f == [i \in 0..n |-> CHOOSE q \in L : q.id = i]
  <2> HIDE DEF L
  <2>1. \A i \in 0..n : f[i] \in L /\ f[i].id = i
    OBVIOUS
  <2>2. f \in [0..n -> L]
    BY <2>1
  <2> HIDE DEF f
  <2>3. IsFiniteSet(0..n) /\ Cardinality(0..n) = n + 1
    BY <1>2, FS_Interval
  <2>4. \E i, j \in 0..n : i # j /\ f[i] = f[j]
    <3>1. Cardinality(L) < Cardinality(0..n)
      BY <1>2, <2>3
    <3> HIDE DEF n
    <3> QED BY ONLY <1>1, <2>2, <2>3, <3>1, IsFiniteSet(L), FS_PigeonHole, Zenon
  <2> QED BY <2>1, <2>4
<1>4. NewId(s, w) \in 0..n /\ \A q \in L : q.id # NewId(s, w)
  BY <1>3 DEF NewId
<1> QED BY <1>2, <1>4

-----------------------------------------------------------------------------
(***************************************************************************)
(* The work to come (WorkRunsOut).  Load is the part of Work that the      *)
(* browser's state carries, its address aside.                             *)
(***************************************************************************)
Asked(R) ==
    Cardinality(R) + Cardinality({q \in R : q.ans = None})
    + 2 * Cardinality({q \in R : q.kind = "detail"})
DeepWaits(s) == {x \in s.waits : x.then = "deep"}
Replays(s) == Number(s.again) + Cardinality(DeepWaits(s))
Load(s) == Asked(s.reqs) + ReplayWork * Replays(s)

\* One acquisition of an inventory at a time, which resBusy knows of.
ResolveAsked(s) == {q \in s.reqs : q.kind = "resolve"}
ResolveWaits(s) == {x \in s.waits : x.then = "resolve"}
Light(s) ==
    /\ IsFiniteSet(s.reqs) /\ IsFiniteSet(s.waits)
    /\ ResolveAsked(s) # {} \/ ResolveWaits(s) # {} => s.resBusy
    /\ \A p, q \in ResolveAsked(s) : p = q
    /\ \A x, y \in ResolveWaits(s) : x = y
    /\ ResolveAsked(s) = {} \/ ResolveWaits(s) = {}

\* What leads from s to t adds n to the work to come, at most, and neither
\* dispatches a hashchange nor causes one.
Costs(s, t, n) == Light(s) => Light(t) /\ t.pending = s.pending /\ Load(t) <= Load(s) + n

LEMMA WorkFacts ==
  /\ Cardinality(Workspaces) \in Nat
  /\ RefreshWork \in Nat /\ RefreshWork = 2 * Cardinality(Workspaces) + 4
  /\ ReplayWork \in Nat /\ ReplayWork = RefreshWork + 1
  /\ FrameWork \in Nat /\ FrameWork = 2 * Cardinality(Workspaces) + ReplayWork + 1
<1>1. Cardinality(Workspaces) \in Nat
  BY ClientAssumption, FS_CardinalityType
<1> QED BY <1>1 DEF RefreshWork, ReplayWork, FrameWork

LEMMA AskedType ==
  ASSUME NEW R, IsFiniteSet(R)
  PROVE  /\ Asked(R) \in Nat /\ Cardinality(R) \in Nat
         /\ IsFiniteSet({q \in R : q.ans = None}) /\ Cardinality({q \in R : q.ans = None}) \in Nat
         /\ IsFiniteSet({q \in R : q.kind = "detail"})
         /\ Cardinality({q \in R : q.kind = "detail"}) \in Nat
<1>1. {q \in R : q.ans = None} \in SUBSET R /\ {q \in R : q.kind = "detail"} \in SUBSET R
  OBVIOUS
<1>2. IsFiniteSet({q \in R : q.ans = None}) /\ IsFiniteSet({q \in R : q.kind = "detail"})
  BY <1>1, FS_Subset
<1>3. /\ Cardinality(R) \in Nat /\ Cardinality({q \in R : q.ans = None}) \in Nat
      /\ Cardinality({q \in R : q.kind = "detail"}) \in Nat
  BY <1>2, FS_CardinalityType
<1> QED BY <1>2, <1>3 DEF Asked

\* Requests that are taken for others, answered and aimed like them.
LEMMA AskedImage ==
  ASSUME NEW R, IsFiniteSet(R), NEW f, DOMAIN f = R,
         \A q \in R : f[q].kind = q.kind /\ f[q].ans = q.ans
  PROVE  IsFiniteSet({f[q] : q \in R}) /\ Asked({f[q] : q \in R}) <= Asked(R)
<1> DEFINE T == {f[q] : q \in R}
           A == {q \in R : q.ans = None}
           D == {q \in R : q.kind = "detail"}
           fA == [q \in A |-> f[q]]
           fD == [q \in D |-> f[q]]
<1>1. IsFiniteSet(A) /\ IsFiniteSet(D)
  BY AskedType
<1>2. {q \in T : q.ans = None} = {fA[q] : q \in A} /\ {q \in T : q.kind = "detail"} = {fD[q] : q \in D}
  <2>1. ASSUME NEW p \in {q \in T : q.ans = None} PROVE p \in {fA[q] : q \in A}
    <3>1. PICK q \in R : p = f[q]
      OBVIOUS
    <3>2. q \in A /\ fA[q] = p
      BY <3>1
    <3> QED BY <3>2
  <2>2. ASSUME NEW p \in {q \in T : q.kind = "detail"} PROVE p \in {fD[q] : q \in D}
    <3>1. PICK q \in R : p = f[q]
      OBVIOUS
    <3>2. q \in D /\ fD[q] = p
      BY <3>1
    <3> QED BY <3>2
  <2>3. \A q \in A : fA[q] \in T /\ fA[q].ans = None
    OBVIOUS
  <2>4. \A q \in D : fD[q] \in T /\ fD[q].kind = "detail"
    OBVIOUS
  <2> HIDE DEF T, A, D, fA, fD
  <2>5. {q \in T : q.ans = None} = {fA[q] : q \in A}
    BY <2>1, <2>3
  <2>6. {q \in T : q.kind = "detail"} = {fD[q] : q \in D}
    BY <2>2, <2>4
  <2> QED BY <2>5, <2>6
<1>3. DOMAIN fA = A /\ DOMAIN fD = D
  OBVIOUS
<1>4. IsFiniteSet(T) /\ Cardinality(T) <= Cardinality(R)
  BY ImageIsFinite
<1> HIDE DEF A, D, fA, fD
<1>5. /\ Cardinality({fA[q] : q \in A}) <= Cardinality(A)
      /\ Cardinality({fD[q] : q \in D}) <= Cardinality(D)
  BY <1>1, <1>3, ImageIsFinite
<1> HIDE DEF T
<1>6. /\ Cardinality({q \in T : q.ans = None}) <= Cardinality(A)
      /\ Cardinality({q \in T : q.kind = "detail"}) <= Cardinality(D)
  BY <1>2, <1>5
<1>7. /\ Cardinality(T) \in Nat /\ Cardinality(R) \in Nat
      /\ Cardinality({q \in T : q.ans = None}) \in Nat /\ Cardinality(A) \in Nat
      /\ Cardinality({q \in T : q.kind = "detail"}) \in Nat /\ Cardinality(D) \in Nat
  BY <1>1, <1>4, AskedType, FS_CardinalityType
<1>8. Asked(T) <= Asked(R)
  BY <1>4, <1>6, <1>7 DEF Asked, A, D
<1> QED BY <1>4, <1>8 DEF T

LEMMA AskedUnion ==
  ASSUME NEW R, IsFiniteSet(R), NEW S, IsFiniteSet(S)
  PROVE  IsFiniteSet(R \cup S) /\ Asked(R \cup S) <= Asked(R) + Asked(S)
<1>1. ASSUME NEW A, IsFiniteSet(A), NEW B, IsFiniteSet(B)
      PROVE  IsFiniteSet(A \cup B) /\ Cardinality(A \cup B) <= Cardinality(A) + Cardinality(B)
  <2>1. /\ IsFiniteSet(A \cup B)
        /\ Cardinality(A \cup B) = Cardinality(A) + Cardinality(B) - Cardinality(A \cap B)
    BY <1>1, FS_Union
  <2>2. IsFiniteSet(A \cap B)
    BY <1>1, FS_Intersection
  <2>3. Cardinality(A) \in Nat /\ Cardinality(B) \in Nat /\ Cardinality(A \cap B) \in Nat
    BY <1>1, <2>2, FS_CardinalityType
  <2> QED BY <2>1, <2>3
<1>2. /\ {q \in R \cup S : q.ans = None} = {q \in R : q.ans = None} \cup {q \in S : q.ans = None}
      /\ {q \in R \cup S : q.kind = "detail"}
           = {q \in R : q.kind = "detail"} \cup {q \in S : q.kind = "detail"}
  OBVIOUS
<1>3. /\ IsFiniteSet({q \in R : q.ans = None}) /\ IsFiniteSet({q \in S : q.ans = None})
      /\ IsFiniteSet({q \in R : q.kind = "detail"}) /\ IsFiniteSet({q \in S : q.kind = "detail"})
  BY AskedType
<1>4. /\ IsFiniteSet(R \cup S) /\ Cardinality(R \cup S) <= Cardinality(R) + Cardinality(S)
      /\ Cardinality({q \in R \cup S : q.ans = None})
           <= Cardinality({q \in R : q.ans = None}) + Cardinality({q \in S : q.ans = None})
      /\ Cardinality({q \in R \cup S : q.kind = "detail"})
           <= Cardinality({q \in R : q.kind = "detail"}) + Cardinality({q \in S : q.kind = "detail"})
  BY <1>1, <1>2, <1>3
<1>5. /\ Cardinality(R \cup S) \in Nat /\ Cardinality(R) \in Nat /\ Cardinality(S) \in Nat
      /\ Cardinality({q \in R : q.ans = None}) \in Nat /\ Cardinality({q \in S : q.ans = None}) \in Nat
      /\ Cardinality({q \in R : q.kind = "detail"}) \in Nat
      /\ Cardinality({q \in S : q.kind = "detail"}) \in Nat
      /\ Cardinality({q \in R \cup S : q.ans = None}) \in Nat
      /\ Cardinality({q \in R \cup S : q.kind = "detail"}) \in Nat
  BY <1>4, AskedType
<1> QED BY <1>4, <1>5 DEF Asked

\* One request more, or one less.
Weight(q) == 1 + Number(q.ans = None) + 2 * Number(q.kind = "detail")
LEMMA WeightType ==
  ASSUME NEW q
  PROVE  /\ Weight(q) \in Nat
         /\ Number(q.ans = None) = IF q.ans = None THEN 1 ELSE 0
         /\ Number(q.kind = "detail") = IF q.kind = "detail" THEN 1 ELSE 0
         /\ Weight(q) = 1 + Number(q.ans = None) + 2 * Number(q.kind = "detail")
BY DEF Weight, Number

LEMMA AskedOne ==
  ASSUME NEW R, IsFiniteSet(R), NEW q
  PROVE  /\ IsFiniteSet(R \cup {q}) /\ Asked(R \cup {q}) <= Asked(R) + Weight(q)
         /\ IsFiniteSet(R \ {q}) /\ (q \in R => Asked(R \ {q}) = Asked(R) - Weight(q))
<1> DEFINE A(S) == {p \in S : p.ans = None}
           D(S) == {p \in S : p.kind = "detail"}
<1>1. IsFiniteSet(A(R)) /\ IsFiniteSet(D(R))
  BY AskedType
<1>2. /\ A(R \cup {q}) = IF q.ans = None THEN A(R) \cup {q} ELSE A(R)
      /\ D(R \cup {q}) = IF q.kind = "detail" THEN D(R) \cup {q} ELSE D(R)
      /\ A(R \ {q}) = A(R) \ {q} /\ D(R \ {q}) = D(R) \ {q}
  OBVIOUS
<1>3. q \in R => (q \in A(R) <=> q.ans = None) /\ (q \in D(R) <=> q.kind = "detail")
  OBVIOUS
<1>4. /\ Asked(R) = Cardinality(R) + Cardinality(A(R)) + 2 * Cardinality(D(R))
      /\ Asked(R \cup {q})
           = Cardinality(R \cup {q}) + Cardinality(A(R \cup {q})) + 2 * Cardinality(D(R \cup {q}))
      /\ Asked(R \ {q}) = Cardinality(R \ {q}) + Cardinality(A(R \ {q})) + 2 * Cardinality(D(R \ {q}))
  BY DEF Asked
<1> HIDE DEF A, D
<1>5. ASSUME NEW S, IsFiniteSet(S)
      PROVE  /\ Cardinality(S) \in Nat
             /\ IsFiniteSet(S \cup {q}) /\ Cardinality(S \cup {q}) <= Cardinality(S) + 1
             /\ Cardinality(S \cup {q}) \in Nat
             /\ IsFiniteSet(S \ {q})
             /\ Cardinality(S \ {q}) = IF q \in S THEN Cardinality(S) - 1 ELSE Cardinality(S)
  <2>1. Cardinality(S) \in Nat
    BY <1>5, FS_CardinalityType
  <2>2. /\ IsFiniteSet(S \cup {q})
        /\ Cardinality(S \cup {q}) = IF q \in S THEN Cardinality(S) ELSE Cardinality(S) + 1
    BY <1>5, FS_AddElement
  <2>3. /\ IsFiniteSet(S \ {q})
        /\ Cardinality(S \ {q}) = IF q \in S THEN Cardinality(S) - 1 ELSE Cardinality(S)
    BY <1>5, FS_RemoveElement
  <2> QED BY <2>1, <2>2, <2>3
<1>6. /\ Cardinality(R) \in Nat /\ Cardinality(A(R)) \in Nat /\ Cardinality(D(R)) \in Nat
      /\ IsFiniteSet(R \cup {q}) /\ IsFiniteSet(R \ {q})
  BY <1>1, <1>5
<1>7. Asked(R \cup {q}) <= Asked(R) + Weight(q)
  <2>1. /\ Cardinality(R \cup {q}) <= Cardinality(R) + 1 /\ Cardinality(R \cup {q}) \in Nat
        /\ Cardinality(A(R) \cup {q}) <= Cardinality(A(R)) + 1 /\ Cardinality(A(R) \cup {q}) \in Nat
        /\ Cardinality(D(R) \cup {q}) <= Cardinality(D(R)) + 1 /\ Cardinality(D(R) \cup {q}) \in Nat
    BY <1>1, <1>5
  <2>2. /\ Cardinality(A(R \cup {q})) <= Cardinality(A(R)) + Number(q.ans = None)
        /\ Cardinality(A(R \cup {q})) \in Nat
    BY <1>2, <1>6, <2>1 DEF Number
  <2>3. /\ Cardinality(D(R \cup {q})) <= Cardinality(D(R)) + Number(q.kind = "detail")
        /\ Cardinality(D(R \cup {q})) \in Nat
    BY <1>2, <1>6, <2>1 DEF Number
  <2> QED BY <1>4, <1>6, <2>1, <2>2, <2>3, WeightType
<1>8. ASSUME q \in R PROVE Asked(R \ {q}) = Asked(R) - Weight(q)
  <2>1. Cardinality(R \ {q}) = Cardinality(R) - 1
    BY <1>5, <1>8
  <2>2. Cardinality(A(R \ {q})) = Cardinality(A(R)) - Number(q.ans = None)
    <3>1. Cardinality(A(R) \ {q}) = IF q \in A(R) THEN Cardinality(A(R)) - 1 ELSE Cardinality(A(R))
      BY <1>1, <1>5
    <3>2. q \in A(R) <=> q.ans = None
      BY <1>3, <1>8
    <3>3. A(R \ {q}) = A(R) \ {q} /\ Cardinality(A(R)) \in Nat
      BY <1>2, <1>6
    <3>4. Number(q.ans = None) = IF q.ans = None THEN 1 ELSE 0
      BY WeightType
    <3>5. CASE q.ans = None
      BY <3>1, <3>2, <3>3, <3>4, <3>5
    <3>6. CASE ~(q.ans = None)
      <4>1. Number(q.ans = None) = 0 /\ Cardinality(A(R) \ {q}) = Cardinality(A(R))
        BY <3>1, <3>2, <3>4, <3>6
      <4>2. Cardinality(A(R \ {q})) = Cardinality(A(R)) /\ Cardinality(A(R)) \in Nat
        BY <3>3, <4>1
      <4> QED BY <4>1, <4>2
    <3> QED BY <3>5, <3>6
  <2>3. Cardinality(D(R \ {q})) = Cardinality(D(R)) - Number(q.kind = "detail")
    <3>1. Cardinality(D(R) \ {q}) = IF q \in D(R) THEN Cardinality(D(R)) - 1 ELSE Cardinality(D(R))
      BY <1>1, <1>5
    <3>2. q \in D(R) <=> q.kind = "detail"
      BY <1>3, <1>8
    <3>3. D(R \ {q}) = D(R) \ {q} /\ Cardinality(D(R)) \in Nat
      BY <1>2, <1>6
    <3>4. Number(q.kind = "detail") = IF q.kind = "detail" THEN 1 ELSE 0
      BY WeightType
    <3>5. CASE q.kind = "detail"
      BY <3>1, <3>2, <3>3, <3>4, <3>5
    <3>6. CASE ~(q.kind = "detail")
      <4>1. Number(q.kind = "detail") = 0 /\ Cardinality(D(R) \ {q}) = Cardinality(D(R))
        BY <3>1, <3>2, <3>4, <3>6
      <4>2. Cardinality(D(R \ {q})) = Cardinality(D(R)) /\ Cardinality(D(R)) \in Nat
        BY <3>3, <4>1
      <4> QED BY <4>1, <4>2
    <3> QED BY <3>5, <3>6
  <2> QED BY <1>4, <1>6, <2>1, <2>2, <2>3, WeightType
<1> QED BY <1>6, <1>7, <1>8

LEMMA LoadType ==
  ASSUME NEW s, Light(s)
  PROVE  /\ Load(s) \in Int /\ Asked(s.reqs) \in Nat /\ Replays(s) \in Nat
         /\ IsFiniteSet(DeepWaits(s)) /\ Cardinality(DeepWaits(s)) \in Nat
         /\ Number(s.again) \in {0, 1}
<1>1. DeepWaits(s) \in SUBSET s.waits
  BY DEF DeepWaits
<1>2. IsFiniteSet(DeepWaits(s)) /\ Asked(s.reqs) \in Nat
  BY <1>1, FS_Subset, AskedType DEF Light
<1>3. Cardinality(DeepWaits(s)) \in Nat /\ Number(s.again) \in {0, 1}
  BY <1>2, FS_CardinalityType DEF Number
<1>4. Replays(s) \in Nat
  BY <1>3 DEF Replays
<1>5. ReplayWork * Replays(s) \in Int
  BY <1>4, WorkFacts
<1> QED BY <1>2, <1>3, <1>4, <1>5 DEF Load

\* A replay weighs more than the refresh it stands for.
LEMMA LoadBound ==
  ASSUME NEW s, NEW t, Light(s), Light(t), NEW n \in Int, NEW m \in {-1, 0, 1},
         Asked(t.reqs) <= Asked(s.reqs) + n, Replays(t) <= Replays(s) + m
  PROVE  Load(t) <= Load(s) + n + m * ReplayWork
<1>1. ASSUME NEW a \in Nat, NEW x \in Nat, NEW y \in Nat, y <= x + m
      PROVE  a * y <= a * x + m * a /\ a * y \in Int /\ a * x \in Int /\ m * a \in Int
  <2>1. PICK d \in Nat : x + m = y + d
    <3>1. x + m - y \in Nat /\ x + m = y + (x + m - y)
      BY <1>1
    <3> QED BY <3>1
  <2>2. a * y \in Nat /\ a * x \in Nat /\ a * d \in Nat /\ m * a \in Int
    BY <1>1, <2>1
  <2>3. a * (x + m) = a * x + m * a /\ a * (y + d) = a * y + a * d
    BY <1>1, <2>1
  <2> QED BY <2>1, <2>2, <2>3
<1>2. /\ Asked(s.reqs) \in Nat /\ Asked(t.reqs) \in Nat /\ Replays(s) \in Nat /\ Replays(t) \in Nat
      /\ ReplayWork \in Nat
  BY LoadType, WorkFacts
<1>3. /\ ReplayWork * Replays(t) <= ReplayWork * Replays(s) + m * ReplayWork
      /\ ReplayWork * Replays(t) \in Int /\ ReplayWork * Replays(s) \in Int /\ m * ReplayWork \in Int
  BY <1>1, <1>2
<1> QED BY <1>2, <1>3 DEF Load

LEMMA CostsSame ==
  ASSUME NEW s, NEW t, SameNet(s, t), t.again = s.again
  PROVE  Costs(s, t, 0)
<1>1. /\ t.reqs = s.reqs /\ t.waits = s.waits /\ t.resBusy = s.resBusy
      /\ t.pending = s.pending
  BY DEF SameNet
<1>2. Light(s) => Light(t)
  BY <1>1 DEF Light, ResolveAsked, ResolveWaits
<1>3. Load(t) = Load(s)
  BY <1>1 DEF Load, Replays, DeepWaits
<1> QED BY <1>1, <1>2, <1>3, LoadType DEF Costs

LEMMA CostsThen ==
  ASSUME NEW s, NEW t, NEW u, NEW m \in Int, NEW n \in Int, Costs(s, t, m), Costs(t, u, n)
  PROVE  Costs(s, u, m + n)
BY LoadType DEF Costs

LEMMA CostsMore ==
  ASSUME NEW s, NEW t, NEW m \in Int, NEW n \in Int, m <= n, Costs(s, t, m)
  PROVE  Costs(s, t, n)
BY LoadType DEF Costs

\* A painting, which changes no request, before or after.
LEMMA CostsPainted ==
  ASSUME NEW s, NEW t, NEW u, NEW n \in Int,
         \/ SameNet(s, t) /\ t.again = s.again /\ Costs(t, u, n)
         \/ Costs(s, t, n) /\ SameNet(t, u) /\ u.again = t.again
  PROVE  Costs(s, u, n)
<1>1. CASE SameNet(s, t) /\ t.again = s.again /\ Costs(t, u, n)
  BY <1>1, CostsSame, LoadType DEF Costs
<1>2. CASE Costs(s, t, n) /\ SameNet(t, u) /\ u.again = t.again
  BY <1>2, CostsSame, LoadType DEF Costs
<1> QED BY <1>1, <1>2

\* A cause that is remembered, or forgotten.
LEMMA AgainCosts ==
  ASSUME NEW s, NEW t, SameNet(s, t)
  PROVE  /\ t.again = TRUE => Costs(s, t, ReplayWork)
         /\ s.again = TRUE /\ t.again = FALSE => Costs(s, t, 0 - ReplayWork)
<1>1. /\ t.reqs = s.reqs /\ t.waits = s.waits /\ t.resBusy = s.resBusy
      /\ t.pending = s.pending
  BY DEF SameNet
<1>2. Light(s) => Light(t)
  BY <1>1 DEF Light, ResolveAsked, ResolveWaits
<1>3. DeepWaits(t) = DeepWaits(s)
  BY <1>1 DEF DeepWaits
<1>4. ASSUME Light(s), NEW m \in {-1, 0, 1}, Replays(t) <= Replays(s) + m
      PROVE  Load(t) <= Load(s) + m * ReplayWork
  <2>1. Asked(t.reqs) <= Asked(s.reqs) + 0
    BY <1>1, <1>4, LoadType
  <2>2. Load(t) <= Load(s) + 0 + m * ReplayWork
    BY <1>2, <1>4, <2>1, LoadBound
  <2> QED BY <1>4, <2>2, LoadType
<1>5. ASSUME t.again = TRUE, Light(s) PROVE Load(t) <= Load(s) + 1 * ReplayWork
  <2>1. Replays(t) <= Replays(s) + 1
    BY <1>2, <1>3, <1>5, LoadType DEF Replays
  <2> QED BY <1>4, <1>5, <2>1
<1>6. ASSUME s.again = TRUE, t.again = FALSE, Light(s) PROVE Load(t) <= Load(s) + (0 - ReplayWork)
  <2>1. Number(s.again) = 1 /\ Number(t.again) = 0
    BY <1>6 DEF Number
  <2>2. PICK m \in {-1, 0, 1} : m = -1
    OBVIOUS
  <2>3. Replays(t) <= Replays(s) + m
    BY <1>2, <1>3, <1>6, <2>1, <2>2, LoadType DEF Replays
  <2>4. Load(t) <= Load(s) + m * ReplayWork
    BY <1>4, <1>6, <2>3
  <2>5. m * ReplayWork = 0 - ReplayWork
    BY <2>2, WorkFacts
  <2> QED BY <2>4, <2>5
<1>7. t.again = TRUE => Costs(s, t, ReplayWork)
  <2>1. 1 * ReplayWork = ReplayWork
    BY WorkFacts
  <2> QED BY <1>1, <1>2, <1>5, <2>1 DEF Costs
<1> QED BY <1>1, <1>2, <1>6, <1>7 DEF Costs

LEMMA AskedLists ==
  ASSUME NEW S, IsFiniteSet(S), \A q \in S : q.kind = "list" /\ q.ans = None
  PROVE  Asked(S) = 2 * Cardinality(S)
<1>1. {q \in S : q.ans = None} = S /\ {q \in S : q.kind = "detail"} = {}
  OBVIOUS
<1>2. Cardinality(S) \in Nat /\ Cardinality({}) = 0
  BY FS_CardinalityType, FS_EmptySet
<1>3. Asked(S) = Cardinality(S) + Cardinality(S) + 2 * Cardinality({})
  BY <1>1 DEF Asked
<1> QED BY <1>2, <1>3

\* One request more: it acquires an inventory only if none is acquired.
LEMMA FetchCosts ==
  ASSUME NEW s, NEW t, NEW q, t.reqs = s.reqs \cup {q}, t.waits = s.waits, t.again = s.again,
         t.pending = s.pending,
         \/ q.kind # "resolve" /\ t.resBusy = s.resBusy
         \/ ~s.resBusy /\ t.resBusy
  PROVE  Costs(s, t, Weight(q))
<1> SUFFICES ASSUME Light(s) PROVE Light(t) /\ Load(t) <= Load(s) + Weight(q)
  BY DEF Costs
<1>1. IsFiniteSet(t.reqs) /\ Asked(t.reqs) <= Asked(s.reqs) + Weight(q)
  <2>1. IsFiniteSet(s.reqs)
    BY DEF Light
  <2> QED BY <2>1, AskedOne
<1>2. ResolveWaits(t) = ResolveWaits(s) /\ DeepWaits(t) = DeepWaits(s) /\ Replays(t) = Replays(s)
  BY DEF ResolveWaits, DeepWaits, Replays
<1>3. Light(t)
  <2>1. CASE q.kind # "resolve" /\ t.resBusy = s.resBusy
    <3>1. ResolveAsked(t) = ResolveAsked(s)
      BY <2>1 DEF ResolveAsked
    <3> QED BY <1>1, <1>2, <2>1, <3>1 DEF Light
  <2>2. CASE ~s.resBusy /\ t.resBusy
    <3>1. ResolveAsked(s) = {} /\ ResolveWaits(s) = {}
      BY <2>2 DEF Light
    <3>2. \A p \in ResolveAsked(t) : p = q
      BY <3>1 DEF ResolveAsked
    <3> QED BY <1>1, <1>2, <2>2, <3>1, <3>2 DEF Light
  <2> QED BY <2>1, <2>2
<1>4. Weight(q) \in Int /\ Replays(t) <= Replays(s) + 0
  BY <1>2, WeightType, LoadType
<1>5. Load(t) <= Load(s) + Weight(q) + 0 * ReplayWork
  BY <1>1, <1>3, <1>4, LoadBound
<1> QED BY <1>3, <1>4, <1>5, WorkFacts, LoadType

\* Lists more, and one callback more that waits for them.
LEMMA RefetchCosts ==
  ASSUME NEW s, NEW t, NEW n \in Nat, NEW x, t.waits = s.waits \cup {x}, t.again = s.again,
         t.pending = s.pending,
         IsFiniteSet(s.reqs) => IsFiniteSet(t.reqs) /\ Asked(t.reqs) <= Asked(s.reqs) + n,
         ResolveAsked(t) = ResolveAsked(s),
         \/ x.then # "resolve" /\ t.resBusy = s.resBusy
         \/ x.then # "deep" /\ ~s.resBusy /\ t.resBusy
  PROVE  Costs(s, t, IF x.then = "deep" THEN n + ReplayWork ELSE n)
<1> SUFFICES ASSUME Light(s)
             PROVE  Light(t) /\ Load(t) <= Load(s) + (IF x.then = "deep" THEN n + ReplayWork ELSE n)
  BY DEF Costs
<1>1. IsFiniteSet(t.reqs) /\ Asked(t.reqs) <= Asked(s.reqs) + n
  BY DEF Light
<1>2. IsFiniteSet(t.waits)
  <2>1. IsFiniteSet(s.waits)
    BY DEF Light
  <2>2. IsFiniteSet(s.waits \cup {x})
    BY <2>1, FS_AddElement
  <2> QED BY <2>2
<1>3. Light(t)
  <2>1. CASE x.then # "resolve" /\ t.resBusy = s.resBusy
    <3>1. ResolveWaits(t) = ResolveWaits(s)
      BY <2>1 DEF ResolveWaits
    <3> QED BY <1>1, <1>2, <2>1, <3>1 DEF Light
  <2>2. CASE ~s.resBusy /\ t.resBusy
    <3>1. ResolveAsked(s) = {} /\ ResolveWaits(s) = {}
      BY <2>2 DEF Light
    <3>2. \A y \in ResolveWaits(t) : y = x
      BY <3>1 DEF ResolveWaits
    <3> QED BY <1>1, <1>2, <2>2, <3>1, <3>2 DEF Light
  <2> QED BY <2>1, <2>2
<1>4. CASE x.then = "deep"
  <2>1. DeepWaits(t) = DeepWaits(s) \cup {x}
    BY <1>4 DEF DeepWaits
  <2>2. Cardinality(DeepWaits(t)) <= Cardinality(DeepWaits(s)) + 1
    <3>1. /\ IsFiniteSet(DeepWaits(s)) /\ Cardinality(DeepWaits(s)) \in Nat
      BY LoadType
    <3>2. PICK D : D = DeepWaits(s)
      OBVIOUS
    <3>3. Cardinality(D \cup {x}) = IF x \in D THEN Cardinality(D) ELSE Cardinality(D) + 1
      BY ONLY <3>1, <3>2, FS_AddElement
    <3>4. DeepWaits(t) = D \cup {x}
      BY <2>1, <3>2
    <3> QED BY ONLY <3>1, <3>2, <3>3, <3>4
  <2>3. Replays(t) <= Replays(s) + 1
    BY <1>3, <2>2, LoadType DEF Replays
  <2>4. Load(t) <= Load(s) + n + 1 * ReplayWork
    BY <1>1, <1>3, <2>3, LoadBound
  <2> QED BY <1>3, <1>4, <2>4, WorkFacts, LoadType
<1>5. CASE x.then # "deep"
  <2>1. DeepWaits(t) = DeepWaits(s)
    BY <1>5 DEF DeepWaits
  <2>2. Replays(t) <= Replays(s) + 0
    BY <2>1, LoadType DEF Replays
  <2>3. Load(t) <= Load(s) + n + 0 * ReplayWork
    BY <1>1, <1>3, <2>2, LoadBound
  <2> QED BY <1>3, <1>5, <2>3, WorkFacts, LoadType
<1> QED BY <1>4, <1>5

-----------------------------------------------------------------------------
(***************************************************************************)
(* What is asked for.                                                      *)
(***************************************************************************)
SameScreen(s, t) == t.painted = s.painted /\ t.lastPaint = s.lastPaint

\* Growing(s, t): t awaits what s does, and more lists or inventories are read.
Gains(s, t) ==
    /\ Client(t) /\ SameRest(s, t) /\ Net(t)
    /\ AwaitedIn(t) = AwaitedIn(s)
    /\ Aimed(s) => Aimed(t)
    /\ Busy(s) => Busy(t)

\* A list of each source of W is asked for, the older ones will not be used,
\* and one callback more waits for the new ones.
Refetched(s, t, W, then) ==
    /\ Client(t) /\ SameRest(s, t) /\ SameScreen(s, t) /\ Net(t)
    /\ \E x \in WaitRecord : t.waits = s.waits \cup {x} /\ x.then = then /\ x.fresh = TRUE
    /\ \A q \in t.reqs : q.kind # "list" => q \in s.reqs
    /\ \A q \in s.reqs : q.kind # "list" => q \in t.reqs
    /\ \A w \in W : \E q \in t.reqs : q.kind = "list" /\ q.fresh /\ q.ws = w
    /\ \A q \in s.reqs : q.kind = "list" /\ q.fresh /\ q.ws \notin W => q \in t.reqs
    /\ t.resBusy = s.resBusy /\ Asked(t.reqs) <= Asked(s.reqs) + 2 * Cardinality(W)

LEMMA RefetchFacts ==
  ASSUME NEW s, Client(s), Net(s), Set, NEW W \in SUBSET Workspaces, W # {},
         NEW then \in {"land", "overview", "deep", "resolve", "nothing"}, NEW run \in Maybe(Runs)
  PROVE  Refetched(s, RefetchWorkspaceList(s, W, then, run), W, then)
<1> DEFINE demoted(q) == [q EXCEPT !.fresh = q.fresh /\ ~(q.kind = "list" /\ q.ws \in W)]
           old == {demoted(q) : q \in s.reqs}
           asked(w) == Request("list", w, None, NewId(s, w))
           new == {asked(w) : w \in W}
           x == Wait({<<w, NewId(s, w)>> : w \in W}, then, run)
           t == RefetchWorkspaceList(s, W, then, run)
<1>0. s \in Browser /\ s.reqs \subseteq RequestRecord /\ s.waits \subseteq WaitRecord
  BY DEF Client, Browser
<1>1. ASSUME NEW w PROVE NewId(s, w) \in Nat /\ \A q \in Lists(s, w) : q.id # NewId(s, w)
  BY <1>0, NewIdIsNew DEF Net
<1>2. ASSUME NEW q \in RequestRecord
      PROVE  /\ demoted(q) \in RequestRecord
             /\ demoted(q).kind = q.kind /\ demoted(q).ws = q.ws /\ demoted(q).id = q.id
             /\ demoted(q).run = q.run /\ demoted(q).ans = q.ans
             /\ ~(q.kind = "list" /\ q.ws \in W) => demoted(q) = q
  <2>1. q.fresh \in BOOLEAN
    BY DEF RequestRecord
  <2>2. (q.fresh /\ ~(q.kind = "list" /\ q.ws \in W)) \in BOOLEAN
    OBVIOUS
  <2>3. ASSUME NEW f \in BOOLEAN
        PROVE  /\ [q EXCEPT !.fresh = f] \in RequestRecord
               /\ [q EXCEPT !.fresh = f].kind = q.kind /\ [q EXCEPT !.fresh = f].ws = q.ws
               /\ [q EXCEPT !.fresh = f].id = q.id /\ [q EXCEPT !.fresh = f].run = q.run
               /\ [q EXCEPT !.fresh = f].ans = q.ans
               /\ f = q.fresh => [q EXCEPT !.fresh = f] = q
    BY DEF RequestRecord
  <2>4. ~(q.kind = "list" /\ q.ws \in W) => (q.fresh /\ ~(q.kind = "list" /\ q.ws \in W)) = q.fresh
    BY <2>1
  <2> QED BY <2>2, <2>3, <2>4
<1>3. ASSUME NEW w \in W
      PROVE  /\ asked(w) \in RequestRecord /\ asked(w).kind = "list" /\ asked(w).ws = w
             /\ asked(w).id = NewId(s, w) /\ asked(w).fresh = TRUE /\ asked(w).ans = None
  BY <1>1 DEF Request, RequestRecord, All, Maybe
<1>4. /\ x \in WaitRecord /\ x.then = then /\ x.fresh = TRUE
      /\ x.on = {<<w, NewId(s, w)>> : w \in W}
  <2>1. {<<w, NewId(s, w)>> : w \in W} \subseteq Workspaces \X Nat
    BY <1>1
  <2> QED BY <2>1 DEF Wait, WaitRecord
<1> HIDE DEF demoted, asked
<1>5. old \subseteq RequestRecord /\ new \subseteq RequestRecord
  <2>1. \A q \in s.reqs : demoted(q) \in RequestRecord
    BY <1>0, <1>2
  <2>2. \A w \in W : asked(w) \in RequestRecord
    BY <1>3
  <2> QED BY <2>1, <2>2
<1>6. t = [s EXCEPT !.reqs = old \cup new, !.waits = s.waits \cup {x}]
  BY <1>0 DEF RefetchWorkspaceList, Browser, demoted, asked
<1> HIDE DEF t, old, new, x
<1>7. /\ t \in Browser /\ t.reqs = old \cup new /\ t.waits = s.waits \cup {x}
      /\ SameRest(s, t) /\ SameScreen(s, t) /\ t.hash = s.hash /\ t.resBusy = s.resBusy
  <2>1. old \cup new \subseteq RequestRecord /\ s.waits \cup {x} \subseteq WaitRecord
    BY <1>0, <1>4, <1>5
  <2> QED BY <1>0, <1>6, <2>1 DEF Browser, SameRest, SameScreen
<1>8. \A q \in t.reqs : \/ \E p \in s.reqs : q = demoted(p)
                        \/ \E w \in W : q = asked(w)
  BY <1>7 DEF old, new
<1>9. /\ \A p \in s.reqs : demoted(p) \in t.reqs
      /\ \A w \in W : asked(w) \in t.reqs
  BY <1>7 DEF old, new
<1>10. /\ \A q \in t.reqs : q.kind # "list" => q \in s.reqs
       /\ \A q \in s.reqs : q.kind # "list" => q \in t.reqs
       /\ \A w \in W : \E q \in t.reqs : q.kind = "list" /\ q.fresh /\ q.ws = w
       /\ \A q \in s.reqs : q.kind = "list" /\ q.fresh /\ q.ws \notin W => q \in t.reqs
  <2>1. ASSUME NEW q \in t.reqs, q.kind # "list" PROVE q \in s.reqs
    <3>0. \A w \in W : q # asked(w)
      BY <1>3, <2>1
    <3>1. PICK p \in s.reqs : q = demoted(p)
      BY <1>8, <2>1, <3>0
    <3> QED BY <1>0, <1>2, <2>1, <3>1
  <2>2. ASSUME NEW q \in s.reqs, ~(q.kind = "list" /\ q.ws \in W) PROVE q \in t.reqs
    <3>1. demoted(q) = q
      BY <1>0, <1>2, <2>2
    <3> QED BY <1>9, <3>1
  <2>3. \A w \in W : \E q \in t.reqs : q.kind = "list" /\ q.fresh /\ q.ws = w
    BY <1>3, <1>9
  <2> QED BY <2>1, <2>2, <2>3
<1>11. Net(t)
  <2>1. IsFiniteSet(t.reqs)
    <3>1. IsFiniteSet(old)
      <4> DEFINE f == [q \in s.reqs |-> demoted(q)]
      <4>1. old = {f[q] : q \in s.reqs}
        BY DEF old
      <4>2. IsFiniteSet(s.reqs) /\ DOMAIN f = s.reqs
        BY DEF Net
      <4> HIDE DEF f
      <4> QED BY <4>1, <4>2, ImageIsFinite
    <3>2. IsFiniteSet(new)
      <4> DEFINE f == [w \in W |-> asked(w)]
      <4>1. new = {f[w] : w \in W}
        BY DEF new
      <4>2. IsFiniteSet(W) /\ DOMAIN f = W
        BY ClientAssumption, FS_Subset
      <4> HIDE DEF f
      <4> QED BY <4>1, <4>2, ImageIsFinite
    <3>3. IsFiniteSet(old \cup new)
      BY ONLY <3>1, <3>2, FS_Union
    <3> QED BY <1>7, <3>3
  <2>2. \A q \in t.reqs : RequestOK(q)
    <3>1. ASSUME NEW p \in s.reqs PROVE RequestOK(demoted(p))
      <4>1. RequestOK(p) /\ p \in RequestRecord
        BY <1>0 DEF Net
      <4> QED BY <4>1, <1>2 DEF RequestOK
    <3>2. ASSUME NEW w \in W PROVE RequestOK(asked(w))
      BY <1>3 DEF RequestOK
    <3> QED BY <1>8, <3>1, <3>2
  <2>3. \A y \in t.waits : y.on # {}
    <3>1. x.on # {}
      BY <1>4
    <3>2. \A y \in s.waits : y.on # {}
      BY DEF Net
    <3> QED BY <1>7, <3>1, <3>2
  <2>4. ASSUME NEW y \in t.waits, NEW p \in y.on PROVE Listed(t, p)
    <3>1. CASE y \in s.waits
      <4>1. PICK q \in s.reqs : q.kind = "list" /\ p = <<q.ws, q.id>>
        BY <2>4, <3>1 DEF Net, Listed
      <4> QED BY <1>0, <1>2, <1>9, <4>1 DEF Listed
    <3>2. CASE y = x
      <4>1. PICK w \in W : p = <<w, NewId(s, w)>>
        BY <1>4, <2>4, <3>2
      <4> QED BY <1>3, <1>9, <4>1 DEF Listed
    <3> QED BY <1>7, <3>1, <3>2
  <2>5. ASSUME NEW y \in s.waits, y.on \cap x.on # {} PROVE FALSE
    <3>1. PICK p : p \in y.on /\ p \in x.on
      BY <2>5
    <3>2. PICK w \in W : p = <<w, NewId(s, w)>>
      BY <1>4, <3>1
    <3>3. PICK q \in s.reqs : q.kind = "list" /\ p = <<q.ws, q.id>>
      BY <3>1 DEF Net, Listed
    <3>4. q \in Lists(s, w) /\ q.id = NewId(s, w)
      BY <3>2, <3>3 DEF Lists
    <3> QED BY <1>1, <3>4
  <2>6. \A y, z \in t.waits : y.on \cap z.on # {} => y = z
    <3>1. \A y, z \in s.waits : y.on \cap z.on # {} => y = z
      BY DEF Net
    <3>2. \A y \in s.waits : y.on \cap x.on = {} /\ x.on \cap y.on = {}
      BY <2>5
    <3> QED BY <1>7, <3>1, <3>2
  <2> QED BY <2>1, <2>2, <2>3, <2>4, <2>6 DEF Net
<1>12. Asked(t.reqs) <= Asked(s.reqs) + 2 * Cardinality(W)
  <2>1. IsFiniteSet(old) /\ Asked(old) <= Asked(s.reqs)
    <3> DEFINE f == [q \in s.reqs |-> demoted(q)]
    <3>1. old = {f[q] : q \in s.reqs}
      BY DEF old
    <3>2. /\ IsFiniteSet(s.reqs) /\ DOMAIN f = s.reqs
          /\ \A q \in s.reqs : f[q].kind = q.kind /\ f[q].ans = q.ans
      BY <1>0, <1>2 DEF Net
    <3> HIDE DEF f
    <3> QED BY <3>1, <3>2, AskedImage
  <2>2. IsFiniteSet(new) /\ Cardinality(new) <= Cardinality(W) /\ Cardinality(W) \in Nat
    <3> DEFINE f == [w \in W |-> asked(w)]
    <3>1. new = {f[w] : w \in W}
      BY DEF new
    <3>2. IsFiniteSet(W) /\ DOMAIN f = W /\ Cardinality(W) \in Nat
      BY ClientAssumption, FS_Subset, FS_CardinalityType
    <3> HIDE DEF f
    <3> QED BY <3>1, <3>2, ImageIsFinite
  <2>3. ASSUME NEW q \in new PROVE q.kind = "list" /\ q.ans = None
    <3>1. PICK w \in W : q = asked(w)
      BY DEF new
    <3> QED BY <1>3, <3>1
  <2>4. Asked(new) = 2 * Cardinality(new) /\ Cardinality(new) \in Nat
    BY <2>2, <2>3, AskedLists, FS_CardinalityType
  <2>5. Asked(t.reqs) <= Asked(old) + Asked(new) /\ Asked(t.reqs) \in Nat
    BY <1>7, <2>1, <2>2, AskedUnion, AskedType
  <2>6. Asked(s.reqs) \in Nat /\ Asked(old) \in Nat
    BY <2>1, AskedType DEF Net
  <2> QED BY <2>1, <2>2, <2>4, <2>5, <2>6
<1> QED BY <1>4, <1>7, <1>10, <1>11, <1>12 DEF Refetched, Client, t

LEMMA SameReqsGains ==
  ASSUME NEW s, NEW t, Client(t), Net(s), SameRest(s, t), SameReqs(s, t)
  PROVE  Gains(s, t)
<1>1. Net(t) /\ AwaitedIn(t) = AwaitedIn(s)
  BY DEF Net, Listed, AwaitedIn, SameReqs
<1>2. Aimed(s) => Aimed(t)
  BY DEF Aimed, Moved, SameRest, SameReqs
<1>3. Busy(s) => Busy(t)
  BY DEF Busy, ListComing, SameRest, SameReqs
<1> QED BY <1>1, <1>2, <1>3 DEF Gains

LEMMA SameNetGains ==
  ASSUME NEW s, NEW t, Client(t), Net(s), SameRest(s, t), SameNet(s, t)
  PROVE  Gains(s, t)
BY SameReqsGains DEF SameReqs, SameNet

\* What is asked for a view whose callback is not the deep one.
LEMMA RefetchedCosts ==
  ASSUME NEW s, NEW t, NEW W \in SUBSET Workspaces, NEW then, then # "resolve",
         Refetched(s, t, W, then)
  PROVE  LET n == 2 * Cardinality(W) IN
         Costs(s, t, IF then = "deep" THEN n + ReplayWork ELSE n)
<1>1. PICK x \in WaitRecord : t.waits = s.waits \cup {x} /\ x.then = then
  BY DEF Refetched
<1>2. /\ t.again = s.again /\ t.pending = s.pending /\ t.resBusy = s.resBusy /\ IsFiniteSet(t.reqs)
      /\ Asked(t.reqs) <= Asked(s.reqs) + 2 * Cardinality(W)
      /\ ResolveAsked(t) = ResolveAsked(s)
  BY DEF Refetched, SameRest, Net, ResolveAsked
<1>3. 2 * Cardinality(W) \in Nat
  BY ClientAssumption, FS_Subset, FS_CardinalityType
<1>4. PICK n \in Nat : n = 2 * Cardinality(W)
  BY <1>3
<1>5. Costs(s, t, IF x.then = "deep" THEN n + ReplayWork ELSE n)
  BY <1>1, <1>2, <1>4, RefetchCosts
<1> QED BY <1>1, <1>4, <1>5

LEMMA GainsTwice ==
  ASSUME NEW s, NEW t, NEW u, Gains(s, t), Gains(t, u)
  PROVE  Gains(s, u)
BY DEF Gains, SameRest

LEMMA RefetchGains ==
  ASSUME NEW s, NEW t, NEW W, NEW then, then \notin {"land", "overview"}, Refetched(s, t, W, then)
  PROVE  Gains(s, t)
<1>1. PICK x \in WaitRecord : t.waits = s.waits \cup {x} /\ x.then = then /\ x.fresh = TRUE
  BY DEF Refetched
<1>2. /\ \A q \in t.reqs : q.kind # "list" => q \in s.reqs
      /\ \A q \in s.reqs : q.kind # "list" => q \in t.reqs
      /\ \A w \in W : \E q \in t.reqs : q.kind = "list" /\ q.fresh /\ q.ws = w
      /\ \A q \in s.reqs : q.kind = "list" /\ q.fresh /\ q.ws \notin W => q \in t.reqs
  BY DEF Refetched
<1>3. Client(t) /\ SameRest(s, t) /\ Net(t)
  BY DEF Refetched
<1>4. AwaitedIn(t) = AwaitedIn(s)
  <2>1. {q \in t.reqs : q.kind \in {"detail", "runs"}} = {q \in s.reqs : q.kind \in {"detail", "runs"}}
    BY <1>2
  <2>2. {y \in t.waits : y.then \in {"land", "overview"}} = {y \in s.waits : y.then \in {"land", "overview"}}
    BY <1>1
  <2> QED BY <2>1, <2>2 DEF AwaitedIn
<1>5. ASSUME Aimed(s) PROVE Aimed(t)
  <2>1. t.hash = s.hash /\ (Moved(t) <=> Moved(s))
    BY <1>3 DEF SameRest, Moved
  <2>2. \A q \in t.reqs : q.kind \in {"detail", "runs"} => q \in s.reqs
    BY <1>2
  <2>3. \A y \in t.waits : y.then = "overview" => y \in s.waits
    BY <1>1
  <2>4. \A q \in t.reqs : q.kind = "resolve" => q \in s.reqs
    BY <1>2
  <2> QED BY <1>5, <2>1, <2>2, <2>3, <2>4 DEF Aimed
<1>6. ASSUME Busy(s) PROVE Busy(t)
  <2>1. t.hash = s.hash /\ t.again = s.again
    BY <1>3 DEF SameRest
  <2>2. CASE ListComing(s)
    <3>1. PICK q \in s.reqs : q.kind = "list" /\ q.fresh /\ q.ws = s.hash.ws
      BY <2>2 DEF ListComing
    <3>2. ListComing(t)
      BY <1>2, <2>1, <2>2, <3>1 DEF ListComing
    <3> QED BY <3>2 DEF Busy
  <2>3. CASE \E q \in s.reqs : q.kind \in {"detail", "runs"}
    BY <1>2, <2>3 DEF Busy
  <2> QED BY <1>1, <1>6, <2>1, <2>2, <2>3 DEF Busy
<1> QED BY <1>3, <1>4, <1>5, <1>6 DEF Gains

\* One request more, which is not of a list.
FetchKinds == {"detail", "runs", "resolve"}
LEMMA FetchFacts ==
  ASSUME NEW s, Client(s), NEW kind \in FetchKinds, NEW w \in All,
         NEW run \in Maybe(Runs)
  PROVE  LET q == Request(kind, w, run, 0)
             t == Fetch(s, kind, w, run) IN
         /\ Client(t) /\ SameRest(s, t) /\ SameScreen(s, t) /\ t.waits = s.waits
         /\ t.reqs = s.reqs \cup {q} /\ t.resBusy = s.resBusy
         /\ q.kind = kind /\ q.ws = w /\ q.run = run /\ q.fresh = TRUE /\ q.ans = None
         /\ Net(s) /\ RequestOK(q) => Net(t)
<1> DEFINE q == Request(kind, w, run, 0)
           t == Fetch(s, kind, w, run)
<1>1. /\ q \in RequestRecord /\ q.kind = kind /\ q.ws = w /\ q.run = run /\ q.fresh = TRUE
      /\ q.ans = None
  BY DEF FetchKinds, Request, RequestRecord, Maybe
<1>2. t = [s EXCEPT !.reqs = s.reqs \cup {q}]
  BY DEF Fetch, Client, Browser
<1> HIDE DEF q, t
<1>3. s.reqs \cup {q} \subseteq RequestRecord
  BY <1>1 DEF Client, Browser
<1>4. /\ t \in Browser /\ SameRest(s, t) /\ SameScreen(s, t) /\ t.waits = s.waits
      /\ t.reqs = s.reqs \cup {q} /\ t.hash = s.hash /\ t.resBusy = s.resBusy
  BY <1>2, <1>3 DEF Client, Browser, SameRest, SameScreen
<1>5. ASSUME Net(s), RequestOK(q) PROVE Net(t)
  <2>1. IsFiniteSet(t.reqs)
    BY <1>4, <1>5, FS_AddElement DEF Net
  <2>2. \A p : Listed(s, p) => Listed(t, p)
    BY <1>4 DEF Listed
  <2> QED BY <1>4, <1>5, <2>1, <2>2 DEF Net
<1> QED BY <1>1, <1>4, <1>5 DEF Client, q, t

LEMMA AcquireGains ==
  ASSUME NEW s, Client(s), Net(s), s.hash.run # None
  PROVE  LET t == AcquireInventoryForResolution(s, s.hash) IN
         /\ Gains(s, t) /\ SameScreen(s, t)
         /\ Costs(s, t, 2) /\ (s.resBusy => SameNet(s, t))
<1> DEFINE r == s.hash
           u == [s EXCEPT !.resBusy = TRUE, !.resTried = r.run]
<1>0. /\ r.run \in Runs /\ r.ws \in All /\ (Set => r.ws \in Workspaces)
      /\ r.run \in Maybe(Runs)
  BY DEF Client, AddressFits, WellFormed, Maybe, All
<1>1. Client(u) /\ SameRest(s, u) /\ SameReqs(s, u) /\ SameScreen(s, u) /\ u.hash = r /\ u.resBusy = TRUE
  BY <1>0 DEF Client, Browser, SameRest, SameReqs, SameScreen
<1> HIDE DEF u
<1>2. Gains(s, u) /\ Net(u)
  BY <1>1, SameReqsGains DEF Gains
<1>3. CASE s.resBusy \/ s.resTried = r.run
  <2>1. AcquireInventoryForResolution(s, r) = s
    BY <1>3 DEF AcquireInventoryForResolution
  <2>2. Gains(s, s) /\ SameScreen(s, s) /\ SameNet(s, s)
    BY SameNetGains DEF SameRest, SameNet, SameScreen
  <2>3. Costs(s, s, 2)
    BY <2>2, CostsSame, CostsMore
  <2> QED BY <2>1, <2>2, <2>3
<1>4. CASE Set /\ ~(s.resBusy \/ s.resTried = r.run)
  <2> DEFINE t == RefetchWorkspaceList(u, {r.ws}, "resolve", r.run)
  <2>1. Refetched(u, t, {r.ws}, "resolve")
    <3>1. {r.ws} \in SUBSET Workspaces /\ {r.ws} # {}
      BY <1>0, <1>4
    <3>2. "resolve" \in {"land", "overview", "deep", "resolve", "nothing"}
      OBVIOUS
    <3> QED BY <1>0, <1>1, <1>2, <1>4, <3>1, <3>2, RefetchFacts
  <2> HIDE DEF t
  <2>2. Gains(u, t)
    BY <2>1, RefetchGains
  <2>3. Gains(s, t) /\ SameScreen(s, t)
    BY <1>1, <1>2, <2>1, <2>2, GainsTwice DEF Refetched, SameScreen
  <2>4. Costs(s, t, 2)
    <3>1. PICK x \in WaitRecord : t.waits = s.waits \cup {x} /\ x.then = "resolve"
      BY <1>1, <2>1 DEF Refetched, SameReqs
    <3>2. Cardinality({r.ws}) = 1
      BY FS_Singleton
    <3>3. /\ t.again = s.again /\ t.pending = s.pending /\ t.resBusy /\ IsFiniteSet(t.reqs)
          /\ Asked(t.reqs) <= Asked(s.reqs) + 2 /\ ResolveAsked(t) = ResolveAsked(s)
      BY <1>1, <2>1, <3>2 DEF Refetched, SameReqs, SameRest, Net, ResolveAsked
    <3>4. Costs(s, t, IF x.then = "deep" THEN 2 + ReplayWork ELSE 2)
      BY <1>4, <3>1, <3>3, RefetchCosts
    <3> QED BY <3>1, <3>4
  <2> QED BY <1>4, <2>3, <2>4 DEF AcquireInventoryForResolution, t, u
<1>5. CASE ~Set /\ ~(s.resBusy \/ s.resTried = r.run)
  <2> DEFINE q == Request("resolve", None, r.run, 0)
             t == Fetch(u, "resolve", None, r.run)
  <2>1. None \in All /\ "resolve" \in FetchKinds
    BY DEF All, FetchKinds
  <2>2. /\ Client(t) /\ SameRest(u, t) /\ SameScreen(u, t) /\ t.waits = u.waits
        /\ t.reqs = u.reqs \cup {q} /\ t.resBusy = u.resBusy
        /\ q.kind = "resolve" /\ q.ws = None /\ q.run = r.run /\ q.fresh = TRUE /\ q.ans = None
        /\ Net(u) /\ RequestOK(q) => Net(t)
    BY <1>0, <1>1, <2>1, FetchFacts
  <2> HIDE DEF q, t
  <2>3. RequestOK(q)
    BY <1>0, <2>2 DEF RequestOK
  <2>4. AwaitedIn(t) = AwaitedIn(u)
    BY <2>2 DEF AwaitedIn
  <2>5. Aimed(u) => Aimed(t)
    <3>1. t.hash.run # None /\ (Moved(u) <=> Moved(t)) /\ t.hash = u.hash
      BY <1>0, <1>1, <2>2, ClientAssumption DEF SameRest, Moved
    <3> QED BY <2>2, <3>1 DEF Aimed
  <2>6. Busy(u) => Busy(t)
    BY <2>2 DEF Busy, ListComing, SameRest
  <2>7. Gains(u, t)
    BY <1>2, <2>2, <2>3, <2>4, <2>5, <2>6 DEF Gains
  <2>8. Gains(s, t) /\ SameScreen(s, t)
    BY <1>1, <1>2, <2>2, <2>7, GainsTwice DEF SameScreen
  <2>9. Costs(s, t, 2)
    <3>1. /\ t.reqs = s.reqs \cup {q} /\ t.waits = s.waits /\ t.again = s.again /\ t.resBusy
          /\ t.pending = s.pending
      BY <1>1, <2>2 DEF SameReqs, SameRest
    <3>2. Costs(s, t, Weight(q))
      BY <1>5, <3>1, FetchCosts
    <3>3. Weight(q) = 2
      BY <2>2, WeightType
    <3> QED BY <3>2, <3>3
  <2> QED BY <1>5, <2>8, <2>9 DEF AcquireInventoryForResolution, t, u
<1> QED BY <1>3, <1>4, <1>5

LEMMA ClassifyFacts ==
  ASSUME NEW s, Client(s), NEW failure \in Failures, Net(s) \/ s.hash.run = None
  PROVE  LET t == Classify(s, failure) IN
         /\ Client(t) /\ SameRest(s, t) /\ SameScreen(s, t)
         /\ s.hash.run = None \/ failure \notin Losses \/ s.resBusy => SameNet(s, t)
         /\ Net(s) => Gains(s, t) /\ Costs(s, t, 2)
<1> DEFINE r == s.hash
           unavailable == r.run # None /\ failure # "render"
           loss == r.run # None /\ failure \in Losses
           for == IF loss THEN r.run ELSE None
           u == [s EXCEPT !.detail = IF unavailable THEN None ELSE @,
                          !.conflict = @ /\ ~unavailable,
                          !.detailId = IF loss THEN None ELSE @,
                          !.resTried = IF @ # for THEN None ELSE @,
                          !.dead = IF loss THEN [run |-> r.run, failure |-> failure] ELSE None]
<1>0. r.run \in Maybe(Runs) /\ (loss => r.run \in Runs)
  BY DEF Client, AddressFits, WellFormed, Maybe
<1>1. u \in Browser
  <2>1. /\ (IF unavailable THEN None ELSE s.detail) \in DetailType
        /\ (s.conflict /\ ~unavailable) \in BOOLEAN
        /\ (IF loss THEN None ELSE s.detailId) \in Maybe(Runs)
        /\ (IF s.resTried # for THEN None ELSE s.resTried) \in Maybe(Runs)
        /\ (IF loss THEN [run |-> r.run, failure |-> failure] ELSE None)
             \in Maybe([run: Runs, failure: Losses])
    BY <1>0 DEF Client, Browser, DetailType, Maybe
  <2>2. ASSUME NEW f1 \in DetailType, NEW f2 \in BOOLEAN, NEW f3 \in Maybe(Runs), NEW f4 \in Maybe(Runs),
               NEW f5 \in Maybe([run: Runs, failure: Losses])
        PROVE  [s EXCEPT !.detail = f1, !.conflict = f2, !.detailId = f3, !.resTried = f4, !.dead = f5]
                 \in Browser
    BY DEF Client, Browser
  <2> QED BY ZenonT(60), <2>1, <2>2
<1>2. SameRest(s, u) /\ SameScreen(s, u) /\ SameNet(s, u) /\ u.hash = s.hash
  BY DEF Client, Browser, SameRest, SameScreen, SameNet
<1>3. Client(u)
  BY <1>1, <1>2 DEF Client
<1>4. Classify(s, failure) = IF loss /\ ~HeldRows(u, r.ws) THEN AcquireInventoryForResolution(u, r) ELSE u
  BY DEF Classify
<1> HIDE DEF u
<1>5. Net(s) => Gains(s, u) /\ Net(u)
  BY <1>2, <1>3, SameNetGains DEF Gains
<1>8. Costs(s, u, 0) /\ u.again = s.again /\ u.resBusy = s.resBusy
  BY <1>2, CostsSame DEF SameRest, SameNet
<1>6. CASE Classify(s, failure) = u
  <2>1. Costs(s, u, 2)
    BY <1>8, CostsMore
  <2> QED BY <1>2, <1>3, <1>5, <1>6, <2>1
<1>7. CASE loss /\ Classify(s, failure) = AcquireInventoryForResolution(u, r)
  <2>1. Net(u) /\ Gains(s, u)
    BY <1>5, <1>7
  <2>2. LET t == AcquireInventoryForResolution(u, u.hash) IN
        /\ Gains(u, t) /\ SameScreen(u, t)
        /\ Costs(u, t, 2) /\ (u.resBusy => SameNet(u, t))
    BY <1>2, <1>3, <1>7, <2>1, AcquireGains
  <2> DEFINE t == AcquireInventoryForResolution(u, r)
  <2>3. /\ Gains(u, t) /\ SameScreen(u, t)
        /\ Costs(u, t, 2) /\ (u.resBusy => SameNet(u, t))
    BY <1>2, <2>2
  <2> HIDE DEF t
  <2>4. Gains(s, t) /\ SameScreen(s, t)
    BY <1>2, <2>1, <2>3, GainsTwice DEF SameScreen
  <2>5. Costs(s, t, 2)
    BY <1>2, <1>8, <2>3, CostsPainted
  <2>6. s.resBusy => SameNet(s, t)
    BY <1>2, <1>8, <2>3 DEF SameNet
  <2> QED BY <1>7, <2>4, <2>5, <2>6 DEF Gains, t
<1> QED BY <1>4, <1>6, <1>7

LEMMA DropsDetail ==
  ASSUME NEW s, NEW t, DrawsFailure(s, t)
  PROVE  LET u == [t EXCEPT !.detail = None, !.conflict = FALSE] IN
         DrawsFailure(s, u) /\ SameNet(t, u) /\ (Calm(u) <=> Calm(t)) /\ u.lastPaint = t.lastPaint
<1> DEFINE u == [t EXCEPT !.detail = None, !.conflict = FALSE]
<1>1. /\ u \in Browser /\ SameRest(t, u) /\ SameNet(t, u) /\ u.hash = t.hash
      /\ u.painted = t.painted /\ u.lastPaint = t.lastPaint
  <2>1. t \in Browser /\ None \in DetailType
    BY DEF DrawsFailure, Draws, Client, DetailType, Maybe
  <2> QED BY <2>1 DEF Browser, SameRest, SameNet
<1> HIDE DEF u
<1>2. Draws(s, u)
  BY <1>1 DEF DrawsFailure, Draws, Client, SameRest, Recorded, PaneFits, Calm
<1> QED BY <1>1, <1>2 DEF DrawsFailure, Calm, u

\* renderProjectionFailure always paints a failure of the address, whichever
\* of its branches it takes, and one that says the run is not projected only
\* if that is what the failure says.
LEMMA ProjectionFailurePainted ==
  ASSUME NEW s, Client(s), NEW failure \in Failures, Net(s) \/ s.hash.run = None
  PROVE  LET t == RenderProjectionFailure(s, failure) IN
         /\ DrawsFailure(s, t) /\ Cites(t, failure) /\ t.lastPaint.failure = failure
         /\ s.hash.run = None \/ failure \notin Losses \/ s.resBusy => SameNet(s, t)
         /\ Net(s) => Gains(s, t) /\ Costs(s, t, 2)
<1> DEFINE r == s.hash
           c == Classify(s, failure)
           dropped(u) == [u EXCEPT !.detail = None, !.conflict = FALSE]
           t == RenderProjectionFailure(s, failure)
           Good(u) == /\ DrawsFailure(s, u) /\ SameNet(c, u)
                      /\ Cites(u, failure) /\ u.lastPaint.failure = failure
<1>1. /\ Client(c) /\ SameRest(s, c)
      /\ r.run = None \/ failure \notin Losses \/ s.resBusy => SameNet(s, c)
      /\ Net(s) => Gains(s, c) /\ Costs(s, c, 2)
  BY ClassifyFacts
<1>2. r.ws \in All /\ r.run \in Maybe(Runs) /\ failure \in Maybe(Failures) /\ c.hash = r
  BY <1>1 DEF Client, AddressFits, WellFormed, SameRest, Maybe
<1>3. ASSUME NEW cls \in ViewClasses, cls \in LossClasses => r.run # None /\ failure \in Grounds(cls)
      PROVE  LET u == RenderFollowErrorView(c, r.ws, r.run, cls, failure) IN Good(u)
  <2>1. cls \in Maybe(ViewClasses) /\ <<r.ws, r.run>> = Subject(c.hash)
    BY <1>2 DEF Maybe, Subject
  <2> DEFINE u == RenderFollowErrorView(c, r.ws, r.run, cls, failure)
  <2> HIDE DEF c, r
  <2>2. /\ DrawsFailure(c, u) /\ SameNet(c, u) /\ (~Calm(u) => failure \in Grounds(cls))
        /\ u.lastPaint.failure = failure
    BY <1>1, <1>2, <1>3, <2>1, FollowErrorPainted
  <2>4. Cites(u, failure)
    BY <2>2, GroundsTell DEF Cites
  <2> HIDE DEF u
  <2>3. DrawsFailure(s, u)
    BY <1>1, <2>2 DEF DrawsFailure, Draws, SameRest
  <2> QED BY <2>2, <2>3, <2>4 DEF u
<1>4. LET u == RenderUnavailable(c, failure) IN Good(u)
  <2> DEFINE u == RenderUnavailable(c, failure)
  <2> HIDE DEF c
  <2>1. /\ DrawsFailure(c, u) /\ SameNet(c, u) /\ Cites(u, failure)
        /\ u.lastPaint.failure = failure
    BY <1>1, <1>2, UnavailablePainted
  <2> HIDE DEF u
  <2>2. DrawsFailure(s, u)
    BY <1>1, <2>1 DEF DrawsFailure, Draws, SameRest
  <2> QED BY <2>1, <2>2 DEF u
<1>5. ASSUME NEW u, Good(u) PROVE Good(dropped(u))
  BY <1>5, DropsDetail DEF SameNet, Cites
<1>6. \/ \E cls \in ViewClasses :
           /\ cls \in LossClasses => r.run # None /\ failure \in Grounds(cls)
           /\ \/ t = RenderFollowErrorView(c, r.ws, r.run, cls, failure)
              \/ t = dropped(RenderFollowErrorView(c, r.ws, r.run, cls, failure))
      \/ t = RenderUnavailable(c, failure)
      \/ t = dropped(RenderUnavailable(c, failure))
  <2>1. {"degraded", "identity_conflict", "render_failure", "snapshot_unavailable"} \subseteq ViewClasses
    BY DEF ViewClasses, FollowStates
  <2>4. {"identity_conflict", "render_failure", "snapshot_unavailable"} \cap LossClasses = {}
    BY DEF LossClasses
  <2> DEFINE following == r.follow /\ r.run # None
             conflict == /\ r.follow /\ r.run # None /\ s.conflict
                         /\ s.detail # None /\ s.detail.run # r.run
             known == c.detailId = r.run /\ (Set => c.detailWs = r.ws)
             follow(cls) == RenderFollowErrorView(c, r.ws, r.run, cls, failure)
             plain == RenderUnavailable(c, failure)
  <2>2. t = CASE following /\ failure \in Losses -> follow("degraded")
              [] following /\ failure = "render" /\ conflict -> dropped(follow("identity_conflict"))
              [] following /\ failure = "render" /\ ~conflict /\ known -> dropped(follow("render_failure"))
              [] following /\ failure = "render" /\ ~conflict /\ ~known -> follow("snapshot_unavailable")
              [] following /\ failure \in {"limit", "failed"} -> follow("snapshot_unavailable")
              [] ~following /\ failure = "render" -> dropped(plain)
              [] OTHER -> plain
    BY DEF RenderProjectionFailure
  <2>5. following => r.run # None
    OBVIOUS
  <2> HIDE DEF t, c, dropped, follow, plain, known, conflict, following
  <2>3. \/ \E cls \in ViewClasses : /\ cls \in LossClasses => r.run # None /\ failure \in Grounds(cls)
                                    /\ t = follow(cls) \/ t = dropped(follow(cls))
        \/ t = plain \/ t = dropped(plain)
    <3>1. CASE following /\ failure \in Losses
      <4>1. "degraded" \in ViewClasses /\ failure \in Grounds("degraded")
        BY <2>1, <3>1, GroundsTell
      <4>2. t = follow("degraded")
        BY <2>2, <3>1 DEF Losses
      <4> QED BY <2>5, <3>1, <4>1, <4>2
    <3>2. CASE ~(following /\ failure \in Losses)
      BY <2>1, <2>2, <2>4, <3>2
    <3> QED BY <3>1, <3>2
  <2>6. ASSUME NEW cls \in ViewClasses
        PROVE  /\ follow(cls) = RenderFollowErrorView(c, r.ws, r.run, cls, failure)
               /\ dropped(follow(cls)) = dropped(RenderFollowErrorView(c, r.ws, r.run, cls, failure))
    BY DEF follow
  <2>7. /\ plain = RenderUnavailable(c, failure)
        /\ dropped(plain) = dropped(RenderUnavailable(c, failure))
    BY DEF plain
  <2>8. CASE \E cls \in ViewClasses : /\ cls \in LossClasses => r.run # None /\ failure \in Grounds(cls)
                                      /\ t = follow(cls) \/ t = dropped(follow(cls))
    <3>1. PICK cls \in ViewClasses : /\ cls \in LossClasses => r.run # None /\ failure \in Grounds(cls)
                                     /\ t = follow(cls) \/ t = dropped(follow(cls))
      BY <2>8
    <3>2. \/ t = RenderFollowErrorView(c, r.ws, r.run, cls, failure)
          \/ t = dropped(RenderFollowErrorView(c, r.ws, r.run, cls, failure))
      BY <3>1, <2>6
    <3> HIDE DEF r
    <3> QED BY <3>1, <3>2
  <2> QED BY <2>3, <2>7, <2>8
<1> HIDE DEF c, dropped, t
<1>7. Good(t)
  BY <1>3, <1>4, <1>5, <1>6
<1>8. r.run = None \/ failure \notin Losses \/ s.resBusy => SameNet(s, t)
  BY <1>1, <1>7 DEF SameNet
<1>9. ASSUME Net(s) PROVE Gains(s, t) /\ Costs(s, t, 2)
  <2>1. SameRest(c, t) /\ Client(t)
    BY <1>1, <1>7 DEF DrawsFailure, Draws, SameRest
  <2>2. Gains(c, t)
    BY <1>1, <1>7, <1>9, <2>1, SameNetGains DEF Gains
  <2>3. Costs(s, t, 2)
    BY <1>1, <1>7, <1>9, <2>1, CostsPainted DEF SameRest
  <2> QED BY <1>1, <1>9, <2>2, <2>3, GainsTwice
<1> QED BY <1>7, <1>8, <1>9 DEF t

\* A painting that shows the address, with what it asks for.
Shows(s, t) == Draws(s, t) /\ Fits(t) /\ Gains(s, t)

\* What repaints at most what is there already, or what the address asks for.
Keeps(s, t) ==
    /\ Gains(s, t)
    /\ Recorded(s) => Recorded(t)
    /\ Fits(s) => Fits(t)
    /\ PaneFits(s) => PaneFits(t)

LEMMA ShowsKeeps ==
  ASSUME NEW s, NEW t, Shows(s, t)
  PROVE  Keeps(s, t)
BY DEF Shows, Keeps, Draws

LEMMA KeepsInv ==
  ASSUME NEW s, NEW t, BrowserInv(s), Keeps(s, t)
  PROVE  BrowserInv(t)
<1>1. Client(t) /\ Net(t) /\ Recorded(t) /\ Aimed(t) /\ SameRest(s, t)
  BY DEF BrowserInv, Keeps, Gains
<1>2. Flying(t)
  BY DEF BrowserInv, Flying, Keeps, Gains, SameRest
<1>3. Addressed(t)
  BY <1>1 DEF BrowserInv, Addressed, SameRest
<1>4. ScreenKept(t)
  <2>1. (Moved(s) <=> Moved(t)) /\ (s.pending <=> t.pending)
    BY <1>1 DEF Moved, SameRest
  <2>2. (Fits(s) => Fits(t)) /\ (PaneFits(s) => PaneFits(t)) /\ (Busy(s) => Busy(t))
    BY DEF Keeps, Gains
  <2> QED BY <2>1, <2>2 DEF BrowserInv, ScreenKept
<1> QED BY <1>1, <1>2, <1>3, <1>4 DEF BrowserInv

\* What repaints no loss that was not painted already.
LEMMA KeepsNoLoss ==
  ASSUME NEW s, NEW t, Keeps(s, t), SameLoss(s, t)
  PROVE  NoNewLoss(s, t)
<1>1. t.hash = s.hash /\ (Moved(s) <=> Moved(t)) /\ (Busy(s) => Busy(t))
  BY DEF Keeps, Gains, SameRest, Moved
<1> QED BY <1>1 DEF NoNewLoss, SameLoss, Excused

LEMMA KeepsTwice ==
  ASSUME NEW s, NEW t, NEW u, Keeps(s, t), Keeps(t, u)
  PROVE  Keeps(s, u)
BY GainsTwice DEF Keeps

\* What changes nothing that is asked for or painted.
LEMMA QuietKeeps ==
  ASSUME NEW s, NEW t, Net(s), Client(t), SameRest(s, t), SameReqs(s, t), SameScreen(s, t)
  PROVE  Keeps(s, t) /\ NoNewLoss(s, t)
<1>1. Gains(s, t)
  BY SameReqsGains
<1>2. Recorded(s) => Recorded(t)
  BY DEF Recorded, Calm, SameScreen
<1>3. (Fits(s) => Fits(t)) /\ (PaneFits(s) => PaneFits(t))
  BY DEF Fits, PaneFits, SameScreen, SameRest
<1>4. Keeps(s, t)
  BY <1>1, <1>2, <1>3 DEF Keeps
<1> QED BY <1>4, KeepsNoLoss DEF SameScreen, SameLoss, Calm

LEMMA RefetchKeeps ==
  ASSUME NEW s, NEW t, NEW W, NEW then, then \notin {"land", "overview"}, Refetched(s, t, W, then)
  PROVE  Keeps(s, t) /\ NoNewLoss(s, t)
<1>1. Gains(s, t)
  BY RefetchGains
<1>2. Recorded(s) => Recorded(t)
  BY DEF Recorded, Calm, SameScreen, Refetched
<1>3. (Fits(s) => Fits(t)) /\ (PaneFits(s) => PaneFits(t))
  BY DEF Fits, PaneFits, SameScreen, SameRest, Refetched
<1>4. Keeps(s, t)
  BY <1>1, <1>2, <1>3 DEF Keeps
<1> QED BY <1>4, KeepsNoLoss DEF Refetched, SameScreen, SameLoss, Calm

LEMMA ErrorPainted ==
  ASSUME NEW s, Client(s), Net(s), s.hash.view # "workspaces", NEW thrown
  PROVE  LET t == RenderError(s, thrown) IN Shows(s, t) /\ Calm(t) /\ SameNet(s, t)
<1>1. LET t == RenderMonitorDefect(s) IN
      DrawsFailure(s, t) /\ Gains(s, t) /\ Calm(t) /\ SameNet(s, t)
  BY DefectPainted, SameNetGains DEF DrawsFailure, Draws
<1>2. "render" \in Failures /\ "render" \notin Absences /\ "render" \notin Losses
  BY DEF Failures, Absences, Losses
<1>3. LET t == RenderProjectionFailure(s, "render") IN
      DrawsFailure(s, t) /\ Gains(s, t) /\ Calm(t) /\ SameNet(s, t)
  BY <1>2, ProjectionFailurePainted DEF Cites
<1>4. PICK t : /\ t = RenderError(s, thrown)
               /\ DrawsFailure(s, t) /\ Gains(s, t) /\ Calm(t) /\ SameNet(s, t)
  BY <1>1, <1>3 DEF RenderError
<1> QED BY <1>4, FailureFits DEF Shows, DrawsFailure

LEMMA GuardedPainted ==
  ASSUME NEW s, Client(s), Net(s) \/ s.hash.run = None
  PROVE  LET t == RenderCurrentGuarded(s) IN
         /\ Draws(s, t) /\ Fits(t) /\ Calm(t) /\ SameNet(s, t)
         /\ Net(s) => Shows(s, t)
<1> DEFINE t == RenderCurrent(s)
           u == RenderCurrentGuarded(s)
<1>1. /\ Client(t) /\ SameRest(s, t) /\ SameNet(s, t) /\ Calm(t)
      /\ Throws(s) = None => Draws(s, t) /\ Fits(t)
  BY CurrentPainted
<1>2. Net(s) => Gains(s, t)
  BY <1>1, SameNetGains
<1>3. CASE Throws(s) = None
  <2>1. u = t
    BY <1>3 DEF RenderCurrentGuarded
  <2> HIDE DEF t, u
  <2> QED BY <1>1, <1>2, <1>3, <2>1 DEF Shows, u
<1>4. CASE Throws(s) # None
  <2>1. u = RenderError(t, Throws(s))
    BY <1>4 DEF RenderCurrentGuarded
  <2>2. Deep(s.hash)
    BY <1>4, ThrowsFacts
  <2>3. s.hash.run # None /\ s.hash.view # "workspaces" /\ t.hash = s.hash
    BY <1>1, <2>2 DEF Client, AddressFits, WellFormed, Deep, SameRest
  <2> HIDE DEF t
  <2>4. Net(s) /\ Net(t)
    BY <1>2, <2>3 DEF Gains
  <2>5. Shows(t, u) /\ Calm(u) /\ SameNet(t, u)
    BY <1>1, <2>1, <2>3, <2>4, ErrorPainted
  <2> HIDE DEF u
  <2>6. Draws(s, u)
    BY <1>1, <2>5 DEF Shows, Draws, SameRest
  <2>7. Gains(s, u) /\ SameNet(s, u)
    BY <1>1, <1>2, <2>4, <2>5, GainsTwice DEF Shows, SameNet
  <2> QED BY <2>3, <2>5, <2>6, <2>7 DEF Shows, u
<1> QED BY <1>3, <1>4

LEMMA ReplayKeeps ==
  ASSUME NEW s, Client(s), Net(s), Recorded(s), s.lastPaint # None
  PROVE  LET t == ReplayLastPaint(s) IN
         Keeps(s, t) /\ PaneFits(t) /\ SameNet(s, t) /\ SameLoss(s, t)
<1> DEFINE p == s.lastPaint
           u == [s EXCEPT !.lastPaint = None]
           t == ReplayLastPaint(s)
<1>1. /\ p \in PaintRecords /\ p.ws \in All /\ p.run \in Maybe(Runs)
      /\ p.cls \in Maybe(ViewClasses) /\ p.failure \in Maybe(Failures)
      /\ p.by \in {"follow", "unavailable", "defect"} /\ Backed(p)
  BY DEF Client, Browser, PaintRecords, Maybe, Failures, FetchFailures, Absences, Losses, Recorded
<1>2. /\ Client(u) /\ SameRest(s, u) /\ SameNet(s, u) /\ u.hash = s.hash
  BY DEF Client, Browser, Maybe, SameRest, SameNet
<1>7. Calm(s) <=> ~Lossy(p)
  BY DEF Calm
<1> HIDE DEF u, p
<1>3. /\ Draws(u, t) /\ SameNet(u, t) /\ t.painted.kind = "failure"
      /\ \/ p.by = "follow" /\ <<p.ws, p.run>> # Subject(s.hash)
         \/ DrawsFailure(u, t)
      /\ ~Calm(t) => Lossy(p) /\ t.lastPaint.failure = p.failure
  <2>1. CASE p.by = "follow"
    <3>1. t = RenderFollowErrorView(u, p.ws, p.run, p.cls, p.failure)
      BY <2>1 DEF ReplayLastPaint, p, u
    <3> HIDE DEF t
    <3>2. (p.cls \in LossClasses => p.run # None /\ p.failure \in Grounds(p.cls))
          /\ (~Lossy(p) => p.cls \notin LossClasses)
      BY <1>1, <2>1 DEF Backed, Lossy
    <3> QED BY <1>1, <1>2, <2>1, <3>1, <3>2, FollowErrorPainted
  <2>2. CASE p.by = "unavailable"
    <3>1. t = RenderUnavailable(u, p.failure)
      BY <2>2 DEF ReplayLastPaint, p, u
    <3> HIDE DEF t
    <3>2. ~Lossy(p) => p.failure \notin Absences
      BY <2>2 DEF Lossy
    <3> QED BY <1>1, <1>2, <3>1, <3>2, UnavailablePainted DEF DrawsFailure, Cites
  <2>3. CASE p.by = "defect"
    <3>1. t = RenderMonitorDefect(u)
      BY <2>3 DEF ReplayLastPaint, p, u
    <3> HIDE DEF t
    <3> QED BY <1>2, <3>1, DefectPainted DEF DrawsFailure
  <2> QED BY <1>1, <2>1, <2>2, <2>3
<1> HIDE DEF t
<1>4. Client(t) /\ SameRest(s, t) /\ SameNet(s, t) /\ Recorded(t) /\ PaneFits(t)
  BY <1>2, <1>3 DEF Draws, SameRest, SameNet
<1>5. ASSUME Fits(s) PROVE Fits(t)
  <2>1. s.hash.view # "workspaces"
    BY <1>5 DEF Fits, KindsAt, Deep, Recorded
  <2>2. DrawsFailure(u, t)
    BY <1>3, <1>5 DEF Fits, p
  <2> QED BY <1>2, <2>1, <2>2, FailureFits
<1>6. Gains(s, t)
  BY <1>4, SameNetGains
<1>8. SameLoss(s, t)
  BY <1>3, <1>7 DEF SameLoss, p
<1> QED BY <1>3, <1>4, <1>5, <1>6, <1>8 DEF Keeps, t

LEMMA ResolvedKeeps ==
  ASSUME NEW s, Client(s), Net(s), NEW run
  PROVE  Keeps(s, Resolved(s, run))
<1> DEFINE ends == s.dead # None /\ s.dead.run = run /\ s.hash.run = run /\ s.painted.kind = "failure"
           u == IF ends THEN RenderProjectionFailure(s, s.dead.failure) ELSE s
           t == [u EXCEPT !.resBusy = FALSE]
<1>1. Keeps(s, u)
  <2>1. CASE ends
    <3>1. s.dead.failure \in Failures
      BY <2>1 DEF Client, Browser, Maybe, Failures, FetchFailures, Absences
    <3>0. s.dead.run \in Runs
      BY <2>1 DEF Client, Browser, Maybe
    <3>2. s.hash.view # "workspaces"
      BY <2>1, <3>0, ClientAssumption DEF Client, AddressFits, WellFormed
    <3>3. DrawsFailure(s, u) /\ Gains(s, u)
      BY <2>1, <3>1, ProjectionFailurePainted
    <3> QED BY <3>2, <3>3, FailureFits, ShowsKeeps DEF Shows, DrawsFailure
  <2>2. CASE ~ends
    BY <2>2, QuietKeeps DEF SameRest, SameReqs, SameScreen
  <2> QED BY <2>1, <2>2
<1> HIDE DEF u
<1>2. Client(u) /\ Net(u)
  BY <1>1 DEF Keeps, Gains
<1>3. Client(t) /\ SameRest(u, t) /\ SameReqs(u, t) /\ SameScreen(u, t)
  BY <1>2 DEF Client, Browser, SameRest, SameReqs, SameScreen
<1> HIDE DEF t
<1>4. Keeps(u, t)
  BY <1>2, <1>3, QuietKeeps
<1>5. Resolved(s, run) = t
  BY DEF Resolved, t, u
<1> QED BY <1>1, <1>4, <1>5, KeepsTwice

\* An acquisition that has ended may not start another: resBusy is lowered
\* after its dead end is painted again.
LEMMA ResolvedCosts ==
  ASSUME NEW s, Client(s), Net(s), Light(s), s.resBusy, NEW run,
         ResolveAsked(s) = {}, ResolveWaits(s) = {}
  PROVE  LET t == Resolved(s, run) IN Light(t) /\ t.pending = s.pending /\ Load(t) = Load(s)
<1> DEFINE ends == s.dead # None /\ s.dead.run = run /\ s.hash.run = run /\ s.painted.kind = "failure"
           u == IF ends THEN RenderProjectionFailure(s, s.dead.failure) ELSE s
           t == [u EXCEPT !.resBusy = FALSE]
<1>1. Client(u) /\ SameReqs(s, u) /\ u.again = s.again /\ u.pending = s.pending
  <2>1. CASE ends
    <3>1. s.dead.failure \in Failures
      BY <2>1 DEF Client, Browser, Maybe, Failures, FetchFailures, Absences
    <3> QED BY <2>1, <3>1, ProjectionFailurePainted
            DEF DrawsFailure, Draws, SameRest, SameNet, SameReqs
  <2>2. CASE ~ends
    BY <2>2 DEF SameReqs
  <2> QED BY <2>1, <2>2
<1> HIDE DEF u
<1>2. SameReqs(s, t) /\ t.again = s.again /\ t.pending = s.pending
  BY <1>1 DEF Client, Browser, SameReqs
<1>3. Resolved(s, run) = t
  BY DEF Resolved, t, u
<1> HIDE DEF t
<1>4. /\ ResolveAsked(t) = {} /\ ResolveWaits(t) = {}
      /\ DeepWaits(t) = DeepWaits(s) /\ t.reqs = s.reqs /\ t.waits = s.waits
  BY <1>2 DEF SameReqs, ResolveAsked, ResolveWaits, DeepWaits
<1> QED BY <1>2, <1>3, <1>4 DEF Light, Load, Replays

\* The dead end of run is at the address under a view that is not its own
\* (DeadEndReturns): the end of its acquisition repaints it.
Returns(s, run) ==
    /\ s.dead # None /\ s.dead.run = run /\ s.hash.run = run /\ s.painted.kind = "failure"
    /\ s.painted.cls \notin LossClasses \/ s.lastPaint.failure # s.dead.failure

LEMMA ResolvedLoss ==
  ASSUME NEW s, Client(s), Net(s), Recorded(s), NEW run
  PROVE  LET t == Resolved(s, run) IN
         /\ ~Returns(s, run) => NoNewLoss(s, t)
         /\ Returns(s, run) => Cites(t, s.dead.failure)
<1> DEFINE ends == s.dead # None /\ s.dead.run = run /\ s.hash.run = run /\ s.painted.kind = "failure"
           u == IF ends THEN RenderProjectionFailure(s, s.dead.failure) ELSE s
           t == Resolved(s, run)
<1>1. Keeps(s, t)
  BY ResolvedKeeps
<1>2. t = [u EXCEPT !.resBusy = FALSE]
  BY DEF Resolved
<1>3. Client(u) /\ (ends => Cites(u, s.dead.failure))
  <2>1. CASE ends
    <3>1. s.dead.failure \in Failures
      BY <2>1 DEF Client, Browser, Maybe, Failures, FetchFailures, Absences
    <3> QED BY <2>1, <3>1, ProjectionFailurePainted DEF DrawsFailure, Draws
  <2>2. CASE ~ends
    BY <2>2
  <2> QED BY <2>1, <2>2
<1>4. ~ends => u = s
  OBVIOUS
<1>5. Returns(s, run) => ends
  BY DEF Returns
<1>6. ends /\ ~Returns(s, run) => ~Calm(s) /\ s.lastPaint.failure = s.dead.failure
  BY DEF Returns, Recorded
<1> HIDE DEF u, t, ends
<1>7. t.lastPaint = u.lastPaint
  BY <1>2, <1>3 DEF Client, Browser
<1>8. ~Returns(s, run) => SameLoss(s, t)
  BY <1>3, <1>4, <1>6, <1>7 DEF SameLoss, Cites, Calm
<1>9. Returns(s, run) => Cites(t, s.dead.failure)
  BY <1>3, <1>5, <1>7 DEF Cites, Calm
<1> QED BY <1>1, <1>8, <1>9, KeepsNoLoss DEF t

-----------------------------------------------------------------------------
(***************************************************************************)
(* The refresh.                                                            *)
(***************************************************************************)
\* No answer on its way will be used but those of lists.
Stale(s) ==
    /\ \A q \in s.reqs : q.kind # "list" => ~q.fresh
    /\ \A x \in s.waits : x.then = "overview" => ~x.fresh

LEMMA BumpFacts ==
  ASSUME NEW s, Client(s), Net(s)
  PROVE  LET t == Bump(s) IN
         /\ Client(t) /\ Net(t) /\ SameRest(s, t) /\ SameScreen(s, t) /\ Stale(t)
         /\ AwaitedIn(s) = {} <=> AwaitedIn(t) = {}
         /\ (\A x, y \in AwaitedIn(s) : x = y) => (\A x, y \in AwaitedIn(t) : x = y)
         /\ t.list = s.list /\ t.snap = s.snap /\ t.detail = s.detail
         /\ Costs(s, t, 0)
<1> DEFINE stale(q) == [q EXCEPT !.fresh = q.fresh /\ q.kind = "list"]
           late(x) == [x EXCEPT !.fresh = x.fresh /\ x.then # "overview"]
           R == {stale(q) : q \in s.reqs}
           W == {late(x) : x \in s.waits}
           t == Bump(s)
<1>0. s \in Browser /\ s.reqs \subseteq RequestRecord /\ s.waits \subseteq WaitRecord
  BY DEF Client, Browser
<1>1. ASSUME NEW q \in RequestRecord
      PROVE  /\ stale(q) \in RequestRecord /\ stale(q).kind = q.kind /\ stale(q).ws = q.ws
             /\ stale(q).id = q.id /\ stale(q).run = q.run /\ stale(q).ans = q.ans
             /\ q.kind # "list" => ~stale(q).fresh
  <2>1. ASSUME NEW f \in BOOLEAN
        PROVE  /\ [q EXCEPT !.fresh = f] \in RequestRecord
               /\ [q EXCEPT !.fresh = f].kind = q.kind /\ [q EXCEPT !.fresh = f].ws = q.ws
               /\ [q EXCEPT !.fresh = f].id = q.id /\ [q EXCEPT !.fresh = f].run = q.run
               /\ [q EXCEPT !.fresh = f].ans = q.ans /\ [q EXCEPT !.fresh = f].fresh = f
    BY DEF RequestRecord
  <2>2. (q.fresh /\ q.kind = "list") \in BOOLEAN /\ (q.kind # "list" => ~(q.fresh /\ q.kind = "list"))
    OBVIOUS
  <2> QED BY <2>1, <2>2
<1>2. ASSUME NEW x \in WaitRecord
      PROVE  /\ late(x) \in WaitRecord /\ late(x).on = x.on /\ late(x).then = x.then
             /\ x.then = "overview" => ~late(x).fresh
  <2>1. ASSUME NEW f \in BOOLEAN
        PROVE  /\ [x EXCEPT !.fresh = f] \in WaitRecord
               /\ [x EXCEPT !.fresh = f].on = x.on /\ [x EXCEPT !.fresh = f].then = x.then
               /\ [x EXCEPT !.fresh = f].fresh = f
    BY DEF WaitRecord
  <2>2. /\ (x.fresh /\ x.then # "overview") \in BOOLEAN
        /\ x.then = "overview" => ~(x.fresh /\ x.then # "overview")
    OBVIOUS
  <2> QED BY <2>1, <2>2
<1>3. t = [s EXCEPT !.reqs = R, !.waits = W]
  BY <1>0 DEF Bump, Browser
<1> HIDE DEF stale, late
<1>4. R \subseteq RequestRecord /\ W \subseteq WaitRecord
  BY <1>0, <1>1, <1>2
<1> HIDE DEF t, R, W
<1>5. /\ t \in Browser /\ t.hash = s.hash /\ t.reqs = R /\ t.waits = W
      /\ SameRest(s, t) /\ SameScreen(s, t) /\ t.resBusy = s.resBusy
      /\ t.list = s.list /\ t.snap = s.snap /\ t.detail = s.detail
  BY <1>0, <1>3, <1>4 DEF Browser, SameRest, SameScreen
<1>6. /\ \A q \in t.reqs : \E p \in s.reqs : q = stale(p)
      /\ \A p \in s.reqs : stale(p) \in t.reqs
  BY <1>5 DEF R
<1>7. /\ \A x \in t.waits : \E y \in s.waits : x = late(y)
      /\ \A y \in s.waits : late(y) \in t.waits
  BY <1>5 DEF W
<1>8. Net(t)
  <2>1. IsFiniteSet(t.reqs)
    <3> DEFINE f == [q \in s.reqs |-> stale(q)]
    <3>1. R = {f[q] : q \in s.reqs}
      BY DEF R
    <3>2. IsFiniteSet(s.reqs) /\ DOMAIN f = s.reqs
      BY DEF Net
    <3> HIDE DEF f
    <3> QED BY <1>5, <3>1, <3>2, ImageIsFinite
  <2>2. ASSUME NEW q \in t.reqs PROVE RequestOK(q)
    <3>1. PICK p \in s.reqs : q = stale(p)
      BY <1>6
    <3>2. RequestOK(p) /\ p \in RequestRecord
      BY <1>0 DEF Net
    <3> QED BY <1>1, <3>1, <3>2 DEF RequestOK
  <2>3. ASSUME NEW x \in t.waits PROVE x.on # {} /\ \A p \in x.on : Listed(t, p)
    <3>1. PICK y \in s.waits : x = late(y)
      BY <1>7
    <3>2. x.on = y.on /\ y.on # {} /\ \A p \in y.on : Listed(s, p)
      BY <1>0, <1>2, <3>1 DEF Net
    <3>3. ASSUME NEW p, Listed(s, p) PROVE Listed(t, p)
      <4>1. PICK q \in s.reqs : q.kind = "list" /\ p = <<q.ws, q.id>>
        BY <3>3 DEF Listed
      <4> QED BY <1>0, <1>1, <1>6, <4>1 DEF Listed
    <3> QED BY <3>2, <3>3
  <2>4. ASSUME NEW x \in t.waits, NEW y \in t.waits, x.on \cap y.on # {} PROVE x = y
    <3>1. PICK x0 \in s.waits : x = late(x0)
      BY <1>7
    <3>2. PICK y0 \in s.waits : y = late(y0)
      BY <1>7
    <3>3. x.on = x0.on /\ y.on = y0.on
      BY <1>0, <1>2, <3>1, <3>2
    <3>4. x0 = y0
      BY <2>4, <3>3 DEF Net
    <3> QED BY <3>1, <3>2, <3>4
  <2> QED BY <2>1, <2>2, <2>3, <2>4 DEF Net
<1>9. Stale(t)
  <2>1. ASSUME NEW q \in t.reqs, q.kind # "list" PROVE ~q.fresh
    <3>1. PICK p \in s.reqs : q = stale(p)
      BY <1>6
    <3> QED BY <1>0, <1>1, <2>1, <3>1
  <2>2. ASSUME NEW x \in t.waits, x.then = "overview" PROVE ~x.fresh
    <3>1. PICK y \in s.waits : x = late(y)
      BY <1>7
    <3> QED BY <1>0, <1>2, <2>2, <3>1
  <2> QED BY <2>1, <2>2 DEF Stale
<1>10. ASSUME NEW a \in AwaitedIn(s) PROVE AwaitedIn(t) # {}
  <2>1. CASE a \in s.reqs /\ a.kind \in {"detail", "runs"}
    <3>1. stale(a) \in t.reqs /\ stale(a).kind \in {"detail", "runs"}
      BY <1>0, <1>1, <1>6, <2>1
    <3> QED BY <3>1 DEF AwaitedIn
  <2>2. CASE a \in s.waits /\ a.then \in {"land", "overview"}
    <3>1. late(a) \in t.waits /\ late(a).then \in {"land", "overview"}
      BY <1>0, <1>2, <1>7, <2>2
    <3> QED BY <3>1 DEF AwaitedIn
  <2> QED BY <1>10, <2>1, <2>2 DEF AwaitedIn
<1>11. ASSUME NEW a \in AwaitedIn(t)
       PROVE  \E c \in AwaitedIn(s) :
                \/ c \in s.reqs /\ a = stale(c)
                \/ c \in s.waits /\ a = late(c)
  <2>1. CASE a \in t.reqs /\ a.kind \in {"detail", "runs"}
    <3>1. PICK p \in s.reqs : a = stale(p)
      BY <1>6, <2>1
    <3>2. p.kind \in {"detail", "runs"}
      BY <1>0, <1>1, <2>1, <3>1
    <3>3. p \in AwaitedIn(s)
      BY <3>2 DEF AwaitedIn
    <3> QED BY <3>1, <3>3
  <2>2. CASE a \in t.waits /\ a.then \in {"land", "overview"}
    <3>1. PICK y \in s.waits : a = late(y)
      BY <1>7, <2>2
    <3>2. y.then \in {"land", "overview"}
      BY <1>0, <1>2, <2>2, <3>1
    <3>3. y \in AwaitedIn(s)
      BY <3>2 DEF AwaitedIn
    <3> QED BY <3>1, <3>3
  <2> QED BY <1>11, <2>1, <2>2 DEF AwaitedIn
<1>12. AwaitedIn(s) = {} <=> AwaitedIn(t) = {}
  BY <1>10, <1>11
<1>13. ASSUME \A x, y \in AwaitedIn(s) : x = y, NEW x \in AwaitedIn(t), NEW y \in AwaitedIn(t)
       PROVE  x = y
  \* A request is no callback: their fields differ.
  <2>1. ASSUME NEW q \in s.reqs, NEW w \in s.waits PROVE q # w
    <3>1. DOMAIN q = {"kind", "ws", "run", "id", "fresh", "ans"}
      BY <1>0 DEF RequestRecord
    <3>2. DOMAIN w = {"on", "then", "run", "fresh"}
      BY <1>0 DEF WaitRecord
    <3> QED BY <3>1, <3>2
  <2> QED BY <1>11, <1>13, <2>1
<1>14. ASSUME Light(s) PROVE Light(t) /\ Load(t) <= Load(s)
  <2>1. IsFiniteSet(t.reqs) /\ Asked(t.reqs) <= Asked(s.reqs)
    <3> DEFINE f == [q \in s.reqs |-> stale(q)]
    <3>1. R = {f[q] : q \in s.reqs}
      BY DEF R
    <3>2. /\ IsFiniteSet(s.reqs) /\ DOMAIN f = s.reqs
          /\ \A q \in s.reqs : f[q].kind = q.kind /\ f[q].ans = q.ans
      BY <1>0, <1>1 DEF Net
    <3> HIDE DEF f
    <3> QED BY <1>5, <3>1, <3>2, AskedImage
  <2>2. IsFiniteSet(t.waits)
    <3> DEFINE f == [x \in s.waits |-> late(x)]
    <3>1. W = {f[x] : x \in s.waits}
      BY DEF W
    <3>2. IsFiniteSet(s.waits) /\ DOMAIN f = s.waits
      BY <1>14 DEF Light
    <3> HIDE DEF f
    <3> QED BY <1>5, <3>1, <3>2, ImageIsFinite
  <2>3. Cardinality(DeepWaits(t)) <= Cardinality(DeepWaits(s))
    <3> DEFINE f == [x \in DeepWaits(s) |-> late(x)]
    <3>1. ASSUME NEW x \in DeepWaits(t) PROVE \E y \in DeepWaits(s) : x = f[y]
      <4>1. x \in t.waits /\ x.then = "deep"
        BY DEF DeepWaits
      <4>2. PICK y \in s.waits : x = late(y)
        BY <1>7, <4>1
      <4>3. y \in DeepWaits(s)
        BY <1>0, <1>2, <4>1, <4>2 DEF DeepWaits
      <4> QED BY <4>2, <4>3
    <3>2. ASSUME NEW y \in DeepWaits(s) PROVE f[y] \in DeepWaits(t)
      <4>1. y \in s.waits /\ y.then = "deep"
        BY DEF DeepWaits
      <4>2. late(y) \in t.waits /\ late(y).then = "deep"
        BY <1>0, <1>2, <1>7, <4>1
      <4> QED BY <4>2 DEF DeepWaits
    <3>3. IsFiniteSet(DeepWaits(s)) /\ DOMAIN f = DeepWaits(s)
      BY <1>14, LoadType
    <3> HIDE DEF f
    <3>4. DeepWaits(t) = {f[y] : y \in DeepWaits(s)}
      BY <3>1, <3>2
    <3> QED BY <3>3, <3>4, ImageIsFinite
  <2>4. ASSUME NEW q \in ResolveAsked(t) PROVE \E p \in ResolveAsked(s) : q = stale(p)
    <3>1. PICK p \in s.reqs : q = stale(p)
      BY <1>6 DEF ResolveAsked
    <3>2. p.kind = "resolve"
      BY <1>0, <1>1, <3>1 DEF ResolveAsked
    <3> QED BY <3>1, <3>2 DEF ResolveAsked
  <2>5. ASSUME NEW x \in ResolveWaits(t) PROVE \E y \in ResolveWaits(s) : x = late(y)
    <3>1. PICK y \in s.waits : x = late(y)
      BY <1>7 DEF ResolveWaits
    <3>2. y.then = "resolve"
      BY <1>0, <1>2, <3>1 DEF ResolveWaits
    <3> QED BY <3>1, <3>2 DEF ResolveWaits
  <2>6. Light(t)
    <3>1. ResolveAsked(t) # {} \/ ResolveWaits(t) # {} => t.resBusy
      BY <1>5, <1>14, <2>4, <2>5 DEF Light
    <3>2. \A p, q \in ResolveAsked(t) : p = q
      BY <1>14, <2>4 DEF Light
    <3>3. \A x, y \in ResolveWaits(t) : x = y
      BY <1>14, <2>5 DEF Light
    <3>4. ResolveAsked(t) = {} \/ ResolveWaits(t) = {}
      BY <1>14, <2>4, <2>5 DEF Light
    <3> QED BY <2>1, <2>2, <3>1, <3>2, <3>3, <3>4 DEF Light
  <2>7. Replays(t) <= Replays(s) + 0
    <3>1. t.again = s.again
      BY <1>5 DEF SameRest
    <3> QED BY <1>14, <2>3, <2>6, <3>1, LoadType DEF Replays
  <2>8. Load(t) <= Load(s) + 0 + 0 * ReplayWork
    <3>1. Asked(t.reqs) <= Asked(s.reqs) + 0
      BY <1>14, <2>1, <2>6, LoadType
    <3> QED BY <1>14, <2>6, <2>7, <3>1, LoadBound
  <2> QED BY <1>14, <2>6, <2>8, LoadType, WorkFacts
<1>15. Costs(s, t, 0)
  BY <1>5, <1>14, LoadType DEF Costs, SameRest
<1> QED BY <1>5, <1>8, <1>9, <1>12, <1>13, <1>15 DEF Client, t

\* All of the invariant but what it says of the view on the screen.
Core(s) ==
    /\ Client(s) /\ Net(s) /\ Flying(s) /\ Aimed(s) /\ Addressed(s) /\ Recorded(s)

\* A refresh has just ended, or is about to begin.
Idle(s) ==
    /\ Client(s) /\ Net(s) /\ Aimed(s) /\ Addressed(s) /\ Recorded(s)
    /\ AwaitedIn(s) = {} /\ ~s.again

LEMMA Begins ==
  ASSUME NEW s, Idle(s), s.flight, NEW t, Client(t), SameRest(s, t), SameScreen(s, t), Net(t),
         NEW x, AwaitedIn(t) = {x}, x.fresh, Aimed(t), Busy(t)
  PROVE  BrowserInv(t) /\ Excused(t)
<1>1. Flying(t)
  BY DEF Flying, Idle, SameRest
<1>2. Addressed(t) /\ Recorded(t)
  BY DEF Addressed, Recorded, Calm, Idle, SameRest, SameScreen
<1>3. ScreenKept(t)
  BY DEF ScreenKept
<1> QED BY <1>1, <1>2, <1>3 DEF BrowserInv, Excused

LEMMA FetchBegins ==
  ASSUME NEW s, Idle(s), s.flight, NEW kind \in {"detail", "runs"},
         kind = "detail" => Deep(s.hash), kind = "runs" => s.hash.view = "runs" /\ ~Set
  PROVE  LET t == Fetch(s, kind, s.hash.ws, s.hash.run) IN
         BrowserInv(t) /\ Excused(t) /\ t.stream = s.stream /\ Costs(s, t, 4)
<1> DEFINE r == s.hash
           q == Request(kind, r.ws, r.run, 0)
           t == Fetch(s, kind, r.ws, r.run)
<1>0. /\ r.ws \in All /\ r.run \in Maybe(Runs)
      /\ kind = "detail" => r.run \in Runs /\ (Set => r.ws \in Workspaces)
      /\ kind = "runs" => r.ws = None /\ r.run = None
  BY DEF Idle, Client, AddressFits, WellFormed, Maybe, All, Deep
<1>1. /\ Client(t) /\ SameRest(s, t) /\ SameScreen(s, t) /\ t.waits = s.waits
      /\ t.reqs = s.reqs \cup {q} /\ t.resBusy = s.resBusy
      /\ q.kind = kind /\ q.ws = r.ws /\ q.run = r.run /\ q.fresh = TRUE /\ q.ans = None
      /\ Net(s) /\ RequestOK(q) => Net(t)
  <2>1. kind \in FetchKinds /\ Client(s)
    BY DEF Idle, FetchKinds
  <2>2. PICK w \in All, run \in Maybe(Runs) : w = r.ws /\ run = r.run
    BY <1>0
  <2>3. q = Request(kind, w, run, 0) /\ t = Fetch(s, kind, w, run)
    BY <2>2
  <2>4. LET p == Request(kind, w, run, 0)
            z == Fetch(s, kind, w, run) IN
        /\ Client(z) /\ SameRest(s, z) /\ SameScreen(s, z) /\ z.waits = s.waits
        /\ z.reqs = s.reqs \cup {p} /\ z.resBusy = s.resBusy
        /\ p.kind = kind /\ p.ws = w /\ p.run = run /\ p.fresh = TRUE /\ p.ans = None
        /\ Net(s) /\ RequestOK(p) => Net(z)
    BY ONLY <2>1, FetchFacts, w \in All, run \in Maybe(Runs)
  <2> HIDE DEF q, t, r
  <2> QED BY <2>2, <2>3, <2>4
<1> HIDE DEF q, t
<1>2. Net(t)
  BY <1>0, <1>1 DEF Idle, RequestOK
<1>3. AwaitedIn(t) = {q}
  BY <1>1 DEF Idle, AwaitedIn
<1>4. t.hash = r /\ (Moved(t) <=> Moved(s))
  BY <1>1 DEF SameRest, Moved
<1>5. Aimed(t)
  <2>1. ASSUME NEW p \in t.reqs, p.fresh, p.kind \in {"detail", "runs"}
        PROVE  \/ Moved(t)
               \/ /\ <<p.ws, p.run>> = Subject(t.hash)
                  /\ p.kind = "detail" => Deep(t.hash)
                  /\ p.kind = "runs" => t.hash.view = "runs"
    <3>1. p = q
      BY <1>3, <2>1 DEF AwaitedIn
    <3> QED BY <1>1, <1>4, <3>1 DEF Subject
  <2>2. \A x \in t.waits : x.fresh /\ x.then = "overview" => Moved(t) \/ t.hash.view = "workspaces"
    BY <1>1, <1>4 DEF Idle, Aimed
  <2>3. \A p \in t.reqs : p.fresh /\ p.kind = "resolve" => Moved(t) \/ t.hash.run # None
    BY <1>1, <1>4 DEF Idle, Aimed
  <2> QED BY <2>1, <2>2, <2>3 DEF Aimed
<1>6. Busy(t)
  BY <1>1 DEF Busy
<1>7. Costs(s, t, 4)
  <2>1. t.again = s.again /\ t.pending = s.pending /\ q.kind # "resolve"
    BY <1>1 DEF SameRest
  <2>2. Costs(s, t, Weight(q))
    BY <1>1, <2>1, FetchCosts
  <2>3. Weight(q) \in Int /\ Weight(q) <= 4
    BY WeightType
  <2> QED BY <2>2, <2>3, CostsMore
<1>8. t.stream = s.stream
  BY <1>1 DEF SameRest
<1> QED BY <1>1, <1>2, <1>3, <1>5, <1>6, <1>7, <1>8, Begins DEF t

LEMMA RefetchBegins ==
  ASSUME NEW s, Idle(s), s.flight, NEW t, NEW W, NEW then \in {"land", "overview"},
         Refetched(s, t, W, then),
         then = "overview" => s.hash.view = "workspaces",
         then = "land" => s.hash.view = "runs" /\ s.hash.ws \in W
  PROVE  BrowserInv(t) /\ Excused(t)
<1>1. PICK x \in WaitRecord : t.waits = s.waits \cup {x} /\ x.then = then /\ x.fresh = TRUE
  BY DEF Refetched
<1>2. /\ \A q \in t.reqs : q.kind # "list" => q \in s.reqs
      /\ \A w \in W : \E q \in t.reqs : q.kind = "list" /\ q.fresh /\ q.ws = w
  BY DEF Refetched
<1>3. Client(t) /\ SameRest(s, t) /\ SameScreen(s, t) /\ Net(t) /\ t.hash = s.hash
  BY DEF Refetched, SameRest
<1>4. AwaitedIn(t) = {x}
  <2>1. \A q \in t.reqs : q.kind \notin {"detail", "runs"}
    BY <1>2 DEF Idle, AwaitedIn
  <2>2. \A y \in s.waits : y.then \notin {"land", "overview"}
    BY DEF Idle, AwaitedIn
  <2> QED BY <1>1, <2>1, <2>2 DEF AwaitedIn
<1>5. Aimed(t)
  <2>1. \A q \in t.reqs : q.kind \notin {"detail", "runs"}
    BY <1>2 DEF Idle, AwaitedIn
  <2>2. \A y \in t.waits : y.then = "overview" => y = x
    BY <1>4 DEF AwaitedIn
  <2>3. \A q \in t.reqs : q.fresh /\ q.kind = "resolve" => Moved(t) \/ t.hash.run # None
    BY <1>2, <1>3 DEF Idle, Aimed, Moved, SameRest
  <2> QED BY <1>1, <1>3, <2>1, <2>2, <2>3 DEF Aimed
<1>6. Busy(t)
  <2>1. CASE then = "overview"
    BY <1>1, <2>1 DEF Busy
  <2>2. CASE then = "land"
    BY <1>2, <1>3, <2>2 DEF Busy, ListComing
  <2> QED BY <2>1, <2>2
<1> QED BY <1>1, <1>3, <1>4, <1>5, <1>6, Begins

\* A refresh that begins while none is in flight leaves the invariant true,
\* and makes it true of a page that boots.
LEMMA RefreshInv ==
  ASSUME NEW s, Client(s), Net(s), Recorded(s), AwaitedIn(s) = {}, ~s.again, mode \in Modes,
         ~s.pending => s.base = UnderlyingKey(s.hash) /\ s.manual = s.hash.manual
  PROVE  LET t == Refresh(s) IN
         BrowserInv(t) /\ Excused(t) /\ t.stream = s.stream /\ Costs(s, t, RefreshWork)
<1> DEFINE r == s.hash
           c == Bump(s)
           u == [c EXCEPT !.routed = Subject(r), !.flight = TRUE]
           t == Refresh(s)
<1>0. /\ r.view \in {"workspaces", "runs", "detail", "unit", "invalid"}
      /\ r.ws \in All /\ r.run \in Maybe(Runs)
      /\ Set => Workspaces # {}
  <2>1. r.view \in {"workspaces", "runs", "detail", "unit", "invalid"} /\ r.ws \in All /\ r.run \in Maybe(Runs)
    BY DEF Client, AddressFits, WellFormed
  <2>2. Set => Workspaces # {}
    BY ClientAssumption DEF Set
  <2> QED BY <2>1, <2>2
<1>1. /\ Client(c) /\ Net(c) /\ SameRest(s, c) /\ SameScreen(s, c) /\ Stale(c) /\ AwaitedIn(c) = {}
      /\ c.hash = r /\ Costs(s, c, 0)
  BY BumpFacts DEF SameRest
<1> HIDE DEF c
<1>2. /\ u \in Browser /\ SameNet(c, u) /\ SameScreen(c, u) /\ u.hash = r /\ u.flight = TRUE
      /\ u.routed = Subject(r) /\ u.pending = c.pending /\ u.base = c.base /\ u.manual = c.manual
      /\ u.again = c.again /\ u.stream = c.stream
  <2>1. Subject(r) \in All \X Maybe(Runs)
    BY <1>0 DEF Subject
  <2> QED BY <1>1, <2>1 DEF Client, Browser, SameNet, SameScreen
<1> HIDE DEF u
<1>3. Idle(u)
  <2>1. Client(u) /\ Net(u) /\ AwaitedIn(u) = {} /\ ~u.again /\ Stale(u)
    BY <1>1, <1>2 DEF Client, Net, Listed, AwaitedIn, SameNet, SameRest, Stale
  <2>2. Aimed(u)
    BY <2>1 DEF Aimed, AwaitedIn, Stale
  <2>3. Addressed(u) /\ Recorded(u)
    BY <1>1, <1>2 DEF Addressed, Recorded, Calm, SameRest, SameScreen
  <2> QED BY <2>1, <2>2, <2>3 DEF Idle
<1>9. ASSUME NEW z, NEW n \in Int, Costs(u, z, n), n <= RefreshWork, z.stream = u.stream
      PROVE  Costs(s, z, RefreshWork) /\ z.stream = s.stream
  <2>1. Costs(s, u, 0)
    BY <1>1, <1>2, CostsPainted
  <2>2. Costs(s, z, 0 + n)
    BY <1>9, <2>1, CostsThen
  <2>3. Costs(s, z, RefreshWork)
    BY <1>9, <2>2, WorkFacts, CostsMore
  <2> QED BY <1>1, <1>2, <1>9, <2>3 DEF SameRest
<1>4. CASE r.view = "invalid"
  <2> DEFINE v == RenderCurrent(u)
             z == [v EXCEPT !.flight = FALSE]
  <2>1. t = z
    BY <1>4 DEF Refresh, u, c
  <2>2. ~Deep(u.hash)
    BY <1>2, <1>4 DEF Deep
  <2>3. Throws(u) = None
    BY <2>2 DEF Throws
  <2>4. Draws(u, v) /\ Fits(v) /\ SameNet(u, v)
    BY <1>3, <2>3, CurrentPainted DEF Idle
  <2> HIDE DEF v
  <2>5. /\ Client(z) /\ z.flight = FALSE /\ SameNet(u, z) /\ SameScreen(v, z) /\ z.hash = u.hash
        /\ z.pending = u.pending /\ z.routed = u.routed /\ z.base = u.base
        /\ z.manual = u.manual /\ z.again = u.again /\ z.stream = u.stream
    BY <2>4 DEF Draws, Client, Browser, SameRest, SameNet, SameScreen
  <2> HIDE DEF z
  <2>6. Net(z) /\ AwaitedIn(z) = {} /\ ~z.again
    BY <1>3, <2>5 DEF Idle, Net, Listed, AwaitedIn, SameNet
  <2>7. Flying(z)
    BY <2>5, <2>6 DEF Flying
  <2>8. Aimed(z)
    BY <1>3, <2>5 DEF Idle, Aimed, Moved, SameNet
  <2>9. Addressed(z) /\ Recorded(z)
    BY <1>3, <2>4, <2>5 DEF Idle, Addressed, Recorded, Calm, Draws, SameScreen
  <2>10. v.hash = z.hash
    BY <2>4, <2>5 DEF Draws, SameRest
  <2>11. ScreenKept(z)
    BY <2>4, <2>5, <2>10 DEF ScreenKept, Fits, PaneFits, Draws, SameScreen
  <2>12. Excused(z)
    BY <1>2, <1>4, <2>5 DEF Excused, Client, AddressFits, WellFormed
  <2>13. Costs(s, z, RefreshWork) /\ z.stream = s.stream
    BY <1>9, <2>5, CostsSame, WorkFacts
  <2> QED BY <2>13, <2>1, <2>5, <2>6, <2>7, <2>8, <2>9, <2>11, <2>12 DEF BrowserInv
<1>5. CASE r.view = "workspaces"
  <2>1. Set
    BY <1>5 DEF Client, AddressFits, WellFormed
  <2>2. t = RefetchWorkspaceList(u, Workspaces, "overview", None)
    BY <1>5 DEF Refresh, u, c
  <2>3. /\ "overview" \in {"land", "overview", "deep", "resolve", "nothing"} /\ None \in Maybe(Runs)
        /\ Workspaces \in SUBSET Workspaces
    BY DEF Maybe
  <2>4. Refetched(u, t, Workspaces, "overview")
    BY <1>0, <1>3, <2>1, <2>2, <2>3, RefetchFacts DEF Idle
  <2> HIDE DEF t
  <2>5. Costs(s, t, RefreshWork) /\ t.stream = s.stream
    <3>1. t.stream = u.stream
      BY <2>4 DEF Refetched, SameRest
    <3>2. Costs(u, t, 2 * Cardinality(Workspaces))
      BY <2>3, <2>4, RefetchedCosts
    <3> QED BY <1>9, <3>1, <3>2, WorkFacts
  <2> QED BY <2>5, <1>2, <1>3, <1>5, <2>4, RefetchBegins DEF t
<1>6. CASE r.view = "runs" /\ Set
  <2>1. r.ws \in Workspaces
    BY <1>6 DEF Client, AddressFits, WellFormed, All
  <2>2. t = RefetchWorkspaceList(u, {r.ws}, "land", None)
    BY <1>6 DEF Refresh, u, c
  <2>3. /\ "land" \in {"land", "overview", "deep", "resolve", "nothing"} /\ None \in Maybe(Runs)
        /\ {r.ws} \in SUBSET Workspaces /\ {r.ws} # {} /\ r.ws \in {r.ws}
    BY <2>1 DEF Maybe
  <2>4. Refetched(u, t, {r.ws}, "land")
    BY <1>3, <1>6, <2>2, <2>3, RefetchFacts DEF Idle
  <2> HIDE DEF t
  <2>5. Costs(s, t, RefreshWork) /\ t.stream = s.stream
    <3>1. t.stream = u.stream
      BY <2>4 DEF Refetched, SameRest
    <3>2. Costs(u, t, 2 * Cardinality({r.ws}))
      BY <2>3, <2>4, RefetchedCosts
    <3>3. Cardinality({r.ws}) = 1
      BY FS_Singleton
    <3> QED BY <1>9, <3>1, <3>2, <3>3, WorkFacts
  <2> QED BY <2>5, <1>2, <1>3, <1>6, <2>3, <2>4, RefetchBegins DEF t
<1>7. CASE r.view = "runs" /\ ~Set
  <2> DEFINE v == [u EXCEPT !.detail = None, !.detailId = None, !.conflict = FALSE]
  <2>1. t = Fetch(v, "runs", None, None)
    BY <1>7 DEF Refresh, u, c
  <2>2. Client(v) /\ SameRest(u, v) /\ SameNet(u, v) /\ SameScreen(u, v) /\ v.hash = r /\ v.flight
    <3>1. u \in Browser /\ None \in DetailType /\ None \in Maybe(Runs)
      BY <1>3 DEF Idle, Client, DetailType, Maybe
    <3> QED BY <1>2, <1>3, <3>1 DEF Idle, Client, Browser, SameRest, SameNet, SameScreen
  <2> HIDE DEF v
  <2>3. Idle(v)
    <3>1. Net(u) /\ Client(u) /\ Aimed(u) /\ AwaitedIn(u) = {}
      BY <1>3 DEF Idle
    <3>2. Gains(u, v)
      BY <2>2, <3>1, SameNetGains
    <3>3. Net(v) /\ AwaitedIn(v) = {} /\ Aimed(v)
      BY <3>1, <3>2 DEF Gains
    <3>4. ~v.again /\ Addressed(v)
      BY <1>3, <2>2 DEF Idle, Addressed, SameRest
    <3>5. Recorded(v)
      BY <1>3, <2>2 DEF Idle, Recorded, Calm, SameScreen
    <3> QED BY <2>2, <3>3, <3>4, <3>5 DEF Idle
  <2>4. v.hash.ws = None /\ v.hash.run = None
    BY <1>7, <2>2 DEF Client, AddressFits, WellFormed
  <2>5. BrowserInv(t) /\ Excused(t) /\ t.stream = v.stream /\ Costs(v, t, 4)
    BY <1>7, <2>1, <2>2, <2>3, <2>4, FetchBegins
  <2> HIDE DEF t
  <2>6. Costs(u, t, 4) /\ t.stream = u.stream
    BY <2>2, <2>5, CostsPainted DEF SameRest
  <2>7. Costs(s, t, RefreshWork) /\ t.stream = s.stream
    BY <1>9, <2>6, WorkFacts
  <2> QED BY <2>5, <2>7 DEF t
<1>8. CASE Deep(r)
  <2>1. t = Fetch(u, "detail", r.ws, r.run)
    BY <1>8 DEF Refresh, u, c, Deep
  <2>2. BrowserInv(t) /\ Excused(t) /\ t.stream = u.stream /\ Costs(u, t, 4)
    BY <1>2, <1>3, <1>8, <2>1, FetchBegins
  <2> HIDE DEF t
  <2>3. Costs(s, t, RefreshWork) /\ t.stream = s.stream
    BY <1>9, <2>2, WorkFacts
  <2> QED BY <2>2, <2>3 DEF t
<1> QED BY <1>0, <1>4, <1>5, <1>6, <1>7, <1>8 DEF Deep

\* refreshSingleFlight makes the screen right whatever is on it.
LEMMA SingleFlightInv ==
  ASSUME NEW s, Core(s), mode \in Modes
  PROVE  LET t == RefreshSingleFlight(s) IN
         /\ BrowserInv(t) /\ Excused(t) /\ t.stream = s.stream /\ Costs(s, t, ReplayWork)
         /\ ~s.flight => Costs(s, t, RefreshWork)
         /\ s.flight => t.flight = s.flight /\ t.again /\ (s.again => Costs(s, t, 0))
<1>1. CASE s.flight
  <2> DEFINE t == [s EXCEPT !.again = TRUE]
  <2>1. /\ Client(t) /\ SameNet(s, t) /\ SameScreen(s, t) /\ t.hash = s.hash /\ t.again = TRUE
        /\ t.flight = s.flight /\ t.pending = s.pending /\ t.base = s.base /\ t.routed = s.routed
        /\ t.manual = s.manual /\ t.stream = s.stream /\ s.again \in BOOLEAN
    BY DEF Core, Client, Browser, SameNet, SameScreen
  <2>2. RefreshSingleFlight(s) = t
    BY <1>1 DEF RefreshSingleFlight
  <2> HIDE DEF t
  <2>3. Net(t) /\ Flying(t)
    BY <1>1, <2>1 DEF Core, Net, Listed, Flying, AwaitedIn, SameNet
  <2>4. Aimed(t) /\ Addressed(t) /\ Recorded(t)
    BY <2>1 DEF Core, Aimed, Moved, Addressed, Recorded, Calm, SameNet, SameScreen
  <2>5. ScreenKept(t)
    BY <2>1 DEF ScreenKept, Busy
  <2>6. Costs(s, t, ReplayWork)
    BY <2>1, AgainCosts
  <2>7. s.again => Costs(s, t, 0)
    BY <2>1, CostsSame
  <2> QED BY <1>1, <2>1, <2>2, <2>3, <2>4, <2>5, <2>6, <2>7 DEF BrowserInv, Excused, Busy
<1>2. CASE ~s.flight
  <2>1. AwaitedIn(s) = {} /\ ~s.again
    BY <1>2 DEF Core, Flying
  <2> DEFINE t == Refresh(s)
  <2>2. BrowserInv(t) /\ Excused(t) /\ t.stream = s.stream /\ Costs(s, t, RefreshWork)
    BY <2>1, RefreshInv DEF Core, Addressed
  <2> HIDE DEF t
  <2>3. Costs(s, t, ReplayWork)
    BY <2>2, CostsMore, WorkFacts
  <2> QED BY <1>2, <2>2, <2>3 DEF RefreshSingleFlight, t
<1> QED BY <1>1, <1>2

LEMMA LandedInv ==
  ASSUME NEW s, Client(s), Net(s), Aimed(s), Addressed(s), Recorded(s), AwaitedIn(s) = {},
         s.again \/ ScreenKept(s), mode \in Modes
  PROVE  /\ BrowserInv(Landed(s))
         /\ NoNewLoss(s, Landed(s)) /\ (s.again => Excused(Landed(s)))
         /\ Costs(s, Landed(s), 0)
<1>1. CASE s.again
  <2> DEFINE t == [s EXCEPT !.flight = FALSE, !.again = FALSE]
  <2>1. /\ Client(t) /\ SameNet(s, t) /\ SameScreen(s, t) /\ t.hash = s.hash /\ t.again = FALSE
        /\ t.pending = s.pending /\ t.base = s.base /\ t.routed = s.routed /\ t.manual = s.manual
        /\ s.again = TRUE
    BY <1>1 DEF Client, Browser, SameNet, SameScreen
  <2>2. Landed(s) = Refresh(t)
    BY <1>1 DEF Landed
  <2> HIDE DEF t
  <2>3. Net(t) /\ AwaitedIn(t) = {} /\ ~t.again
    BY <2>1 DEF Net, Listed, AwaitedIn, SameNet
  <2>4. Addressed(t) /\ Recorded(t)
    BY <2>1 DEF Addressed, Recorded, Calm, SameScreen
  <2>5. BrowserInv(Refresh(t)) /\ Excused(Refresh(t)) /\ Costs(t, Refresh(t), RefreshWork)
    BY <2>1, <2>3, <2>4, RefreshInv DEF Addressed
  \* A replay weighs more than the refresh it starts.
  <2>6. Costs(s, Refresh(t), 0)
    <3>1. Costs(s, t, 0 - ReplayWork)
      BY <2>1, AgainCosts
    <3>2. PICK m, n \in Int : m = 0 - ReplayWork /\ n = RefreshWork /\ m + n <= 0
      BY WorkFacts
    <3>3. Costs(s, Refresh(t), m + n)
      BY <2>5, <3>1, <3>2, CostsThen
    <3> QED BY <3>2, <3>3, CostsMore
  <2> QED BY <2>2, <2>5, <2>6 DEF NoNewLoss
<1>2. CASE ~s.again
  <2> DEFINE t == [s EXCEPT !.flight = FALSE]
  <2>1. /\ Client(t) /\ SameNet(s, t) /\ SameScreen(s, t) /\ t.hash = s.hash /\ t.again = s.again
        /\ t.flight = FALSE
        /\ t.pending = s.pending /\ t.base = s.base /\ t.routed = s.routed /\ t.manual = s.manual
    BY DEF Client, Browser, SameNet, SameScreen
  <2>2. Landed(s) = t
    BY <1>2 DEF Landed
  <2> HIDE DEF t
  <2>3. Net(t) /\ AwaitedIn(t) = {} /\ ~t.again
    BY <1>2, <2>1 DEF Net, Listed, AwaitedIn, SameNet
  <2>4. Aimed(t) /\ Addressed(t) /\ Recorded(t)
    BY <2>1 DEF Aimed, Moved, Addressed, Recorded, Calm, SameNet, SameScreen
  <2>5. ScreenKept(t)
    BY <1>2, <2>1 DEF ScreenKept, Fits, PaneFits, Busy, ListComing, Moved, SameNet, SameScreen
  <2>6. Flying(t)
    BY <2>1, <2>3 DEF Flying
  <2>7. NoNewLoss(s, t)
    BY <2>1 DEF NoNewLoss, Excused, Calm, Busy, ListComing, Moved, SameNet, SameScreen
  <2>8. Costs(s, t, 0)
    BY <2>1, CostsSame
  <2> QED BY <1>2, <2>1, <2>2, <2>3, <2>4, <2>5, <2>6, <2>7, <2>8 DEF BrowserInv
<1> QED BY <1>1, <1>2

-----------------------------------------------------------------------------
(***************************************************************************)
(* Answers.                                                                *)
(***************************************************************************)
\* The answer q has been taken off the network.
Without(s, q) == [s EXCEPT !.reqs = @ \ {q}]

LEMMA TakenFacts ==
  ASSUME NEW s, Client(s), Net(s), NEW q \in s.reqs
  PROVE  LET t == Without(s, q) IN
         /\ Client(t) /\ SameRest(s, t) /\ SameScreen(s, t) /\ t.waits = s.waits
         /\ t.reqs = s.reqs \ {q} /\ t.resBusy = s.resBusy
         /\ Aimed(s) => Aimed(t)
         /\ q.kind # "list" => Net(t)
         /\ Costs(s, t, 0 - Weight(q))
<1> DEFINE t == Without(s, q)
<1>1. /\ Client(t) /\ SameRest(s, t) /\ SameScreen(s, t) /\ t.waits = s.waits
      /\ t.reqs = s.reqs \ {q} /\ t.resBusy = s.resBusy
  BY DEF Without, Client, Browser, SameRest, SameScreen
<1> HIDE DEF t
<1>2. Aimed(s) => Aimed(t)
  BY <1>1 DEF Aimed, Moved, SameRest
<1>3. ASSUME q.kind # "list" PROVE Net(t)
  <2>1. IsFiniteSet(t.reqs)
    <3>1. t.reqs \subseteq s.reqs /\ IsFiniteSet(s.reqs)
      BY <1>1 DEF Net
    <3> QED BY ONLY <3>1, FS_Subset
  <2>2. \A p : Listed(s, p) => Listed(t, p)
    BY <1>1, <1>3 DEF Listed
  <2> QED BY <1>1, <2>1, <2>2 DEF Net
<1>4. ASSUME Light(s) PROVE Light(t) /\ Load(t) <= Load(s) + (0 - Weight(q))
  <2>1. IsFiniteSet(t.reqs) /\ Asked(t.reqs) = Asked(s.reqs) - Weight(q)
    <3>1. IsFiniteSet(s.reqs)
      BY <1>4 DEF Light
    <3> QED BY <1>1, <3>1, AskedOne
  <2>2. /\ ResolveAsked(t) \subseteq ResolveAsked(s) /\ ResolveWaits(t) = ResolveWaits(s)
        /\ DeepWaits(t) = DeepWaits(s) /\ t.again = s.again
    BY <1>1 DEF ResolveAsked, ResolveWaits, DeepWaits, SameRest
  <2>3. Light(t)
    BY <1>1, <1>4, <2>1, <2>2 DEF Light
  <2>4. Load(t) = Load(s) - Weight(q)
    <3>1. ReplayWork * Replays(s) \in Int
      BY <1>4, LoadType, WorkFacts
    <3>2. ReplayWork * Replays(t) = ReplayWork * Replays(s)
      BY <2>2 DEF Replays
    <3> QED BY <1>4, <2>1, <2>3, <3>1, <3>2, LoadType, WeightType DEF Load
  <2> QED BY <1>4, <2>3, <2>4, LoadType, WeightType
<1>5. Costs(s, t, 0 - Weight(q))
  BY <1>1, <1>4 DEF Costs, SameRest
<1> QED BY <1>1, <1>2, <1>3, <1>5 DEF t

\* A request is no callback.
LEMMA KindsApart ==
  ASSUME NEW q \in RequestRecord, NEW x \in WaitRecord
  PROVE  q # x
<1>1. DOMAIN q = {"kind", "ws", "run", "id", "fresh", "ans"}
  BY DEF RequestRecord
<1>2. DOMAIN x = {"on", "then", "run", "fresh"}
  BY DEF WaitRecord
<1> QED BY <1>1, <1>2

\* A painting of the address, right for it unless it is the overview's.
Paints(s, t) ==
    /\ Draws(s, t) /\ Gains(s, t) /\ (s.hash.view # "workspaces" => Fits(t))
    /\ Costs(s, t, 2)

LEMMA PaintsAfter ==
  ASSUME NEW s, Client(s), Net(s), NEW t, Client(t), SameRest(s, t), SameNet(s, t),
         NEW u, Paints(t, u)
  PROVE  Paints(s, u)
<1>1. Gains(s, t)
  BY SameNetGains
<1>2. Gains(s, u)
  BY <1>1, GainsTwice DEF Paints
<1>3. Draws(s, u) /\ t.hash = s.hash /\ t.again = s.again
  BY DEF Paints, Draws, SameRest
<1>4. Costs(s, u, 2)
  BY <1>3, CostsPainted DEF Paints
<1> QED BY <1>2, <1>3, <1>4 DEF Paints

LEMMA PaintsBefore ==
  ASSUME NEW s, NEW t, Paints(s, t),
         NEW u, Client(u), SameRest(t, u), SameNet(t, u), SameScreen(t, u)
  PROVE  Paints(s, u)
<1>1. Net(t)
  BY DEF Paints, Gains
<1>2. Keeps(t, u)
  BY <1>1, QuietKeeps DEF SameNet, SameReqs
<1>3. Gains(s, u)
  BY <1>2, GainsTwice DEF Paints, Keeps
<1>4. SameRest(s, u)
  BY DEF Paints, Draws, SameRest
<1>5. Costs(s, u, 2)
  BY CostsPainted DEF Paints, SameRest
<1> QED BY <1>2, <1>3, <1>4, <1>5 DEF Paints, Draws, Keeps

LEMMA PaintedPaints ==
  ASSUME NEW s, Client(s), Net(s), NEW t, Draws(s, t), SameNet(s, t),
         s.hash.view # "workspaces" => Fits(t)
  PROVE  Paints(s, t)
<1>1. Gains(s, t)
  BY SameNetGains DEF Draws
<1>2. Costs(s, t, 2)
  BY CostsSame, CostsMore DEF Draws, SameRest
<1> QED BY <1>1, <1>2 DEF Paints

LEMMA FailurePaints ==
  ASSUME NEW s, Client(s), Net(s), NEW failure \in Failures
  PROVE  LET t == RenderProjectionFailure(s, failure) IN
         Paints(s, t) /\ Cites(t, failure)
<1>1. LET t == RenderProjectionFailure(s, failure) IN
      DrawsFailure(s, t) /\ Gains(s, t) /\ Costs(s, t, 2) /\ Cites(t, failure)
  BY ProjectionFailurePainted
<1> QED BY <1>1, FailureFits DEF Paints, DrawsFailure

LEMMA GuardedPaints ==
  ASSUME NEW s, Client(s), Net(s)
  PROVE  LET t == RenderCurrentGuarded(s) IN Paints(s, t) /\ Calm(t) /\ Costs(s, t, 0)
<1> DEFINE t == RenderCurrentGuarded(s)
<1>1. Draws(s, t) /\ Fits(t) /\ Calm(t) /\ SameNet(s, t)
  BY GuardedPainted
<1> HIDE DEF t
<1>2. Paints(s, t) /\ Costs(s, t, 0)
  BY <1>1, PaintedPaints, CostsSame DEF Draws, SameRest
<1> QED BY <1>1, <1>2 DEF t

LEMMA SetDetailFailedPaints ==
  ASSUME NEW s, Client(s), Net(s), NEW q, q.ws \in Workspaces, q.run \in Runs,
         NEW failure \in Failures
  PROVE  LET t == SetDetailFailed(s, q, failure) IN
         Paints(s, t) /\ Cites(t, failure)
<1> DEFINE t == [s EXCEPT !.snap[q.ws].detailErr = TRUE]
           held == t.snap[q.ws].detail
           u == [t EXCEPT !.detail = held, !.detailId = q.run, !.detailWs = q.ws,
                          !.conflict = FALSE]
<1>1. [s.snap EXCEPT ![q.ws].detailErr = TRUE] \in [Workspaces -> SnapRecord]
  BY ZenonT(60) DEF Client, Browser, SnapRecord
<1>2. /\ Client(t) /\ SameRest(s, t) /\ SameNet(s, t)
      /\ t.snap \in [Workspaces -> SnapRecord]
  BY <1>1 DEF Client, Browser, SameRest, SameNet
<1> HIDE DEF t
<1>3. held \in DetailType /\ q.run \in Maybe(Runs) /\ q.ws \in All
  BY <1>2 DEF SnapRecord, Maybe, All
<1> HIDE DEF held
<1>4. Client(u) /\ SameRest(s, u) /\ SameNet(s, u)
  BY ZenonT(60), <1>2, <1>3 DEF Client, Browser, SameRest, SameNet
<1>5. SetDetailFailed(s, q, failure) =
        IF held # None /\ held.run = q.run THEN RenderCurrentGuarded(u)
        ELSE RenderProjectionFailure(t, failure)
  BY DEF SetDetailFailed, t, held
<1> HIDE DEF u
<1>6. Net(t) /\ Net(u)
  BY <1>2, <1>4 DEF Net, Listed, SameNet
<1>7. Paints(s, RenderCurrentGuarded(u)) /\ Calm(RenderCurrentGuarded(u))
  <2>1. Paints(u, RenderCurrentGuarded(u)) /\ Calm(RenderCurrentGuarded(u))
    BY <1>4, <1>6, GuardedPaints
  <2> QED BY <1>4, <2>1, PaintsAfter
<1>8. LET v == RenderProjectionFailure(t, failure) IN Paints(s, v) /\ Cites(v, failure)
  <2>1. LET v == RenderProjectionFailure(t, failure) IN Paints(t, v) /\ Cites(v, failure)
    BY <1>2, <1>6, FailurePaints
  <2> QED BY <1>2, <2>1, PaintsAfter
<1> QED BY <1>5, <1>7, <1>8 DEF Cites

\* The projection an answer carries, when it carries one.
LEMMA ProjectionType ==
  ASSUME NEW q \in RequestRecord, RequestOK(q), q.kind = "detail", q.ans # None,
         q.ans.out \notin FetchFailures
  PROVE  Projection(q) \in DetailType
<1>1. q.ans \in AnswerRecord /\ q.ws \in All
  BY DEF RequestRecord, Maybe
<1>2. q.ans.run \in Runs /\ q.ans.ver \in Versions
  BY <1>1 DEF RequestOK, AnswerRecord
<1>3. q.ans.out \in {"ok", "other", "nounit", "hostile", "defect"}
  BY <1>1 DEF AnswerRecord, Outcomes
<1> QED BY <1>1, <1>2, <1>3 DEF Projection, DetailType, Maybe

LEMMA SetDetailPaints ==
  ASSUME NEW s, Client(s), Net(s), Set, NEW q \in RequestRecord, RequestOK(q),
         q.kind = "detail", q.ans # None
  PROVE  LET t == SetDetailArrives(s, q) IN
         Paints(s, t) /\ Cites(t, q.ans.out)
<1> DEFINE confirmed == q.ans.run = q.run
           snap == [s.snap EXCEPT ![q.ws] = IF confirmed
                                           THEN [@ EXCEPT !.detail = Projection(q),
                                                          !.detailErr = FALSE]
                                           ELSE @]
           t == [s EXCEPT !.conflict = ~confirmed, !.detail = Projection(q),
                          !.detailId = IF confirmed THEN q.run ELSE None,
                          !.detailWs = IF confirmed THEN q.ws ELSE None,
                          !.snap[q.ws] = IF confirmed
                                         THEN [@ EXCEPT !.detail = Projection(q),
                                                        !.detailErr = FALSE]
                                         ELSE @]
           z == RenderCurrent(t)
           out == q.ans.out
<1>1. q.ws \in Workspaces /\ q.run \in Runs /\ out \in Outcomes
  BY DEF RequestOK, RequestRecord, AnswerRecord, Maybe
<1>2. CASE out \in FetchFailures
  <2>1. out \in Failures
    BY <1>2 DEF Failures
  <2>2. SetDetailArrives(s, q) = SetDetailFailed(s, q, out)
    BY <1>2 DEF SetDetailArrives
  <2> QED BY <1>1, <2>1, <2>2, SetDetailFailedPaints
<1>3. CASE out \notin FetchFailures
  <2>1. Projection(q) \in DetailType
    BY <1>3, ProjectionType
  <2>2. snap \in [Workspaces -> SnapRecord]
    <3>1. s.snap \in [Workspaces -> SnapRecord]
      BY DEF Client, Browser
    <3>2. [s.snap[q.ws] EXCEPT !.detail = Projection(q), !.detailErr = FALSE] \in SnapRecord
      BY <1>1, <2>1, <3>1 DEF SnapRecord
    <3> QED BY <3>1, <3>2
  <2>3. t = [s EXCEPT !.conflict = ~confirmed, !.detail = Projection(q),
                      !.detailId = IF confirmed THEN q.run ELSE None,
                      !.detailWs = IF confirmed THEN q.ws ELSE None, !.snap = snap]
    BY DEF Client, Browser
  <2>4. /\ (~confirmed) \in BOOLEAN
        /\ (IF confirmed THEN q.run ELSE None) \in Maybe(Runs)
        /\ (IF confirmed THEN q.ws ELSE None) \in All
    BY <1>1 DEF Maybe, All
  <2>5. Client(t) /\ SameRest(s, t) /\ SameNet(s, t)
    <3> HIDE DEF snap, t
    <3>1. ASSUME NEW f1 \in BOOLEAN, NEW f2 \in DetailType, NEW f3 \in Maybe(Runs),
                 NEW f4 \in All, NEW f5 \in [Workspaces -> SnapRecord]
          PROVE  LET k == [s EXCEPT !.conflict = f1, !.detail = f2, !.detailId = f3,
                                    !.detailWs = f4, !.snap = f5] IN
                 Client(k) /\ SameRest(s, k) /\ SameNet(s, k)
      BY DEF Client, Browser, SameRest, SameNet
    <3> HIDE DEF confirmed
    <3> QED BY <2>1, <2>2, <2>3, <2>4, <3>1
  <2> HIDE DEF snap
  <2>6. SetDetailArrives(s, q) =
          CASE out \in FetchFailures -> SetDetailFailed(s, q, out)
            [] out \notin FetchFailures /\ Throws(t) = None -> DropConflict(z)
            [] out \notin FetchFailures /\ Throws(t) = "defect" -> RenderMonitorDefect(z)
            [] OTHER -> SetDetailFailed(z, q, "render")
    BY DEF SetDetailArrives
  <2> HIDE DEF t
  <2>7. Net(t)
    BY <2>5 DEF Net, Listed, SameNet
  <2>8. /\ Client(z) /\ SameRest(t, z) /\ SameNet(t, z)
        /\ Calm(z) /\ (Throws(t) = None => Draws(t, z) /\ Fits(z))
    BY <2>5, CurrentPainted
  <2> HIDE DEF z, out
  <2>9. Client(z) /\ SameRest(s, z) /\ SameNet(s, z) /\ Net(z)
    BY <2>5, <2>7, <2>8 DEF SameRest, SameNet, Net, Listed
  <2>10. CASE Throws(t) = None
    <3>1. Paints(t, z)
      BY <2>5, <2>7, <2>8, <2>10, PaintedPaints
    <3>2. Paints(s, z)
      BY <2>5, <3>1, PaintsAfter
    <3>3. LET d == DropConflict(z) IN
          Client(d) /\ SameRest(z, d) /\ SameNet(z, d) /\ SameScreen(z, d)
      <4>1. LET d == [z EXCEPT !.detail = None, !.detailWs = None, !.conflict = FALSE] IN
            Client(d) /\ SameRest(z, d) /\ SameNet(z, d) /\ SameScreen(z, d)
        <5>1. None \in DetailType /\ None \in All
          BY DEF DetailType, Maybe, All
        <5> QED BY ZenonT(60), <2>9, <5>1 DEF Client, Browser, SameRest, SameNet, SameScreen
      <4>2. SameRest(z, z) /\ SameNet(z, z) /\ SameScreen(z, z)
        BY DEF SameRest, SameNet, SameScreen
      <4> QED BY <2>9, <4>1, <4>2 DEF DropConflict
    <3>4. Paints(s, DropConflict(z)) /\ Calm(DropConflict(z))
      BY <2>8, <3>2, <3>3, PaintsBefore DEF SameScreen, Calm
    <3>5. Throws(t) # "defect"
      BY <2>10, ClientAssumption
    <3> QED BY <1>3, <2>6, <2>10, <3>4, <3>5 DEF Cites
  <2>11. CASE Throws(t) # None
    <3>1. Deep(t.hash)
      BY <2>11, ThrowsFacts
    <3>2. Paints(z, RenderMonitorDefect(z)) /\ Calm(RenderMonitorDefect(z))
      <4>1. LET d == RenderMonitorDefect(z) IN DrawsFailure(z, d) /\ SameNet(z, d) /\ Calm(d)
        BY <2>9, DefectPainted
      <4> QED BY <2>9, <4>1, FailureFits, PaintedPaints DEF DrawsFailure
    <3>3. Paints(z, SetDetailFailed(z, q, "render")) /\ Calm(SetDetailFailed(z, q, "render"))
      <4>1. "render" \in Failures /\ "render" \notin Absences
        BY DEF Failures, Absences, Losses
      <4> QED BY <1>1, <2>9, <4>1, SetDetailFailedPaints DEF Cites
    <3>4. Paints(s, RenderMonitorDefect(z)) /\ Paints(s, SetDetailFailed(z, q, "render"))
      BY <2>9, <3>2, <3>3, PaintsAfter
    <3> QED BY <1>3, <2>6, <2>11, <3>2, <3>3, <3>4 DEF Cites
  <2> QED BY <2>10, <2>11
<1> QED BY <1>2, <1>3

LEMMA SingleDetailPaints ==
  ASSUME NEW s, Client(s), Net(s), NEW q \in RequestRecord, RequestOK(q),
         q.kind = "detail", q.ans # None
  PROVE  LET t == SingleDetailArrives(s, q) IN
         Paints(s, t) /\ Cites(t, q.ans.out)
<1> DEFINE confirmed == q.ans.run = q.run
           t == [s EXCEPT !.conflict = ~confirmed, !.detail = Projection(q),
                          !.detailId = IF confirmed THEN q.run ELSE None]
           z == RenderCurrent(t)
           d == [z EXCEPT !.detail = None, !.conflict = FALSE]
           out == q.ans.out
<1>1. q.run \in Runs /\ out \in Outcomes
  BY DEF RequestOK, RequestRecord, AnswerRecord, Maybe
<1>2. CASE out \in FetchFailures
  <2>1. out \in Failures
    BY <1>2 DEF Failures
  <2>2. SingleDetailArrives(s, q) = RenderProjectionFailure(s, out)
    BY <1>2 DEF SingleDetailArrives
  <2> QED BY <2>1, <2>2, FailurePaints
<1>3. CASE out \notin FetchFailures
  <2>1. Projection(q) \in DetailType
    BY <1>3, ProjectionType
  <2>2. (~confirmed) \in BOOLEAN /\ (IF confirmed THEN q.run ELSE None) \in Maybe(Runs)
    BY <1>1 DEF Maybe
  <2>3. Client(t) /\ SameRest(s, t) /\ SameNet(s, t)
    <3> HIDE DEF t
    <3>1. ASSUME NEW f1 \in BOOLEAN, NEW f2 \in DetailType, NEW f3 \in Maybe(Runs)
          PROVE  LET k == [s EXCEPT !.conflict = f1, !.detail = f2, !.detailId = f3] IN
                 Client(k) /\ SameRest(s, k) /\ SameNet(s, k)
      BY DEF Client, Browser, SameRest, SameNet
    <3>2. t = [s EXCEPT !.conflict = ~confirmed, !.detail = Projection(q),
                        !.detailId = IF confirmed THEN q.run ELSE None]
      BY DEF t
    <3> HIDE DEF confirmed
    <3> QED BY <2>1, <2>2, <3>1, <3>2
  <2>4. SingleDetailArrives(s, q) =
          CASE out \in FetchFailures -> RenderProjectionFailure(s, out)
            [] out \notin FetchFailures /\ Throws(t) # None -> RenderError(z, Throws(t))
            [] out \notin FetchFailures /\ Throws(t) = None /\ confirmed -> z
            [] OTHER -> d
    BY DEF SingleDetailArrives
  <2> HIDE DEF t, confirmed
  <2>5. Net(t)
    BY <2>3 DEF Net, Listed, SameNet
  <2>6. /\ Client(z) /\ SameRest(t, z) /\ SameNet(t, z)
        /\ Calm(z) /\ (Throws(t) = None => Draws(t, z) /\ Fits(z))
    BY <2>3, CurrentPainted
  <2> HIDE DEF z, out
  <2>7. Client(z) /\ SameRest(s, z) /\ SameNet(s, z) /\ Net(z) /\ z.hash = t.hash
    BY <2>3, <2>5, <2>6 DEF SameRest, SameNet, Net, Listed
  <2>8. CASE Throws(t) = None
    <3>1. Paints(t, z)
      BY <2>3, <2>5, <2>6, <2>8, PaintedPaints
    <3>2. Paints(s, z)
      BY <2>3, <3>1, PaintsAfter
    <3>3. Client(d) /\ SameRest(z, d) /\ SameNet(z, d) /\ SameScreen(z, d)
      <4>1. None \in DetailType
        BY DEF DetailType, Maybe
      <4> QED BY <2>7, <4>1 DEF Client, Browser, SameRest, SameNet, SameScreen
    <3> HIDE DEF d
    <3>4. Paints(s, d) /\ Calm(d)
      BY <2>6, <3>2, <3>3, PaintsBefore DEF SameScreen, Calm
    <3> QED BY <1>3, <2>4, <2>6, <2>8, <3>2, <3>4 DEF Cites
  <2>9. CASE Throws(t) # None
    <3>1. z.hash.view # "workspaces"
      BY <2>7, <2>9, ThrowsFacts DEF Deep
    <3>2. PICK thrown : thrown = Throws(t)
      OBVIOUS
    <3>3. Paints(z, RenderError(z, thrown)) /\ Calm(RenderError(z, thrown))
      BY <2>7, <3>1, ErrorPainted, PaintedPaints DEF Shows
    <3>4. Paints(s, RenderError(z, thrown))
      BY <2>7, <3>3, PaintsAfter
    <3> QED BY <1>3, <2>4, <2>9, <3>2, <3>3, <3>4 DEF Cites
  <2> QED BY <2>8, <2>9
<1> QED BY <1>2, <1>3

LEMMA RunsPaints ==
  ASSUME NEW s, Client(s), Net(s), NEW q \in RequestRecord, RequestOK(q),
         q.kind = "runs", q.ans # None
  PROVE  Paints(s, RunsArrives(s, q)) /\ Costs(s, RunsArrives(s, q), 0)
<1> DEFINE t == [s EXCEPT !.list = q.ans.ver, !.detail = None, !.detailId = None,
                          !.conflict = FALSE]
           out == q.ans.out
<1>1. out \in Outcomes /\ q.ans.ver \in VerOrNone
  BY DEF RequestRecord, AnswerRecord, Maybe, VerOrNone
<1>2. CASE out \in FetchFailures
  <2>1. out \in Failures
    BY <1>2 DEF Failures
  <2>2. RunsArrives(s, q) = RenderProjectionFailure(s, out)
    BY <1>2 DEF RunsArrives
  <2>3. out \notin Losses
    BY DEF RequestOK, Losses
  <2>4. SameNet(s, RunsArrives(s, q)) /\ SameRest(s, RunsArrives(s, q))
    BY <2>1, <2>2, <2>3, ProjectionFailurePainted DEF DrawsFailure, Draws
  <2>5. Costs(s, RunsArrives(s, q), 0)
    BY <2>4, CostsSame DEF SameRest
  <2> QED BY <2>1, <2>2, <2>5, FailurePaints
<1>3. CASE out \notin FetchFailures
  <2>1. None \in DetailType /\ None \in Maybe(Runs)
    BY DEF DetailType, Maybe
  <2>2. Client(t) /\ SameRest(s, t) /\ SameNet(s, t)
    BY <1>1, <2>1 DEF Client, Browser, SameRest, SameNet
  <2>3. RunsArrives(s, q) = RenderCurrentGuarded(t)
    BY <1>3 DEF RunsArrives
  <2> HIDE DEF t
  <2>4. Net(t)
    BY <2>2 DEF Net, Listed, SameNet
  <2>5. Paints(t, RenderCurrentGuarded(t)) /\ Costs(t, RenderCurrentGuarded(t), 0)
    BY <2>2, <2>4, GuardedPaints
  <2>6. Costs(s, RenderCurrentGuarded(t), 0)
    BY <2>2, <2>5, CostsPainted DEF SameRest
  <2> QED BY <2>2, <2>3, <2>5, <2>6, PaintsAfter
<1> QED BY <1>2, <1>3

\* The refresh in flight ends with a painting of the address.
LEMMA LandsInv ==
  ASSUME NEW s, Net(s), Aimed(s), Addressed(s), AwaitedIn(s) = {},
         s.hash.view # "workspaces" \/ Moved(s), NEW t, Paints(s, t), mode \in Modes
  PROVE  /\ BrowserInv(Landed(t)) /\ NoNewLoss(t, Landed(t)) /\ Costs(t, Landed(t), 0)
         /\ SameRest(s, t)
<1>1. /\ Client(t) /\ Net(t) /\ Aimed(t) /\ Recorded(t) /\ PaneFits(t) /\ AwaitedIn(t) = {}
      /\ SameRest(s, t)
  BY DEF Paints, Draws, Gains
<1>2. Addressed(t)
  BY <1>1 DEF Addressed, SameRest
<1>3. Fits(t) \/ Moved(t)
  BY <1>1 DEF Paints, Moved, SameRest
<1>4. ScreenKept(t)
  BY <1>1, <1>3 DEF ScreenKept
<1> QED BY <1>1, <1>2, <1>4, LandedInv

\* The answer q is the loss recorded at the address, and will be believed.
TrueLoss(s, q) ==
    /\ q.kind = "detail" /\ q.fresh /\ q.ans.out \in Absences
    /\ <<q.ws, q.run>> = Subject(s.hash) /\ s.lastPaint.failure = q.ans.out

\* The answer of the refresh in flight: it records no loss it does not carry.
LEMMA RunAnswerInv ==
  ASSUME NEW s, BrowserInv(s), NEW q \in s.reqs, q.ans # None, q.kind \in {"detail", "runs"},
         mode \in Modes
  PROVE  LET z == Arrives(s, q) IN
         BrowserInv(z) /\ (Excused(z) \/ TrueLoss(z, q)) /\ Costs(s, z, -1)
<1> DEFINE t == Without(s, q)
<1>1. Client(s) /\ Net(s) /\ Flying(s) /\ Aimed(s) /\ Addressed(s) /\ Recorded(s)
  BY DEF BrowserInv
<1>2. /\ Client(t) /\ SameRest(s, t) /\ SameScreen(s, t) /\ t.waits = s.waits
      /\ t.reqs = s.reqs \ {q} /\ Aimed(t) /\ Net(t) /\ Costs(s, t, 0 - Weight(q))
  BY <1>1, TakenFacts
<1>3. q \in RequestRecord /\ RequestOK(q) /\ q \in AwaitedIn(s)
  BY <1>1 DEF Client, Browser, Net, AwaitedIn
<1> HIDE DEF t
<1>4. Addressed(t) /\ Recorded(t) /\ (Moved(t) <=> Moved(s)) /\ t.hash = s.hash /\ t.again = s.again
  BY <1>1, <1>2 DEF Addressed, Recorded, Calm, Moved, SameRest, SameScreen
<1>5. AwaitedIn(t) = {}
  <2>1. \A x \in AwaitedIn(s) : x = q
    BY <1>1, <1>3 DEF Flying
  <2>2. \A x \in s.waits : x # q
    BY <1>1, <1>3, KindsApart DEF Client, Browser
  <2> QED BY <1>2, <2>1, <2>2 DEF AwaitedIn
\* A run request weighs what the inventory it may ask for does, and more.
<1>8. ASSUME NEW z, NEW n \in Int, Costs(t, z, n), n <= 0 \/ (q.kind = "detail" /\ n <= 2)
      PROVE  Costs(s, z, -1)
  <2>1. Weight(q) \in Nat /\ Weight(q) >= 1 /\ (q.kind = "detail" => Weight(q) >= 3)
    BY WeightType
  <2>2. PICK m \in Int : m = 0 - Weight(q)
    BY <2>1
  <2>3. Costs(s, z, m + n)
    BY <1>2, <1>8, <2>2, CostsThen
  <2>4. m + n <= -1
    BY <1>8, <2>1, <2>2
  <2> QED BY <1>8, <2>2, <2>3, <2>4, CostsMore
<1>6. CASE ~q.fresh
  <2>1. t.again
    BY <1>1, <1>3, <1>4, <1>6 DEF Flying
  <2>2. Arrives(s, q) = Landed(t)
    BY <1>6 DEF Arrives, t, Without
  <2>3. BrowserInv(Landed(t)) /\ Excused(Landed(t)) /\ Costs(t, Landed(t), 0)
    BY <1>2, <1>4, <1>5, <2>1, LandedInv
  <2>4. Costs(s, Landed(t), -1)
    BY <1>8, <2>3
  <2> QED BY <2>2, <2>3, <2>4
<1>7. CASE q.fresh
  <2>1. t.hash.view # "workspaces" \/ Moved(t)
    BY <1>1, <1>4, <1>7 DEF Aimed, Deep
  <2>2. CASE q.kind = "runs"
    <3>0. t.hash.run = None \/ Moved(t)
      BY <1>1, <1>2, <1>4, <1>7, <2>2 DEF Aimed, Client, AddressFits, WellFormed
    <3>1. Paints(t, RunsArrives(t, q)) /\ Costs(t, RunsArrives(t, q), 0)
      BY <1>2, <1>3, <2>2, RunsPaints
    <3>2. Arrives(s, q) = Landed(RunsArrives(t, q))
      BY <1>7, <2>2 DEF Arrives, t, Without
    <3> DEFINE v == RunsArrives(t, q)
    <3> HIDE DEF v
    <3>3. BrowserInv(Landed(v)) /\ NoNewLoss(v, Landed(v)) /\ SameRest(t, v) /\ Costs(v, Landed(v), 0)
      BY <1>2, <1>4, <1>5, <2>1, <3>1, LandsInv DEF v
    <3>4. Excused(v)
      BY <3>0, <3>3 DEF Excused, Moved, SameRest
    <3>5. Costs(s, Landed(v), -1)
      <4>1. Costs(t, Landed(v), 0 + 0)
        BY <3>1, <3>3, CostsThen DEF v
      <4> QED BY <1>8, <4>1
    <3> QED BY <3>2, <3>3, <3>4, <3>5 DEF NoNewLoss, v
  <2>0. ASSUME q.kind = "detail", NEW v, Paints(t, v), Cites(v, q.ans.out)
        PROVE  /\ BrowserInv(Landed(v)) /\ (Excused(Landed(v)) \/ TrueLoss(Landed(v), q))
               /\ Costs(s, Landed(v), -1)
    <3>1. BrowserInv(Landed(v)) /\ NoNewLoss(v, Landed(v)) /\ SameRest(t, v) /\ Costs(v, Landed(v), 0)
      BY <1>2, <1>4, <1>5, <2>0, <2>1, LandsInv
    <3>2. <<q.ws, q.run>> = Subject(v.hash) \/ Moved(v)
      BY <1>1, <1>4, <1>7, <2>0, <3>1 DEF Aimed, Moved, SameRest
    <3>3. Costs(s, Landed(v), -1)
      <4>1. Costs(t, Landed(v), 2 + 0)
        BY <2>0, <3>1, CostsThen DEF Paints
      <4> QED BY <1>8, <2>0, <4>1
    <3> QED BY <1>7, <2>0, <3>1, <3>2, <3>3 DEF NoNewLoss, Excused, Cites, TrueLoss
  <2>3. CASE q.kind = "detail" /\ Set
    <3>1. LET v == SetDetailArrives(t, q) IN Paints(t, v) /\ Cites(v, q.ans.out)
      BY <1>2, <1>3, <2>3, SetDetailPaints
    <3>2. Arrives(s, q) = Landed(SetDetailArrives(t, q))
      BY <1>7, <2>3 DEF Arrives, t, Without
    <3> QED BY <2>0, <2>3, <3>1, <3>2
  <2>4. CASE q.kind = "detail" /\ ~Set
    <3>1. LET v == SingleDetailArrives(t, q) IN Paints(t, v) /\ Cites(v, q.ans.out)
      BY <1>2, <1>3, <2>4, SingleDetailPaints
    <3>2. Arrives(s, q) = Landed(SingleDetailArrives(t, q))
      BY <1>7, <2>4 DEF Arrives, t, Without
    <3> QED BY <2>0, <2>4, <3>1, <3>2
  <2> QED BY <2>2, <2>3, <2>4
<1> QED BY <1>6, <1>7

\* The inventory acquired in single mode for a dead end.
LEMMA ResolveAnswerInv ==
  ASSUME NEW s, BrowserInv(s), NEW q \in s.reqs, q.ans # None, q.kind = "resolve"
  PROVE  /\ BrowserInv(Arrives(s, q))
         /\ ~Returns(s, q.run) => NoNewLoss(s, Arrives(s, q))
         /\ Returns(s, q.run) => Cites(Arrives(s, q), s.dead.failure)
         /\ Arrives(s, q).hash = s.hash
         /\ Costs(s, Arrives(s, q), -1)
<1> DEFINE t == Without(s, q)
           u == IF q.fresh /\ q.ans.out = "ok" THEN [t EXCEPT !.list = q.ans.ver] ELSE t
<1>1. Client(s) /\ Net(s) /\ q \in RequestRecord
  BY DEF BrowserInv, Client, Browser
<1>2. /\ Client(t) /\ SameRest(s, t) /\ SameScreen(s, t) /\ t.waits = s.waits
      /\ t.reqs = s.reqs \ {q} /\ (Aimed(s) => Aimed(t)) /\ Net(t)
      /\ t.resBusy = s.resBusy /\ Costs(s, t, 0 - Weight(q))
  BY <1>1, TakenFacts
<1>3. q.ans.ver \in VerOrNone
  BY <1>1 DEF RequestRecord, AnswerRecord, Maybe, VerOrNone
<1>4. Arrives(s, q) = Resolved(u, q.run)
  BY DEF Arrives, Without
<1>0. u.dead = s.dead
  BY <1>1 DEF Without, Client, Browser
<1> HIDE DEF t
<1>5. Keeps(s, t)
  <2>1. AwaitedIn(t) = AwaitedIn(s)
    BY <1>2 DEF AwaitedIn
  <2>2. Busy(s) => Busy(t)
    BY <1>2 DEF Busy, ListComing, SameRest
  <2>3. Recorded(s) => Recorded(t)
    BY <1>2 DEF Recorded, Calm, SameScreen
  <2>4. (Fits(s) => Fits(t)) /\ (PaneFits(s) => PaneFits(t))
    BY <1>2 DEF Fits, PaneFits, SameScreen, SameRest
  <2> QED BY <1>2, <2>1, <2>2, <2>3, <2>4 DEF Keeps, Gains
<1>6. Client(u) /\ SameRest(t, u) /\ SameNet(t, u) /\ SameScreen(t, u)
  BY <1>2, <1>3 DEF Client, Browser, SameRest, SameNet, SameScreen
<1> HIDE DEF u
<1>7. Keeps(t, u)
  BY <1>2, <1>6, QuietKeeps DEF SameNet, SameReqs
<1>8. Client(u) /\ Net(u)
  BY <1>7 DEF Keeps, Gains
<1>9. Keeps(u, Resolved(u, q.run))
  BY <1>8, ResolvedKeeps
<1>10. Keeps(s, Resolved(u, q.run))
  BY <1>5, <1>7, <1>9, KeepsTwice
<1>11. BrowserInv(Resolved(u, q.run)) /\ Resolved(u, q.run).hash = s.hash
  BY <1>10, KeepsInv DEF Keeps, Gains, SameRest
<1>14. Returns(s, q.run) <=> Returns(u, q.run)
  BY <1>2, <1>6, <1>0 DEF Returns, SameScreen, SameRest
<1>15. Recorded(u)
  BY <1>5, <1>7 DEF BrowserInv, Keeps
<1>16. Returns(s, q.run) => Cites(Resolved(u, q.run), s.dead.failure)
  BY <1>8, <1>14, <1>15, <1>0, ResolvedLoss
<1>12. ASSUME ~Returns(s, q.run) PROVE NoNewLoss(s, Resolved(u, q.run))
  <2>1. NoNewLoss(s, u) /\ Recorded(u)
    <3>1. Keeps(s, u)
      BY <1>5, <1>7, KeepsTwice
    <3>2. SameLoss(s, u)
      BY <1>2, <1>6 DEF SameScreen, SameLoss, Calm
    <3> QED BY <3>1, <3>2, KeepsNoLoss DEF BrowserInv, Keeps
  <2>2. ~Returns(u, q.run)
    BY <1>12, <1>14
  <2>3. NoNewLoss(u, Resolved(u, q.run))
    BY <1>8, <2>1, <2>2, ResolvedLoss
  <2> QED BY <2>1, <2>3 DEF NoNewLoss
\* It was the one acquisition, and starts no other.
<1>13. Costs(s, Resolved(u, q.run), -1)
  <2> SUFFICES ASSUME Light(s)
               PROVE  LET z == Resolved(u, q.run) IN
                      Light(z) /\ z.pending = s.pending /\ Load(z) <= Load(s) + -1
    BY DEF Costs
  <2>1. Weight(q) \in Nat /\ Weight(q) >= 1
    BY WeightType
  <2>2. Costs(s, u, 0 - Weight(q))
    <3>1. (0 - Weight(q)) \in Int /\ u.again = t.again
      BY <1>6, <2>1 DEF SameRest
    <3> QED BY <1>2, <1>6, <3>1, CostsPainted
  <2>3. Light(u) /\ u.pending = s.pending /\ Load(u) <= Load(s) + (0 - Weight(q))
    BY <2>2 DEF Costs
  <2>4. /\ q \in ResolveAsked(s) /\ \A p \in ResolveAsked(s) : p = q
        /\ ResolveWaits(s) = {} /\ s.resBusy
    <3>1. q \in ResolveAsked(s)
      BY DEF ResolveAsked
    <3> QED BY <3>1 DEF Light
  <2>5. ResolveAsked(u) = {} /\ ResolveWaits(u) = {} /\ u.resBusy
    BY <1>2, <1>6, <2>4 DEF ResolveAsked, ResolveWaits, SameNet
  <2>6. LET z == Resolved(u, q.run) IN Light(z) /\ z.pending = u.pending /\ Load(z) = Load(u)
    BY <1>8, <2>3, <2>5, ResolvedCosts
  <2> QED BY <2>1, <2>3, <2>6, LoadType
<1> QED BY <1>4, <1>11, <1>12, <1>13, <1>16

\* The list of a source has been committed: what is on the screen is what
\* was, or a painting of the address, and of the run list if it is its list.
Committed(s, q, t) ==
    /\ Client(t) /\ SameRest(s, t) /\ SameNet(s, t)
    /\ Recorded(s) => Recorded(t)
    /\ SameScreen(s, t) \/ (Fits(t) /\ PaneFits(t))
    /\ q.fresh /\ s.hash.view = "runs" /\ s.hash.ws = q.ws => Fits(t) /\ PaneFits(t)
    /\ s.hash.run # None => SameScreen(s, t) /\ t.dead = s.dead

LEMMA CommittedFacts ==
  ASSUME NEW s, Client(s), NEW q, q.ws \in Workspaces, q.ans.ver \in Versions,
         q.ans.out \in {"ok", "failed"}
  PROVE  Committed(s, q, ListCommitted(s, q))
<1> DEFINE good == [s EXCEPT !.snap[q.ws].list = q.ans.ver, !.snap[q.ws].listErr = FALSE]
           bad == [s EXCEPT !.snap[q.ws].listErr = TRUE]
<1>1. CASE ~q.fresh
  BY <1>1 DEF ListCommitted, Committed, SameRest, SameNet, SameScreen
<1>2. CASE q.fresh
  <2>1. /\ [[s.snap EXCEPT ![q.ws].list = q.ans.ver] EXCEPT ![q.ws].listErr = FALSE]
             \in [Workspaces -> SnapRecord]
        /\ [s.snap EXCEPT ![q.ws].listErr = TRUE] \in [Workspaces -> SnapRecord]
    <3>1. s.snap \in [Workspaces -> SnapRecord] /\ q.ans.ver \in VerOrNone
      BY DEF Client, Browser, VerOrNone
    <3>2. [s.snap EXCEPT ![q.ws].list = q.ans.ver] \in [Workspaces -> SnapRecord]
      BY <3>1 DEF SnapRecord
    <3>3. ASSUME NEW f \in [Workspaces -> SnapRecord], NEW e \in BOOLEAN
          PROVE  [f EXCEPT ![q.ws].listErr = e] \in [Workspaces -> SnapRecord]
      BY DEF SnapRecord
    <3> QED BY <3>1, <3>2, <3>3
  <2>2. PICK t \in {good, bad} :
          /\ ListCommitted(s, q) = ListPainted(t, q)
          /\ q.ans.out = "ok" => t = good
    BY <1>2 DEF ListCommitted
  <2>3. Client(t) /\ SameRest(s, t) /\ SameNet(s, t) /\ SameScreen(s, t) /\ t.dead = s.dead
    <3>1. CASE t = good
      BY <2>1, <3>1 DEF Client, Browser, SameRest, SameNet, SameScreen
    <3>2. CASE t = bad
      BY <2>1, <3>2 DEF Client, Browser, SameRest, SameNet, SameScreen
    <3> QED BY <3>1, <3>2
  <2> HIDE DEF good, bad
  <2> DEFINE u == ListPainted(t, q)
             held == t.snap[q.ws].list
             w == [t EXCEPT !.list = held]
  <2>4. t.hash = s.hash
    BY <2>3 DEF SameRest
  <2>5. t.hash.view \in {"workspaces", "runs"} => t.hash.run = None
    BY <2>3, ClientAssumption DEF Client, AddressFits, WellFormed
  <2>6. CASE t.hash.view = "workspaces"
    <3>1. u = RenderWorkspaceOverview(t)
      BY <2>6 DEF ListPainted
    <3>2. Draws(t, u) /\ SameNet(t, u) /\ Fits(u)
      BY <2>3, <2>6, <3>1, OverviewPainted
    <3> HIDE DEF u
    <3> QED BY <2>2, <2>3, <2>4, <2>5, <2>6, <3>2 DEF u, Committed, Draws, SameRest, SameNet
  <2>7. CASE t.hash.view = "runs" /\ t.hash.ws = q.ws /\ held # None
    <3>1. u = RenderCurrentGuarded(w)
      BY <2>7 DEF ListPainted
    <3>2. held \in VerOrNone
      BY <2>3 DEF Client, Browser, SnapRecord
    <3> HIDE DEF held
    <3>3. Client(w) /\ SameRest(t, w) /\ SameNet(t, w) /\ w.hash = t.hash
      BY <2>3, <3>2 DEF Client, Browser, SameRest, SameNet
    <3> HIDE DEF w
    <3>4. Draws(w, u) /\ Fits(u) /\ SameNet(w, u)
      BY <2>5, <2>7, <3>1, <3>3, GuardedPainted
    <3> HIDE DEF u
    <3> QED BY <2>2, <2>3, <2>4, <2>5, <2>7, <3>3, <3>4 DEF u, Committed, Draws, SameRest, SameNet
  <2>8. CASE t.hash.view = "runs" /\ t.hash.ws = q.ws /\ held = None
    <3>1. q.ans.out = "failed"
      <4>1. ASSUME q.ans.out = "ok" PROVE FALSE
        <5>1. t = good
          BY <2>2, <4>1
        <5>2. held = q.ans.ver
          BY <5>1, <2>1 DEF good, Client, Browser, SnapRecord
        <5> QED BY <2>8, <5>2, ClientAssumption DEF Versions
      <4> QED BY <4>1
    <3>2. u = RenderProjectionFailure(t, "failed")
      BY <2>8, <3>1 DEF ListPainted
    <3>3. PICK out \in Failures : out = "failed"
      BY DEF Failures, FetchFailures
    <3>4. DrawsFailure(t, u) /\ SameNet(t, u)
      BY <2>3, <2>5, <2>8, <3>2, <3>3, ProjectionFailurePainted
    <3>5. Fits(u)
      BY <2>8, <3>4, FailureFits
    <3> HIDE DEF u
    <3> QED BY <2>2, <2>3, <2>4, <2>5, <2>8, <3>4, <3>5
               DEF u, Committed, DrawsFailure, Draws, SameRest, SameNet
  <2>9. CASE ~(t.hash.view = "workspaces") /\ ~(t.hash.view = "runs" /\ t.hash.ws = q.ws)
    <3>1. u = t
      BY <2>9 DEF ListPainted
    <3> HIDE DEF u
    <3> QED BY <2>2, <2>3, <2>4, <2>9, <3>1 DEF u, Committed, Recorded, Calm, SameScreen
  <2> QED BY <2>6, <2>7, <2>8, <2>9
<1> QED BY <1>1, <1>2

\* The answer to a list has been committed, and is waited for no more; last
\* holds the callback that waited for nothing else.
Taken(s, u, last) ==
    /\ Client(u) /\ Net(u) /\ Aimed(u) /\ Addressed(u) /\ Recorded(u) /\ u.again = s.again
    /\ last \subseteq s.waits /\ \A x, y \in last : x = y
    /\ (\A x \in last : x.then \notin {"land", "overview"}) => Flying(u)
    /\ \A x \in last : x.then \in {"land", "overview"} => AwaitedIn(u) = {}
    /\ (\A x \in last : x.then # "overview") => ScreenKept(u)
    /\ u.hash = s.hash /\ (Moved(u) <=> Moved(s))
    /\ s.hash.run # None => SameScreen(s, u) /\ u.dead = s.dead
    /\ (\A x \in last : x.then # "overview") => NoNewLoss(s, u)

\* The work that has been done then, for a callback that starts some more.
TakenWork(s, u, last) ==
    Light(s) =>
        /\ Light(u) /\ u.pending = s.pending /\ Load(u) <= Load(s) - 1
        /\ \A x \in last :
             /\ x.then = "deep" => Load(u) <= Load(s) - 1 - ReplayWork
             /\ x.then = "resolve" => u.resBusy /\ ResolveAsked(u) = {} /\ ResolveWaits(u) = {}

LastWaits(t, one) == {x \in t.waits : one \in x.on /\ x.on = {one}}
Unwaited(t, one) ==
    [t EXCEPT !.waits = {[x EXCEPT !.on = @ \ {one}] : x \in @ \ LastWaits(t, one)}]

LEMMA ListTaken ==
  ASSUME NEW s, BrowserInv(s), NEW q \in s.reqs, q.kind = "list",
         NEW t, Committed(Without(s, q), q, t), NEW one, one = <<q.ws, q.id>>,
         NEW last, last = LastWaits(t, one), NEW u, u = Unwaited(t, one)
  PROVE  Taken(s, u, last) /\ TakenWork(s, u, last)
<1> DEFINE p == Without(s, q)
           Cut(x) == [x EXCEPT !.on = @ \ {one}]
           kept == {Cut(x) : x \in s.waits \ last}
<1>0. /\ last = {x \in t.waits : one \in x.on /\ x.on = {one}}
      /\ u = [t EXCEPT !.waits = {[x EXCEPT !.on = @ \ {one}] : x \in @ \ last}]
  BY DEF LastWaits, Unwaited
<1>1. /\ Client(s) /\ Net(s) /\ Flying(s) /\ Aimed(s) /\ Addressed(s) /\ Recorded(s)
      /\ ScreenKept(s)
  BY DEF BrowserInv
<1>2. /\ Client(p) /\ SameRest(s, p) /\ SameScreen(s, p) /\ p.waits = s.waits
      /\ p.reqs = s.reqs \ {q} /\ Aimed(p) /\ p.dead = s.dead /\ p.resBusy = s.resBusy
  BY ZenonT(60), <1>1, TakenFacts DEF Without, Client, Browser
<1> HIDE DEF p
<1>3. /\ Client(t) /\ SameRest(s, t) /\ t.waits = s.waits /\ t.reqs = s.reqs \ {q} /\ Recorded(t)
      /\ t.resBusy = s.resBusy
      /\ SameScreen(s, t) \/ (Fits(t) /\ PaneFits(t))
      /\ q.fresh /\ s.hash.view = "runs" /\ s.hash.ws = q.ws => Fits(t) /\ PaneFits(t)
      /\ s.hash.run # None => SameScreen(s, t) /\ t.dead = p.dead
  <2>1. Recorded(p)
    BY <1>1, <1>2 DEF Recorded, Calm, SameScreen
  <2> QED BY <1>2, <2>1 DEF p, Committed, SameRest, SameNet, SameScreen
<1>4. s.waits \subseteq WaitRecord /\ s.reqs \subseteq RequestRecord
  BY <1>1 DEF Client, Browser
<1>5. \A x \in WaitRecord : /\ Cut(x) \in WaitRecord /\ Cut(x).on = x.on \ {one}
                            /\ Cut(x).then = x.then /\ Cut(x).fresh = x.fresh
  BY DEF WaitRecord
<1> HIDE DEF Cut
<1>6. last \subseteq s.waits /\ \A x \in last : one \in x.on /\ x.on = {one}
  BY <1>0, <1>3
<1>7. \A x, y \in last : x = y
  BY <1>1, <1>6 DEF Net
<1>8. kept \subseteq WaitRecord
  BY <1>4, <1>5
<1>9. /\ Client(u) /\ SameRest(s, u) /\ SameScreen(t, u) /\ u.reqs = s.reqs \ {q} /\ u.waits = kept
      /\ u.dead = t.dead /\ u.resBusy = s.resBusy
  <2>1. u = [t EXCEPT !.waits = kept]
    BY <1>0, <1>3 DEF Cut, Client, Browser
  <2> HIDE DEF kept
  <2> QED BY <1>3, <1>8, <2>1 DEF Client, Browser, SameRest, SameScreen
<1>10. \A y \in kept : \E x \in s.waits \ last : y = Cut(x)
  OBVIOUS
<1>11. \A x \in s.waits \ last : Cut(x) \in kept
  OBVIOUS
<1> HIDE DEF kept
<1>12. Net(u)
  <2>1. IsFiniteSet(u.reqs)
    <3>1. u.reqs \subseteq s.reqs /\ IsFiniteSet(s.reqs)
      BY <1>1, <1>9 DEF Net
    <3> QED BY ONLY <3>1, FS_Subset
  <2>2. ASSUME NEW x \in s.waits \ last PROVE Cut(x).on # {} /\ \A l \in Cut(x).on : Listed(u, l)
    <3>1. Cut(x).on = x.on \ {one} /\ x.on # {}
      BY <1>1, <1>4, <1>5 DEF Net
    <3>2. Cut(x).on # {}
      <4>1. CASE one \in x.on
        <5>1. x.on # {one}
          BY <1>0, <1>3, <4>1
        <5> QED BY <3>1, <4>1, <5>1
      <4>2. CASE one \notin x.on
        BY <3>1, <4>2
      <4> QED BY <4>1, <4>2
    <3>3. ASSUME NEW l \in x.on, l # one PROVE Listed(u, l)
      <4>1. PICK r \in s.reqs : r.kind = "list" /\ l = <<r.ws, r.id>>
        BY <1>1, <3>3 DEF Net, Listed
      <4>2. r # q
        BY <3>3, <4>1
      <4> QED BY <1>9, <4>1, <4>2 DEF Listed
    <3> QED BY <3>1, <3>2, <3>3
  <2>3. ASSUME NEW x \in s.waits \ last, NEW y \in s.waits \ last, Cut(x).on \cap Cut(y).on # {}
        PROVE  x = y
    <3>1. x.on \cap y.on # {}
      BY <1>4, <1>5, <2>3
    <3> QED BY <1>1, <3>1 DEF Net
  <2>4. \A y \in u.waits : y.on # {} /\ \A l \in y.on : Listed(u, l)
    BY <1>9, <1>10, <2>2
  <2>5. \A x, y \in u.waits : x.on \cap y.on # {} => x = y
    BY <1>9, <1>10, <2>3
  <2>6. \A r \in u.reqs : RequestOK(r)
    BY <1>1, <1>9 DEF Net
  <2> QED BY <2>1, <2>4, <2>5, <2>6 DEF Net
<1>13. /\ u.hash = s.hash /\ (Moved(u) <=> Moved(s)) /\ u.again = s.again
       /\ u.flight = s.flight /\ u.pending = s.pending
  BY <1>9 DEF SameRest, Moved
<1>14. Aimed(u)
  <2>1. \A r \in u.reqs : r \in s.reqs
    BY <1>9
  <2>2. \A y \in u.waits : y.fresh /\ y.then = "overview" => Moved(u) \/ u.hash.view = "workspaces"
    <3>1. ASSUME NEW x \in s.waits, Cut(x).fresh, Cut(x).then = "overview"
          PROVE  Moved(u) \/ u.hash.view = "workspaces"
      BY <1>1, <1>4, <1>5, <1>13, <3>1 DEF Aimed
    <3> QED BY <1>9, <1>10, <3>1
  <2> QED BY <1>1, <1>13, <2>1, <2>2 DEF Aimed
<1>15. Addressed(u) /\ Recorded(u)
  BY <1>1, <1>3, <1>9 DEF Addressed, Recorded, Calm, SameRest, SameScreen
<1>16. \A y \in AwaitedIn(u) : \E x \in AwaitedIn(s) :
         /\ y.fresh = x.fresh
         /\ \/ x \in s.reqs /\ y = x
            \/ x \in s.waits \ last /\ y = Cut(x)
  <2> TAKE y \in AwaitedIn(u)
  <2>1. CASE y \in u.reqs /\ y.kind \in {"detail", "runs"}
    BY <1>9, <2>1 DEF AwaitedIn
  <2>2. CASE y \in u.waits /\ y.then \in {"land", "overview"}
    <3>1. PICK x \in s.waits \ last : y = Cut(x)
      BY <1>9, <1>10, <2>2
    <3>2. y.fresh = x.fresh /\ y.then = x.then
      BY <1>4, <1>5, <3>1
    <3>3. x \in AwaitedIn(s)
      BY <2>2, <3>2 DEF AwaitedIn
    <3> QED BY <3>1, <3>2, <3>3
  <2> QED BY <2>1, <2>2 DEF AwaitedIn
<1>17. ASSUME NEW x \in last, x.then \in {"land", "overview"} PROVE AwaitedIn(u) = {}
  <2>1. x \in AwaitedIn(s)
    BY <1>6, <1>17 DEF AwaitedIn
  <2>2. \A y \in AwaitedIn(s) : y = x
    BY <1>1, <2>1 DEF Flying
  <2>3. x \notin s.reqs
    BY <1>4, <1>6, KindsApart
  <2> QED BY <1>16, <2>2, <2>3
<1>18. ASSUME \A x \in last : x.then \notin {"land", "overview"} PROVE Flying(u)
  <2>1. AwaitedIn(s) # {} => AwaitedIn(u) # {}
    <3>1. ASSUME NEW x \in s.reqs, x.kind \in {"detail", "runs"} PROVE x \in AwaitedIn(u)
      BY <1>9, <3>1 DEF AwaitedIn
    <3>2. ASSUME NEW x \in s.waits, x.then \in {"land", "overview"} PROVE Cut(x) \in AwaitedIn(u)
      <4>1. x \in s.waits \ last
        BY <1>18, <3>2
      <4>2. Cut(x) \in u.waits /\ Cut(x).then = x.then
        BY <1>4, <1>5, <1>9, <1>11, <4>1
      <4> QED BY <3>2, <4>2 DEF AwaitedIn
    <3> QED BY <3>1, <3>2 DEF AwaitedIn
  <2>2. AwaitedIn(u) # {} => AwaitedIn(s) # {}
    BY <1>16
  <2>3. ASSUME NEW y \in AwaitedIn(u), NEW z \in AwaitedIn(u) PROVE y = z
    <3>1. PICK x \in AwaitedIn(s) :
            \/ x \in s.reqs /\ y = x
            \/ x \in s.waits /\ y = Cut(x)
      BY <1>16
    <3>2. PICK w \in AwaitedIn(s) :
            \/ w \in s.reqs /\ z = w
            \/ w \in s.waits /\ z = Cut(w)
      BY <1>16
    <3>3. x = w
      BY <1>1 DEF Flying
    <3> QED BY <1>4, <3>1, <3>2, <3>3, KindsApart
  <2>4. \A y \in AwaitedIn(u) : y.fresh \/ u.again
    BY <1>1, <1>13, <1>16 DEF Flying
  <2> QED BY <1>1, <1>13, <2>1, <2>2, <2>3, <2>4 DEF Flying
<1>19. ASSUME \A x \in last : x.then # "overview", Busy(s), ~ListComing(s) PROVE Busy(u)
  <2>1. CASE s.again
    BY <1>13, <2>1 DEF Busy
  <2>2. CASE \E r \in s.reqs : r.kind \in {"detail", "runs"}
    BY <1>9, <2>2 DEF Busy
  <2>3. CASE \E x \in s.waits : x.then = "overview"
    <3>1. PICK x \in s.waits : x.then = "overview"
      BY <2>3
    <3>2. Cut(x) \in u.waits /\ Cut(x).then = "overview"
      BY <1>4, <1>5, <1>9, <1>11, <1>19, <3>1
    <3> QED BY <3>2 DEF Busy
  <2> QED BY <1>19, <2>1, <2>2, <2>3 DEF Busy
<1>20. ASSUME \A x \in last : x.then # "overview" PROVE ScreenKept(u)
  <2>1. CASE Fits(t) /\ PaneFits(t)
    BY <1>3, <1>9, <2>1 DEF ScreenKept, Fits, PaneFits, SameRest, SameScreen
  <2>2. CASE ~(Fits(t) /\ PaneFits(t))
    <3>1. SameScreen(s, u)
      BY <1>3, <1>9, <2>2 DEF SameScreen
    <3>2. Busy(s) => Busy(u)
      <4>4. CASE ListComing(s)
        <5>1. PICK r \in s.reqs : r.kind = "list" /\ r.fresh /\ r.ws = s.hash.ws
          BY <4>4 DEF ListComing
        <5>2. r # q
          BY <1>3, <2>2, <4>4, <5>1 DEF ListComing
        <5> QED BY <1>9, <1>13, <4>4, <5>1, <5>2 DEF Busy, ListComing
      <4> QED BY <1>20, <1>19, <4>4
    <3>3. (Fits(s) => Fits(u)) /\ (PaneFits(s) => PaneFits(u))
      BY <1>13, <3>1 DEF Fits, PaneFits, SameScreen
    <3> QED BY <1>1, <1>13, <3>2, <3>3 DEF ScreenKept
  <2> QED BY <2>1, <2>2
<1>21. s.hash.run # None => SameScreen(s, u) /\ u.dead = s.dead
  BY <1>2, <1>3, <1>9 DEF SameScreen
<1>22. ASSUME \A x \in last : x.then # "overview" PROVE NoNewLoss(s, u)
  <2>1. CASE s.hash.run = None
    BY <1>13, <2>1 DEF NoNewLoss, Excused
  <2>2. CASE s.hash.run # None
    <3>1. ~ListComing(s)
      BY <1>1, <2>2 DEF ListComing, Client, AddressFits, WellFormed
    <3>2. Busy(s) => Busy(u)
      BY <1>19, <1>22, <3>1
    <3> QED BY <1>13, <1>21, <2>2, <3>2 DEF NoNewLoss, Excused, Calm, SameScreen
  <2> QED BY <2>1, <2>2
<1>23. TakenWork(s, u, last)
  <2> SUFFICES ASSUME Light(s)
               PROVE  /\ Light(u) /\ u.pending = s.pending /\ Load(u) <= Load(s) - 1
                      /\ \A x \in last :
                           /\ x.then = "deep" => Load(u) <= Load(s) - 1 - ReplayWork
                           /\ x.then = "resolve" =>
                                u.resBusy /\ ResolveAsked(u) = {} /\ ResolveWaits(u) = {}
    BY DEF TakenWork
  <2>1. IsFiniteSet(u.reqs) /\ Asked(u.reqs) = Asked(s.reqs) - Weight(q)
    <3>1. IsFiniteSet(s.reqs)
      BY DEF Light
    <3>2. IsFiniteSet(s.reqs \ {q}) /\ Asked(s.reqs \ {q}) = Asked(s.reqs) - Weight(q)
      BY ONLY <3>1, AskedOne, q \in s.reqs
    <3>3. u.reqs = s.reqs \ {q}
      BY <1>9
    <3> QED BY ONLY <3>2, <3>3
  <2>2. IsFiniteSet(u.waits)
    <3> DEFINE f == [x \in s.waits \ last |-> Cut(x)]
    <3>1. u.waits = {f[x] : x \in s.waits \ last}
      BY <1>9 DEF kept
    <3>2. IsFiniteSet(s.waits \ last) /\ DOMAIN f = s.waits \ last
      BY FS_Subset DEF Light
    <3> HIDE DEF f
    <3> QED BY <3>1, <3>2, ImageIsFinite
  <2>3. ResolveAsked(u) = ResolveAsked(s)
    BY <1>9 DEF ResolveAsked
  <2>4. \A y \in ResolveWaits(u) : \E x \in ResolveWaits(s) \ last : y = Cut(x)
    <3>1. ASSUME NEW y \in ResolveWaits(u) PROVE \E x \in ResolveWaits(s) \ last : y = Cut(x)
      <4>1. PICK x \in s.waits \ last : y = Cut(x)
        BY <1>9, <1>10 DEF ResolveWaits
      <4>2. x.then = "resolve"
        BY <1>4, <1>5, <4>1 DEF ResolveWaits
      <4> QED BY <4>1, <4>2 DEF ResolveWaits
    <3> QED BY <3>1
  <2>5. Light(u)
    <3>1. ResolveAsked(u) # {} \/ ResolveWaits(u) # {} => u.resBusy
      BY <1>9, <2>3, <2>4 DEF Light
    <3>2. \A k, l \in ResolveAsked(u) : k = l
      BY <2>3 DEF Light
    <3>3. \A x, y \in ResolveWaits(u) : x = y
      BY <2>4 DEF Light
    <3>4. ResolveAsked(u) = {} \/ ResolveWaits(u) = {}
      BY <2>3, <2>4 DEF Light
    <3> QED BY <2>1, <2>2, <3>1, <3>2, <3>3, <3>4 DEF Light
  <2>6. /\ IsFiniteSet(DeepWaits(s) \ last)
        /\ Cardinality(DeepWaits(u)) <= Cardinality(DeepWaits(s) \ last)
    <3> DEFINE f == [x \in DeepWaits(s) \ last |-> Cut(x)]
    <3>1. ASSUME NEW y \in DeepWaits(u) PROVE \E x \in DeepWaits(s) \ last : y = f[x]
      <4>1. PICK x \in s.waits \ last : y = Cut(x)
        BY <1>9, <1>10 DEF DeepWaits
      <4>2. x \in DeepWaits(s) \ last
        BY <1>4, <1>5, <4>1 DEF DeepWaits
      <4> QED BY <4>1, <4>2
    <3>2. ASSUME NEW x \in DeepWaits(s) \ last PROVE f[x] \in DeepWaits(u)
      <4>1. x \in s.waits \ last /\ x.then = "deep"
        BY DEF DeepWaits
      <4>2. Cut(x) \in u.waits /\ Cut(x).then = "deep"
        BY <1>4, <1>5, <1>9, <1>11, <4>1
      <4> QED BY <4>2 DEF DeepWaits
    <3>3. IsFiniteSet(DeepWaits(s) \ last) /\ DOMAIN f = DeepWaits(s) \ last
      BY LoadType, FS_Subset
    <3> HIDE DEF f
    <3>4. DeepWaits(u) = {f[x] : x \in DeepWaits(s) \ last}
      BY <3>1, <3>2
    <3> QED BY <3>3, <3>4, ImageIsFinite
  <2>7. ASSUME NEW m \in {-1, 0, 1}, Cardinality(DeepWaits(u)) <= Cardinality(DeepWaits(s)) + m
        PROVE  Load(u) <= Load(s) - 1 + m * ReplayWork
    <3>1. Replays(u) <= Replays(s) + m
      BY <1>13, <2>5, <2>7, LoadType DEF Replays
    <3>2. Asked(u.reqs) <= Asked(s.reqs) + -1
      BY <2>1, <2>5, LoadType, WeightType
    <3>3. Load(u) <= Load(s) + -1 + m * ReplayWork
      BY <2>5, <3>1, <3>2, LoadBound
    <3> QED BY <3>3, LoadType
  <2>8. /\ IsFiniteSet(DeepWaits(s)) /\ Cardinality(DeepWaits(s)) \in Nat
        /\ Cardinality(DeepWaits(u)) \in Nat /\ Cardinality(DeepWaits(s) \ last) \in Nat
    BY <2>5, <2>6, LoadType, FS_CardinalityType
  <2>9. Load(u) <= Load(s) - 1
    <3>1. Cardinality(DeepWaits(s) \ last) <= Cardinality(DeepWaits(s))
      <4>1. DeepWaits(s) \ last \subseteq DeepWaits(s)
        OBVIOUS
      <4> QED BY <2>8, <4>1, FS_Subset
    <3>2. Cardinality(DeepWaits(u)) <= Cardinality(DeepWaits(s)) + 0
      BY <2>6, <2>8, <3>1
    <3>3. Load(u) <= Load(s) - 1 + 0 * ReplayWork
      BY <2>7, <3>2
    <3> QED BY <2>5, <3>3, LoadType, WorkFacts
  <2>10. ASSUME NEW x \in last, x.then = "deep" PROVE Load(u) <= Load(s) - 1 - ReplayWork
    <3>1. x \in DeepWaits(s) /\ last = {x}
      BY <1>6, <1>7, <2>10 DEF DeepWaits
    <3>2. Cardinality(DeepWaits(s) \ last) = Cardinality(DeepWaits(s)) - 1
      BY <2>8, <3>1, FS_RemoveElement
    <3>3. PICK m \in {-1, 0, 1} : m = -1
      OBVIOUS
    <3>4. Cardinality(DeepWaits(u)) <= Cardinality(DeepWaits(s)) + m
      BY <2>6, <2>8, <3>2, <3>3
    <3>5. Load(u) <= Load(s) - 1 + m * ReplayWork
      BY <2>7, <3>4
    <3>6. m * ReplayWork = 0 - ReplayWork
      BY <3>3, WorkFacts
    <3> QED BY <2>5, <3>5, <3>6, LoadType, WorkFacts
  <2>11. ASSUME NEW x \in last, x.then = "resolve"
         PROVE  u.resBusy /\ ResolveAsked(u) = {} /\ ResolveWaits(u) = {}
    <3>1. x \in ResolveWaits(s)
      BY <1>6, <2>11 DEF ResolveWaits
    <3>2. s.resBusy /\ ResolveAsked(s) = {} /\ \A y \in ResolveWaits(s) : y = x
      BY <3>1 DEF Light
    <3> QED BY <1>9, <2>3, <2>4, <2>11, <3>2
  <2> QED BY <1>13, <2>5, <2>9, <2>10, <2>11
<1> QED BY <1>6, <1>7, <1>9, <1>12, <1>13, <1>14, <1>15, <1>17, <1>18, <1>20, <1>21, <1>22, <1>23
        DEF Taken

LEMMA ReleasedInv ==
  ASSUME NEW s, BrowserInv(s), NEW u, NEW last, Taken(s, u, last), NEW x \in last, mode \in Modes
  PROVE  /\ BrowserInv(Released(u, x))
         /\ ~(x.then = "resolve" /\ Returns(s, x.run)) => NoNewLoss(s, Released(u, x))
         /\ x.then = "resolve" /\ Returns(s, x.run) => Cites(Released(u, x), s.dead.failure)
         /\ x.then = "resolve" => Released(u, x).hash = s.hash
         /\ x.then = "deep" => Costs(u, Released(u, x), ReplayWork)
         /\ x.then \notin {"deep", "resolve"} => Costs(u, Released(u, x), 0)
<1>1. last = {x}
  BY DEF Taken
<1>2. /\ Client(u) /\ Net(u) /\ Aimed(u) /\ Addressed(u) /\ Recorded(u) /\ u.again = s.again
      /\ u.hash = s.hash /\ (Moved(u) <=> Moved(s))
  BY DEF Taken
<1>3. x.then \in {"land", "overview", "deep", "resolve", "nothing"} /\ x \in s.waits
  <2>1. x \in s.waits
    BY DEF Taken
  <2> QED BY <2>1 DEF BrowserInv, Client, Browser, WaitRecord
<1>4. CASE x.then = "land"
  <2>1. AwaitedIn(u) = {} /\ ScreenKept(u) /\ NoNewLoss(s, u)
    BY <1>1, <1>4 DEF Taken
  <2>2. Released(u, x) = Landed(u)
    BY <1>4 DEF Released
  <2>3. BrowserInv(Landed(u)) /\ NoNewLoss(u, Landed(u)) /\ Costs(u, Landed(u), 0)
    BY <1>2, <2>1, LandedInv
  <2> QED BY <1>4, <2>1, <2>2, <2>3 DEF NoNewLoss
<1>5. CASE x.then = "overview"
  <2>1. AwaitedIn(u) = {}
    BY <1>5 DEF Taken
  <2>2. CASE x.fresh
    <3>1. Released(u, x) = Landed(RenderWorkspaceOverview(u))
      BY <1>5, <2>2 DEF Released
    <3>2. u.hash.view = "workspaces" \/ Moved(u)
      BY <1>2, <1>3, <1>5, <2>2 DEF BrowserInv, Aimed
    <3> DEFINE t == RenderWorkspaceOverview(u)
    <3>3. Draws(u, t) /\ SameNet(u, t) /\ Calm(t) /\ (u.hash.view = "workspaces" => Fits(t))
      BY <1>2, OverviewPainted
    <3> HIDE DEF t
    <3>4. Client(t) /\ Net(t) /\ Aimed(t) /\ Recorded(t) /\ PaneFits(t) /\ AwaitedIn(t) = {}
          /\ SameRest(u, t)
      <4>1. Gains(u, t)
        BY <1>2, <3>3, SameNetGains DEF Draws
      <4> QED BY <1>2, <2>1, <3>3, <4>1 DEF Gains, Draws
    <3>5. Addressed(t) /\ (Fits(t) \/ Moved(t))
      BY <1>2, <3>2, <3>3, <3>4 DEF Addressed, Moved, SameRest
    <3>6. ScreenKept(t)
      BY <3>4, <3>5 DEF ScreenKept
    <3>7. BrowserInv(Landed(t)) /\ NoNewLoss(t, Landed(t)) /\ Costs(t, Landed(t), 0)
      BY <3>4, <3>5, <3>6, LandedInv
    <3>8. Costs(u, Landed(t), 0)
      BY <3>3, <3>4, <3>7, CostsPainted DEF SameRest
    <3> QED BY <1>5, <3>1, <3>3, <3>7, <3>8 DEF t, NoNewLoss, Excused
  <2>3. CASE ~x.fresh
    <3>1. Released(u, x) = Landed(u)
      BY <1>5, <2>3 DEF Released
    <3>2. x \in AwaitedIn(s)
      BY <1>3, <1>5 DEF AwaitedIn
    <3>3. u.again
      BY <1>2, <2>3, <3>2 DEF BrowserInv, Flying
    <3>4. BrowserInv(Landed(u)) /\ Excused(Landed(u)) /\ Costs(u, Landed(u), 0)
      BY <1>2, <2>1, <3>3, LandedInv
    <3> QED BY <1>5, <3>1, <3>4 DEF NoNewLoss
  <2> QED BY <2>2, <2>3
<1>6. CASE x.then \notin {"land", "overview"}
  <2>1. BrowserInv(u) /\ NoNewLoss(s, u)
    BY <1>1, <1>6 DEF Taken, BrowserInv
  <2>2. CASE x.then = "deep"
    <3>1. Released(u, x) = RefreshSingleFlight(u)
      BY <2>2 DEF Released
    <3>2. Core(u)
      BY <2>1 DEF BrowserInv, Core
    <3>3. /\ BrowserInv(RefreshSingleFlight(u)) /\ Excused(RefreshSingleFlight(u))
          /\ Costs(u, RefreshSingleFlight(u), ReplayWork)
      BY <3>2, SingleFlightInv
    <3> QED BY <2>2, <3>1, <3>3 DEF NoNewLoss
  <2>3. CASE x.then = "resolve"
    <3>1. Released(u, x) = Resolved(u, x.run)
      BY <2>3 DEF Released
    <3>2. Keeps(u, Resolved(u, x.run))
      BY <1>2, ResolvedKeeps
    <3>3. BrowserInv(Resolved(u, x.run)) /\ Resolved(u, x.run).hash = s.hash
      BY <1>2, <2>1, <3>2, KeepsInv DEF Keeps, Gains, SameRest
    <3>4. ASSUME ~Returns(s, x.run) PROVE NoNewLoss(s, Resolved(u, x.run))
      <4>1. ~Returns(u, x.run)
        <5>1. ASSUME Returns(u, x.run) PROVE Returns(s, x.run)
          <6>1. u.dead # None /\ u.dead.run = x.run /\ s.hash.run = x.run
            BY <1>2, <5>1 DEF Returns
          <6>2. u.dead.run \in Runs
            BY <1>2, <6>1 DEF Client, Browser, Maybe
          <6>3. s.hash.run # None
            BY <6>1, <6>2, ClientAssumption
          <6> QED BY <5>1, <6>1, <6>3 DEF Returns, Taken, SameScreen
        <5> QED BY <3>4, <5>1
      <4>2. NoNewLoss(u, Resolved(u, x.run))
        BY <1>2, <4>1, ResolvedLoss
      <4> QED BY <2>1, <4>2 DEF NoNewLoss
    <3>5. ASSUME Returns(s, x.run) PROVE Cites(Resolved(u, x.run), s.dead.failure)
      <4>1. s.hash.run # None
        BY <3>5, ClientAssumption DEF Returns, BrowserInv, Client, Browser, Maybe
      <4>2. SameScreen(s, u) /\ u.dead = s.dead
        BY <4>1 DEF Taken
      <4>3. Returns(u, x.run)
        BY <1>2, <3>5, <4>2 DEF Returns, SameScreen
      <4> QED BY <1>2, <4>2, <4>3, ResolvedLoss
    <3> QED BY <2>3, <3>1, <3>3, <3>4, <3>5
  <2>4. CASE x.then = "nothing"
    <3>1. Costs(u, u, 0)
      BY CostsSame DEF SameNet
    <3> QED BY <2>1, <2>4, <3>1 DEF Released
  <2> QED BY <1>3, <1>6, <2>2, <2>3, <2>4
<1> QED BY <1>4, <1>5, <1>6

LEMMA ListAnswerInv ==
  ASSUME NEW s, BrowserInv(s), NEW q \in s.reqs, q.ans # None, q.kind = "list", mode \in Modes
  PROVE  LET z == Arrives(s, q) IN
         /\ BrowserInv(z)
         /\ \/ NoNewLoss(s, z)
            \/ /\ z.hash = s.hash /\ Cites(z, s.dead.failure)
               /\ \E x \in s.waits : /\ x.then = "resolve" /\ Returns(s, x.run)
                                     /\ x.on = {<<q.ws, q.id>>}
         /\ Costs(s, z, -1)
<1> DEFINE p == Without(s, q)
           one == <<q.ws, q.id>>
           t == ListCommitted(p, q)
           last == LastWaits(t, one)
           u == Unwaited(t, one)
<1>1. Client(s) /\ Net(s) /\ q \in RequestRecord /\ RequestOK(q)
  BY DEF BrowserInv, Client, Browser, Net
<1>2. q.ws \in Workspaces /\ q.ans.ver \in Versions /\ q.ans.out \in {"ok", "failed"}
  BY <1>1 DEF RequestOK, RequestRecord, AnswerRecord, Maybe
<1>3. Client(p)
  BY <1>1, TakenFacts
<1>4. Arrives(s, q) = IF last = {} THEN u ELSE Released(u, CHOOSE x \in last : TRUE)
  BY DEF Arrives, ListArrives, Without, LastWaits, Unwaited
<1>5. Committed(Without(s, q), q, t)
  <2> HIDE DEF p
  <2>1. Committed(p, q, ListCommitted(p, q))
    BY <1>2, <1>3, CommittedFacts
  <2> QED BY <2>1 DEF p
<1> HIDE DEF p, t
<1>6. Taken(s, u, last) /\ TakenWork(s, u, last)
  BY <1>5, ListTaken
<1>7. \A x \in last : x \in s.waits /\ x.on = {<<q.ws, q.id>>}
  BY <1>6 DEF Taken, LastWaits
<1> HIDE DEF u, last
<1>8. CASE last = {}
  <2>1. Costs(s, u, -1)
    BY <1>6, LoadType DEF TakenWork, Costs
  <2> QED BY <1>4, <1>6, <1>8, <2>1 DEF Taken, BrowserInv
<1>9. CASE last # {}
  <2>1. PICK x : x = CHOOSE y \in last : TRUE
    OBVIOUS
  <2>2. x \in last
    BY <1>9, <2>1
  <2>3. /\ BrowserInv(Released(u, x))
        /\ ~(x.then = "resolve" /\ Returns(s, x.run)) => NoNewLoss(s, Released(u, x))
        /\ x.then = "resolve" /\ Returns(s, x.run) => Cites(Released(u, x), s.dead.failure)
        /\ x.then = "resolve" => Released(u, x).hash = s.hash
        /\ x.then = "deep" => Costs(u, Released(u, x), ReplayWork)
        /\ x.then \notin {"deep", "resolve"} => Costs(u, Released(u, x), 0)
    BY <1>6, <2>2, ReleasedInv
  <2>4. Arrives(s, q) = Released(u, x)
    BY <1>4, <1>9, <2>1
  <2> DEFINE z == Released(u, x)
  <2>5. ASSUME Light(s) PROVE Light(z) /\ z.pending = s.pending /\ Load(z) <= Load(s) + -1
    <3>1. Light(u) /\ u.pending = s.pending /\ Load(u) <= Load(s) - 1
      BY <1>6, <2>5 DEF TakenWork
    <3>2. CASE x.then = "deep"
      <4>1. Load(u) <= Load(s) - 1 - ReplayWork
        BY <1>6, <2>2, <2>5, <3>2 DEF TakenWork
      <4>2. Light(z) /\ z.pending = u.pending /\ Load(z) <= Load(u) + ReplayWork
        BY <2>3, <3>1, <3>2 DEF Costs
      <4> HIDE DEF z
      <4> QED BY <2>5, <3>1, <4>1, <4>2, LoadType, WorkFacts
    <3>3. CASE x.then = "resolve"
      <4>1. u.resBusy /\ ResolveAsked(u) = {} /\ ResolveWaits(u) = {}
        BY <1>6, <2>2, <2>5, <3>3 DEF TakenWork
      <4>2. z = Resolved(u, x.run) /\ Client(u) /\ Net(u)
        BY <1>6, <3>3 DEF Released, Taken
      <4>3. Light(z) /\ z.pending = u.pending /\ Load(z) = Load(u)
        BY <3>1, <4>1, <4>2, ResolvedCosts
      <4> HIDE DEF z
      <4> QED BY <2>5, <3>1, <4>3, LoadType
    <3>4. CASE x.then \notin {"deep", "resolve"}
      <4>1. Light(z) /\ z.pending = u.pending /\ Load(z) <= Load(u) + 0
        BY <2>3, <3>1, <3>4 DEF Costs
      <4> HIDE DEF z
      <4> QED BY <2>5, <3>1, <4>1, LoadType
    <3> QED BY <3>2, <3>3, <3>4
  <2>6. Costs(s, z, -1)
    BY <2>5 DEF Costs
  <2> QED BY <1>7, <2>2, <2>3, <2>4, <2>6
<1> QED BY <1>8, <1>9

\* The loss of the address is true of it after the answer q, as `lost` has it.
Believed(s, q, z) ==
    \/ TrueLoss(z, q)
    \/ q.kind # "detail" /\ NoNewLoss(s, z)
    \/ /\ q.kind # "detail" /\ b = s /\ DeadEndReturns(q)
       /\ z.hash = s.hash /\ Cites(z, s.dead.failure)

\* An answer that arrives, whatever it answers, leaves the invariant true.
LEMMA ArrivesInv ==
  ASSUME NEW s, BrowserInv(s), s = b, NEW q \in s.reqs, q.ans # None, mode \in Modes
  PROVE  LET z == Arrives(s, q) IN
         BrowserInv(z) /\ (Excused(z) \/ Believed(s, q, z)) /\ Costs(s, z, -1)
<1> DEFINE z == Arrives(s, q)
<1>1. q.kind \in {"list", "detail", "runs", "resolve"}
  BY DEF BrowserInv, Client, Browser, RequestRecord
<1>2. CASE q.kind \in {"detail", "runs"}
  BY <1>2, RunAnswerInv DEF Believed
<1>3. CASE q.kind = "resolve"
  <2>1. /\ BrowserInv(z) /\ (~Returns(s, q.run) => NoNewLoss(s, z)) /\ z.hash = s.hash
        /\ Returns(s, q.run) => Cites(z, s.dead.failure)
        /\ Costs(s, z, -1)
    BY <1>3, ResolveAnswerInv
  <2>2. Returns(s, q.run) => DeadEndReturns(q)
    BY <1>3 DEF Returns, DeadEndReturns
  <2> QED BY <1>3, <2>1, <2>2 DEF Believed
<1>4. CASE q.kind = "list"
  <2>1. /\ BrowserInv(z)
        /\ \/ NoNewLoss(s, z)
           \/ /\ z.hash = s.hash /\ Cites(z, s.dead.failure)
              /\ \E x \in s.waits : /\ x.then = "resolve" /\ Returns(s, x.run)
                                    /\ x.on = {<<q.ws, q.id>>}
        /\ Costs(s, z, -1)
    BY <1>4, ListAnswerInv
  <2>2. (\E x \in s.waits : x.then = "resolve" /\ Returns(s, x.run) /\ x.on = {<<q.ws, q.id>>})
          => DeadEndReturns(q)
    BY <1>4 DEF Returns, DeadEndReturns
  <2> HIDE DEF z
  <2> QED BY <1>4, <2>1, <2>2 DEF Believed, z
<1> QED BY <1>1, <1>2, <1>3, <1>4

-----------------------------------------------------------------------------
(***************************************************************************)
(* Stream events and address changes.                                      *)
(***************************************************************************)
\* What the invariant reads is as it was.
SameView(s, t) ==
    /\ SameNet(s, t) /\ SameScreen(s, t)
    /\ t.hash = s.hash /\ t.pending = s.pending /\ t.routed = s.routed /\ t.base = s.base
    /\ t.manual = s.manual /\ t.flight = s.flight /\ t.again = s.again

LEMMA SameViewInv ==
  ASSUME NEW s, BrowserInv(s), NEW t, Client(t), SameView(s, t)
  PROVE  BrowserInv(t) /\ NoNewLoss(s, t) /\ Costs(s, t, 0)
<1>1. Net(t) /\ Flying(t)
  BY DEF BrowserInv, Net, Listed, Flying, AwaitedIn, SameView, SameNet
<1>2. Aimed(t) /\ Addressed(t) /\ Recorded(t)
  BY DEF BrowserInv, Aimed, Moved, Addressed, Recorded, Calm, SameView, SameNet, SameScreen
<1>3. ScreenKept(t)
  BY DEF BrowserInv, ScreenKept, Fits, PaneFits, Busy, ListComing, Moved, SameView, SameNet,
         SameScreen
<1>4. NoNewLoss(s, t)
  BY DEF NoNewLoss, Excused, Calm, Busy, ListComing, Moved, SameView, SameNet, SameScreen
<1>5. Costs(s, t, 0)
  BY CostsSame DEF SameView
<1> QED BY <1>1, <1>2, <1>3, <1>4, <1>5 DEF BrowserInv

LEMMA InvalidationInv ==
  ASSUME NEW s, BrowserInv(s), NEW e, e.seq \in Nat, e.ws \in Sources, mode \in Modes
  PROVE  /\ BrowserInv(HandleInvalidation(s, e)) /\ NoNewLoss(s, HandleInvalidation(s, e))
         /\ Costs(s, HandleInvalidation(s, e), FrameWork - 1)
<1> DEFINE r == s.hash
           t == [s EXCEPT !.lastEventId = IF @ = None \/ e.seq > @ THEN e.seq ELSE @]
           W == IF Anomalous(s, e) THEN Workspaces ELSE {e.ws}
           then == IF Deep(r) /\ r.ws \in W THEN "deep" ELSE "nothing"
<1>1. Client(t) /\ SameView(s, t)
  <2>1. (IF s.lastEventId = None \/ e.seq > s.lastEventId THEN e.seq ELSE s.lastEventId)
          \in Maybe(Nat)
    BY DEF BrowserInv, Client, Browser, Maybe
  <2> QED BY <2>1 DEF BrowserInv, Client, Browser, SameView, SameNet, SameScreen
<1>2. HandleInvalidation(s, e) =
        IF ~Set THEN RefreshSingleFlight(t) ELSE RefetchWorkspaceList(t, W, then, None)
  BY DEF HandleInvalidation
<1> HIDE DEF t
<1>3. BrowserInv(t) /\ NoNewLoss(s, t) /\ Costs(s, t, 0)
  BY <1>1, SameViewInv
<1>9. ASSUME NEW z, NEW n \in Nat, Costs(t, z, n), n <= FrameWork - 1 PROVE Costs(s, z, FrameWork - 1)
  <2>1. Costs(s, z, 0 + n)
    BY <1>3, <1>9, CostsThen
  <2>2. 0 + n = n /\ n \in Int /\ FrameWork - 1 \in Int
    BY <1>9, WorkFacts
  <2> QED BY <1>9, <2>1, <2>2, CostsMore
<1>4. CASE ~Set
  <2>1. Core(t)
    BY <1>3 DEF BrowserInv, Core
  <2>2. /\ BrowserInv(RefreshSingleFlight(t)) /\ Excused(RefreshSingleFlight(t))
        /\ Costs(t, RefreshSingleFlight(t), ReplayWork)
    BY <2>1, SingleFlightInv
  <2>3. ReplayWork \in Nat /\ ReplayWork <= FrameWork - 1
    BY WorkFacts
  <2>4. Costs(s, RefreshSingleFlight(t), FrameWork - 1)
    BY <1>9, <2>2, <2>3
  <2> QED BY <1>2, <1>4, <2>2, <2>4 DEF NoNewLoss
<1>5. CASE Set
  <2>1. W \in SUBSET Workspaces /\ W # {}
    BY <1>5 DEF Set, Sources
  <2>2. PICK th \in {"land", "overview", "deep", "resolve", "nothing"} :
          th = then /\ th \in {"deep", "nothing"}
    OBVIOUS
  <2>3. None \in Maybe(Runs) /\ Client(t) /\ Net(t)
    BY <1>3 DEF Maybe, BrowserInv
  <2> HIDE DEF W, then
  <2>4. Refetched(t, RefetchWorkspaceList(t, W, th, None), W, th)
    BY <1>5, <2>1, <2>3, RefetchFacts
  <2>5. /\ Keeps(t, RefetchWorkspaceList(t, W, th, None))
        /\ NoNewLoss(t, RefetchWorkspaceList(t, W, th, None))
    BY <2>2, <2>4, RefetchKeeps
  <2>6. BrowserInv(RefetchWorkspaceList(t, W, th, None))
    BY <1>3, <2>5, KeepsInv
  <2>7. NoNewLoss(s, RefetchWorkspaceList(t, W, th, None))
    BY <1>3, <2>5 DEF NoNewLoss
  <2>8. Costs(s, RefetchWorkspaceList(t, W, th, None), FrameWork - 1)
    <3>1. PICK n \in Nat : n = 2 * Cardinality(W) /\ n <= 2 * Cardinality(Workspaces)
      <4>1. IsFiniteSet(Workspaces)
        BY ClientAssumption
      <4>2. IsFiniteSet(W) /\ Cardinality(W) <= Cardinality(Workspaces)
        BY <2>1, <4>1, FS_Subset
      <4>3. Cardinality(W) \in Nat
        BY <4>2, FS_CardinalityType
      <4> QED BY ONLY <4>2, <4>3, WorkFacts
    <3>2. Costs(t, RefetchWorkspaceList(t, W, th, None), IF th = "deep" THEN n + ReplayWork ELSE n)
      BY <2>1, <2>2, <2>4, <3>1, RefetchedCosts
    <3>3. PICK m \in Nat : m = (IF th = "deep" THEN n + ReplayWork ELSE n) /\ m <= FrameWork - 1
      BY <3>1, WorkFacts
    <3> QED BY <1>9, <3>2, <3>3
  <2> QED BY <1>2, <1>5, <2>2, <2>6, <2>7, <2>8
<1> QED BY <1>4, <1>5

LEMMA RefreshedInv ==
  ASSUME NEW s, BrowserInv(s), mode \in Modes
  PROVE  LET t == RefreshSingleFlight(s) IN
         /\ BrowserInv(t) /\ Excused(t) /\ t.stream = s.stream /\ Costs(s, t, ReplayWork)
         /\ ~s.flight => Costs(s, t, RefreshWork)
         /\ s.flight /\ s.again => Costs(s, t, 0)
<1>1. Core(s)
  BY DEF BrowserInv, Core
<1> QED BY <1>1, SingleFlightInv

LEMMA StreamInv ==
  ASSUME NEW s, BrowserInv(s), mode \in Modes
  PROVE  /\ BrowserInv(StreamOpened(s)) /\ NoNewLoss(s, StreamOpened(s))
         /\ StreamOpened(s).stream = "connected" /\ (Light(s) => Light(StreamOpened(s)))
         /\ BrowserInv(StreamFailed(s)) /\ NoNewLoss(s, StreamFailed(s))
         /\ Light(s) => Light(StreamFailed(s))
<1> DEFINE up == [s EXCEPT !.stream = "connected"]
           again == [up EXCEPT !.lastEventId = None]
           down == [s EXCEPT !.stream = "down"]
<1>1. Client(up) /\ SameView(s, up) /\ Client(down) /\ SameView(s, down) /\ up.stream = "connected"
  BY DEF BrowserInv, Client, Browser, SameView, SameNet, SameScreen
<1>2. Client(again) /\ SameView(s, again) /\ again.stream = "connected"
  <2>1. None \in Maybe(Nat)
    BY DEF Maybe
  <2> QED BY <2>1 DEF BrowserInv, Client, Browser, SameView, SameNet, SameScreen
<1>3. /\ StreamOpened(s) = (IF s.stream = "down" THEN RefreshSingleFlight(again) ELSE up)
      /\ StreamFailed(s) = (IF s.stream = "down" THEN down ELSE RefreshSingleFlight(down))
  BY DEF StreamOpened, StreamFailed
<1> HIDE DEF up, again, down
<1>4. /\ BrowserInv(up) /\ BrowserInv(again) /\ BrowserInv(down)
      /\ NoNewLoss(s, up) /\ NoNewLoss(s, down)
      /\ Light(s) => Light(up) /\ Light(again) /\ Light(down)
  BY <1>1, <1>2, SameViewInv DEF Costs
<1>5. /\ BrowserInv(RefreshSingleFlight(again)) /\ NoNewLoss(s, RefreshSingleFlight(again))
      /\ BrowserInv(RefreshSingleFlight(down)) /\ NoNewLoss(s, RefreshSingleFlight(down))
      /\ RefreshSingleFlight(again).stream = again.stream
      /\ Light(s) => Light(RefreshSingleFlight(again)) /\ Light(RefreshSingleFlight(down))
  BY <1>4, RefreshedInv DEF NoNewLoss, Costs
<1> QED BY <1>1, <1>2, <1>3, <1>4, <1>5

LEMMA CoreKept ==
  ASSUME NEW s, Core(s), NEW t, Client(t), SameRest(s, t), SameNet(s, t), Recorded(t)
  PROVE  Core(t)
<1>1. Net(t) /\ Flying(t)
  BY DEF Core, Net, Listed, Flying, AwaitedIn, SameNet, SameRest
<1>2. Aimed(t) /\ Addressed(t)
  BY DEF Core, Aimed, Moved, Addressed, SameNet, SameRest
<1> QED BY <1>1, <1>2 DEF Core

LEMMA ShowsInv ==
  ASSUME NEW s, Core(s)
  PROVE  LET t == RenderCurrentGuarded(s) IN
         /\ BrowserInv(t) /\ Excused(t) /\ Costs(s, t, 0)
         /\ t.flight = s.flight /\ t.again = s.again
<1> DEFINE t == RenderCurrentGuarded(s)
<1>1. Shows(s, t) /\ Calm(t) /\ SameNet(s, t)
  BY GuardedPainted DEF Core
<1> HIDE DEF t
<1>2. Client(t) /\ Net(t) /\ Aimed(t) /\ Recorded(t) /\ SameRest(s, t) /\ Fits(t) /\ PaneFits(t)
      /\ AwaitedIn(t) = AwaitedIn(s)
  BY <1>1 DEF Core, Shows, Draws, Gains
<1>3. Flying(t) /\ Addressed(t)
  BY <1>2 DEF Core, Flying, Addressed, SameRest
<1>4. ScreenKept(t)
  BY <1>2 DEF ScreenKept
<1>5. Costs(s, t, 0) /\ t.flight = s.flight /\ t.again = s.again
  BY <1>1, <1>2, CostsSame DEF SameRest
<1> QED BY <1>1, <1>2, <1>3, <1>4, <1>5 DEF BrowserInv, Excused, t

\* The address is handled: hashchange has been dispatched.
Handled(s) == [s EXCEPT !.pending = FALSE]

LEMMA HandledFacts ==
  ASSUME NEW s, BrowserInv(s)
  PROVE  LET t == Handled(s) IN
         /\ Client(t) /\ Net(t) /\ Flying(t) /\ Recorded(t)
         /\ t.pending = FALSE /\ t.hash = s.hash /\ t.base = s.base
         /\ Light(s) => Light(t) /\ Load(t) = Load(s)
         /\ ~Moved(s) => Aimed(t) /\ (Fits(t) \/ Busy(t)) /\ NoNewLoss(s, t)
<1> DEFINE t == Handled(s)
<1>1. /\ Client(t) /\ SameReqs(s, t) /\ SameScreen(s, t) /\ t.pending = FALSE /\ t.hash = s.hash
      /\ t.flight = s.flight /\ t.again = s.again /\ t.base = s.base /\ t.resBusy = s.resBusy
  BY DEF Handled, BrowserInv, Client, Browser, SameReqs, SameScreen
<1> HIDE DEF t
<1>2. Net(t) /\ Flying(t)
  BY <1>1 DEF BrowserInv, Net, Listed, Flying, AwaitedIn, SameReqs
<1>3. Recorded(t)
  BY <1>1 DEF BrowserInv, Recorded, Calm, SameScreen
<1>4. ASSUME ~Moved(s) PROVE Aimed(t) /\ (Fits(t) \/ Busy(t)) /\ NoNewLoss(s, t)
  <2>1. Aimed(t)
    BY <1>1, <1>4 DEF BrowserInv, Aimed, SameReqs
  <2>2. Fits(t) \/ Busy(t)
    BY <1>1, <1>4 DEF BrowserInv, ScreenKept, Fits, Busy, ListComing, SameReqs, SameScreen
  <2>3. NoNewLoss(s, t)
    BY <1>1, <1>4 DEF NoNewLoss, Excused, Calm, Busy, ListComing, SameReqs, SameScreen
  <2> QED BY <2>1, <2>2, <2>3
<1>5. Light(s) => Light(t) /\ Load(t) = Load(s)
  BY <1>1 DEF SameReqs, Light, ResolveAsked, ResolveWaits, Load, Replays, DeepWaits
<1> QED BY <1>1, <1>2, <1>3, <1>4, <1>5 DEF t

LEMMA ManualMovedInv ==
  ASSUME NEW s, Client(s), Net(s), Flying(s), Recorded(s), Aimed(s), Fits(s) \/ Busy(s),
         ~s.pending, ManualOnly(s)
  PROVE  BrowserInv(ManualMoved(s)) /\ NoNewLoss(s, ManualMoved(s)) /\ Costs(s, ManualMoved(s), 0)
<1> DEFINE t == [s EXCEPT !.manual = s.hash.manual]
<1>1. /\ Client(t) /\ SameNet(s, t) /\ SameScreen(s, t) /\ t.hash = s.hash /\ t.pending = s.pending
      /\ t.routed = s.routed /\ t.base = s.base /\ t.manual = s.hash.manual
      /\ t.flight = s.flight /\ t.again = s.again
  BY DEF Client, Browser, AddressType, SameNet, SameScreen
<1>2. ManualMoved(s) = IF t.lastPaint # None THEN ReplayLastPaint(t) ELSE RenderCurrentGuarded(t)
  BY DEF ManualMoved
<1> HIDE DEF t
<1>3. Net(t) /\ Flying(t) /\ Recorded(t) /\ Aimed(t)
  BY <1>1 DEF Net, Listed, Flying, AwaitedIn, Recorded, Calm, Aimed, Moved, SameNet, SameScreen
<1>4. Addressed(t)
  BY <1>1 DEF ManualOnly, Addressed
<1>5. Core(t)
  BY <1>1, <1>3, <1>4 DEF Core
<1>6. CASE t.lastPaint = None
  <2>1. /\ BrowserInv(RenderCurrentGuarded(t)) /\ Excused(RenderCurrentGuarded(t))
        /\ Costs(t, RenderCurrentGuarded(t), 0)
    BY <1>5, ShowsInv
  <2>2. Costs(s, RenderCurrentGuarded(t), 0)
    BY <1>1, <2>1, CostsPainted
  <2> QED BY <1>2, <1>6, <2>1, <2>2 DEF NoNewLoss
<1>7. CASE t.lastPaint # None
  <2> DEFINE u == ReplayLastPaint(t)
  <2>1. Keeps(t, u) /\ PaneFits(u) /\ SameLoss(t, u) /\ SameNet(t, u)
    BY <1>1, <1>3, <1>7, ReplayKeeps
  <2> HIDE DEF u
  <2>2. Fits(t) \/ Busy(t)
    BY <1>1 DEF Fits, Busy, ListComing, SameNet, SameScreen
  <2>3. /\ Client(u) /\ Net(u) /\ Recorded(u) /\ Aimed(u) /\ SameRest(t, u)
        /\ AwaitedIn(u) = AwaitedIn(t) /\ (Fits(u) \/ Busy(u))
    BY <1>3, <2>1, <2>2 DEF Keeps, Gains
  <2>4. Flying(u) /\ Addressed(u)
    BY <1>3, <1>4, <2>3 DEF Flying, Addressed, SameRest
  <2>5. ScreenKept(u)
    BY <2>1, <2>3 DEF ScreenKept
  <2>6. BrowserInv(u)
    BY <2>3, <2>4, <2>5 DEF BrowserInv
  <2>7. NoNewLoss(t, u)
    BY <2>1, KeepsNoLoss
  <2>8. NoNewLoss(s, t)
    BY <1>1 DEF NoNewLoss, Excused, Calm, Busy, ListComing, Moved, SameNet, SameScreen
  <2>9. NoNewLoss(s, u)
    BY <2>7, <2>8 DEF NoNewLoss
  <2>10. Costs(s, u, 0)
    BY <1>1, <2>1, <2>3, CostsSame, CostsPainted DEF SameRest
  <2> QED BY <1>2, <1>7, <2>6, <2>9, <2>10 DEF u
<1> QED BY <1>6, <1>7

\* The empty app says nothing of any run.
LEMMA BlankIsCalm ==
  /\ None \notin LossClasses
  /\ Blank.kind = "blank" /\ Blank.cls = None /\ Blank.run = None
<1>1. {"degraded", "not_found", "resolved_child", "dropped_parent"} \subseteq ViewClasses
  BY DEF ViewClasses, FollowStates
<1>2. None \notin ViewClasses
  BY ClientAssumption
<1> QED BY <1>1, <1>2 DEF LossClasses, Blank

LEMMA EmptiedFacts ==
  ASSUME NEW s, Client(s)
  PROVE  LET t == EmptyApp(s) IN
         Client(t) /\ SameRest(s, t) /\ SameNet(s, t) /\ Recorded(t)
<1> DEFINE t == EmptyApp(s)
<1>1. Client(t) /\ SameRest(s, t) /\ SameNet(s, t) /\ t.lastPaint = None /\ t.painted = Blank
  <2>1. None \in Maybe(PaintRecords)
    BY DEF Maybe
  <2> QED BY <2>1, BlankType DEF EmptyApp, Client, Browser, SameRest, SameNet
<1> HIDE DEF t
<1>2. Recorded(t)
  BY <1>1, BlankIsCalm DEF Recorded
<1> QED BY <1>1, <1>2 DEF t

\* What was held about the run is dropped before the view is chosen.
LEMMA DroppedFacts ==
  ASSUME NEW s, Client(s), NEW detailId \in Maybe(Runs)
  PROVE  LET t == [s EXCEPT !.detail = None, !.detailId = detailId, !.conflict = FALSE] IN
         Client(t) /\ SameRest(s, t) /\ SameNet(s, t) /\ SameScreen(s, t)
<1>1. None \in DetailType
  BY DEF DetailType, Maybe
<1> QED BY <1>1 DEF Client, Browser, SameRest, SameNet, SameScreen

\* Before it looks at the view, routeChanged makes every answer on its way
\* stale and has the refresh in flight run again.
LEMMA RoutedCore ==
  ASSUME NEW s, Client(s), Net(s), Flying(s), Recorded(s), ~s.pending
  PROVE  LET t == Routed(s) IN
         /\ Core(t) /\ t.hash = s.hash /\ t.flight = s.flight /\ (s.flight => t.again)
         /\ Costs(s, t, IF s.flight THEN ReplayWork ELSE 0)
<1> DEFINE r == s.hash
           c == Bump(s)
           u == [c EXCEPT !.manual = r.manual, !.base = UnderlyingKey(r), !.again = @ \/ s.flight,
                          !.routed = Subject(r), !.force = FALSE]
           d == [u EXCEPT !.list = None, !.detail = None, !.detailId = None,
                          !.detailWs = None, !.conflict = FALSE]
<1>1. /\ Client(c) /\ Net(c) /\ SameRest(s, c) /\ SameScreen(s, c) /\ Stale(c)
      /\ AwaitedIn(s) = {} <=> AwaitedIn(c) = {}
      /\ (\A x, y \in AwaitedIn(s) : x = y) => (\A x, y \in AwaitedIn(c) : x = y)
      /\ Costs(s, c, 0)
  BY BumpFacts
<1>2. Routed(s) = IF s.routed = Subject(r) THEN u ELSE EmptyApp(d)
  BY DEF Routed
<1> HIDE DEF c
<1>3. /\ Client(u) /\ SameNet(c, u) /\ SameScreen(c, u) /\ u.hash = r /\ u.flight = s.flight
      /\ u.again = (s.again \/ s.flight) /\ u.pending = FALSE
      /\ u.routed = Subject(r) /\ u.base = UnderlyingKey(r) /\ u.manual = r.manual
  <2>1. /\ c \in Browser /\ c.hash = r /\ c.flight = s.flight /\ c.pending = FALSE
        /\ c.again = s.again /\ s.again \in BOOLEAN /\ s.flight \in BOOLEAN
    BY <1>1 DEF Client, Browser, SameRest
  <2>2. /\ r.manual \in BOOLEAN /\ UnderlyingKey(r) \in AddressType
        /\ Subject(r) \in All \X Maybe(Runs)
    BY <2>1 DEF Client, Browser, AddressType, UnderlyingKey, Subject
  <2>3. PICK pane \in BOOLEAN, base \in AddressType, routed \in All \X Maybe(Runs) :
          pane = r.manual /\ base = UnderlyingKey(r) /\ routed = Subject(r)
    BY <2>2
  <2>4. PICK again \in BOOLEAN : again = (c.again \/ s.flight)
    OBVIOUS
  <2>5. u = [c EXCEPT !.manual = pane, !.base = base, !.again = again, !.routed = routed,
                      !.force = FALSE]
    BY <2>1, <2>3, <2>4 DEF Browser
  <2> HIDE DEF u, r
  <2>6. /\ u \in Browser /\ SameNet(c, u) /\ SameScreen(c, u) /\ u.hash = c.hash
        /\ u.flight = c.flight /\ u.again = again /\ u.pending = c.pending
        /\ u.routed = routed /\ u.base = base /\ u.manual = pane
    BY ZenonT(60), <2>1, <2>5 DEF Browser, SameNet, SameScreen
  <2> QED BY <1>1, <2>1, <2>3, <2>4, <2>6 DEF Client, r
<1> HIDE DEF u
<1>4. Net(u) /\ AwaitedIn(u) = AwaitedIn(c)
  BY <1>1, <1>3 DEF Net, Listed, AwaitedIn, SameNet
<1>5. Flying(u)
  BY <1>1, <1>3, <1>4 DEF Flying
<1>6. Aimed(u)
  BY <1>1, <1>3 DEF Aimed, Stale, SameNet
<1>7. Addressed(u)
  BY <1>3 DEF Addressed
<1>8. Recorded(u)
  BY <1>1, <1>3 DEF Recorded, Calm, SameScreen
<1>9. Core(u)
  BY <1>3, <1>4, <1>5, <1>6, <1>7, <1>8 DEF Core
<1>11. Costs(s, u, IF s.flight THEN ReplayWork ELSE 0)
  <2>1. s.flight \in BOOLEAN /\ s.again \in BOOLEAN /\ c.again = s.again
    BY <1>1 DEF Client, Browser, SameRest
  <2>2. CASE s.flight = TRUE
    <3>1. Costs(c, u, ReplayWork)
      BY <1>3, <2>2, AgainCosts
    <3>2. Costs(s, u, 0 + ReplayWork) /\ 0 + ReplayWork = ReplayWork
      BY <1>1, <3>1, WorkFacts, CostsThen
    <3> QED BY <2>2, <3>2
  <2>3. CASE s.flight = FALSE
    <3>1. u.again = c.again
      BY <1>3, <2>1, <2>3
    <3>2. Costs(s, u, 0)
      BY <1>1, <1>3, <3>1, CostsPainted
    <3> QED BY <2>3, <3>2
  <2> QED BY <2>1, <2>2, <2>3
<1>10. LET e == EmptyApp(d) IN
       /\ Core(e) /\ e.hash = r /\ e.flight = u.flight /\ e.again = u.again
       /\ Costs(s, e, IF s.flight THEN ReplayWork ELSE 0)
  <2>1. Client(d) /\ SameRest(u, d) /\ SameNet(u, d) /\ SameScreen(u, d)
    <3>1. None \in DetailType /\ None \in Maybe(Runs) /\ None \in All /\ None \in VerOrNone
      BY DEF DetailType, Maybe, All, VerOrNone
    <3> QED BY <1>3, <3>1 DEF Client, Browser, SameRest, SameNet, SameScreen
  <2> HIDE DEF d
  <2> DEFINE e == EmptyApp(d)
  <2>2. Client(e) /\ SameRest(d, e) /\ SameNet(d, e) /\ Recorded(e)
    BY <2>1, EmptiedFacts
  <2> HIDE DEF e
  <2>3. SameRest(u, e) /\ SameNet(u, e)
    BY <2>1, <2>2 DEF SameRest, SameNet
  <2>4. Core(e) /\ e.hash = r /\ e.flight = u.flight /\ e.again = u.again
    BY <1>3, <1>9, <2>2, <2>3, CoreKept DEF SameRest
  <2>5. PICK n \in Int : n = IF s.flight THEN ReplayWork ELSE 0
    BY WorkFacts
  <2>6. Costs(s, e, n)
    BY <1>11, <2>3, <2>4, <2>5, CostsPainted
  <2> QED BY <2>4, <2>5, <2>6 DEF e
<1> QED BY <1>2, <1>3, <1>9, <1>10, <1>11

\* What a handled address asks for: nothing while a refresh is in flight, which
\* will be replayed, and at most one refresh otherwise.
Asks(s, t) == BrowserInv(t) /\ Excused(t) /\ Costs(s, t, IF s.flight THEN 0 ELSE RefreshWork)

LEMMA AsksKept ==
  ASSUME NEW s, NEW t, SameNet(s, t), t.flight = s.flight, t.again = s.again, NEW u, Asks(t, u)
  PROVE  Asks(s, u)
<1>1. PICK n \in Int : n = IF s.flight THEN 0 ELSE RefreshWork
  BY WorkFacts
<1>2. Costs(s, u, n)
  BY <1>1, CostsPainted DEF Asks
<1> QED BY <1>1, <1>2 DEF Asks

LEMMA AsksEither ==
  ASSUME NEW s, Core(s), s.flight => s.again, mode \in Modes
  PROVE  LET g == RenderCurrentGuarded(s) IN
         /\ Asks(s, g) /\ Asks(s, RefreshSingleFlight(s)) /\ Asks(s, RefreshSingleFlight(g))
<1> DEFINE g == RenderCurrentGuarded(s)
<1>1. /\ BrowserInv(g) /\ Excused(g) /\ Costs(s, g, 0)
      /\ g.flight = s.flight /\ g.again = s.again
  BY ShowsInv
<1> HIDE DEF g
<1>2. Asks(s, g)
  <2>1. Costs(s, g, RefreshWork)
    BY <1>1, WorkFacts, CostsMore
  <2> QED BY <1>1, <2>1 DEF Asks
<1>3. Asks(s, RefreshSingleFlight(s))
  BY SingleFlightInv DEF Asks
<1>4. Asks(s, RefreshSingleFlight(g))
  <2> DEFINE u == RefreshSingleFlight(g)
  <2>1. /\ BrowserInv(u) /\ Excused(u) /\ (~g.flight => Costs(g, u, RefreshWork))
        /\ g.flight /\ g.again => Costs(g, u, 0)
    BY <1>1, RefreshedInv
  <2> HIDE DEF u
  <2>2. CASE s.flight
    <3>1. Costs(s, u, 0 + 0)
      BY <1>1, <2>1, <2>2, CostsThen
    <3> QED BY <2>1, <2>2, <3>1 DEF Asks, u
  <2>3. CASE ~s.flight
    <3>1. Costs(s, u, 0 + RefreshWork) /\ 0 + RefreshWork = RefreshWork
      BY <1>1, <2>1, <2>3, WorkFacts, CostsThen
    <3> QED BY <2>1, <2>3, <3>1 DEF Asks, u
  <2> QED BY <2>2, <2>3
<1> QED BY <1>2, <1>3, <1>4 DEF g

LEMMA OverviewRoutedInv ==
  ASSUME NEW s, Core(s), s.flight => s.again, NEW runChanged \in BOOLEAN, mode \in Modes
  PROVE  Asks(s, OverviewRouted(s, runChanged))
<1> DEFINE t == [s EXCEPT !.detail = None, !.detailId = None, !.conflict = FALSE]
<1>1. Client(t) /\ SameRest(s, t) /\ SameNet(s, t) /\ SameScreen(s, t)
  <2>1. None \in Maybe(Runs) /\ Client(s)
    BY DEF Maybe, Core
  <2> QED BY <2>1, DroppedFacts
<1>2. PICK known \in BOOLEAN : OverviewRouted(s, runChanged) =
        CASE ~known -> RefreshSingleFlight(t)
          [] known /\ runChanged -> RefreshSingleFlight(RenderCurrentGuarded(t))
          [] known /\ ~runChanged -> RenderCurrentGuarded(t)
  <2>1. (\A w \in Workspaces : s.snap[w].list # None \/ s.snap[w].listErr) \in BOOLEAN
    OBVIOUS
  <2>2. PICK known \in BOOLEAN :
          known = (\A w \in Workspaces : s.snap[w].list # None \/ s.snap[w].listErr)
    BY <2>1
  <2>3. OverviewRouted(s, runChanged) =
          CASE ~known -> RefreshSingleFlight(t)
            [] known /\ runChanged -> RefreshSingleFlight(RenderCurrentGuarded(t))
            [] known /\ ~runChanged -> RenderCurrentGuarded(t)
    BY <2>2 DEF OverviewRouted
  <2> QED BY <2>3
<1> HIDE DEF t
<1>3. Core(t)
  <2>1. Recorded(t)
    BY <1>1 DEF Core, Recorded, Calm, SameScreen
  <2> QED BY <1>1, <2>1, CoreKept
<1>4. /\ Asks(t, RenderCurrentGuarded(t)) /\ Asks(t, RefreshSingleFlight(t))
      /\ Asks(t, RefreshSingleFlight(RenderCurrentGuarded(t)))
  BY <1>1, <1>3, AsksEither DEF SameRest
<1>5. PICK u : u = OverviewRouted(s, runChanged) /\ Asks(t, u)
  BY <1>2, <1>4
<1>6. Asks(s, u)
  BY <1>1, <1>5, AsksKept DEF SameRest
<1> QED BY <1>5, <1>6

LEMMA RunsRoutedInv ==
  ASSUME NEW s, Core(s), s.flight => s.again, NEW force, s.hash.view = "runs", mode \in Modes
  PROVE  Asks(s, RunsRouted(s, force))
<1> DEFINE list == IF Set THEN s.snap[s.hash.ws].list ELSE s.list
           t == [s EXCEPT !.detail = None, !.detailId = None, !.conflict = FALSE, !.list = list]
<1>1. list \in VerOrNone
  <2>1. Set => s.hash.ws \in Workspaces
    BY DEF Core, Client, AddressFits, WellFormed, All
  <2> QED BY <2>1 DEF Core, Client, Browser, SnapRecord
<1>2. RunsRouted(s, force) =
        IF force \/ t.list = None THEN RefreshSingleFlight(t) ELSE RenderCurrentGuarded(t)
  BY DEF RunsRouted, Core, Client, Browser
<1> HIDE DEF list
<1>3. Client(t) /\ SameRest(s, t) /\ SameNet(s, t) /\ SameScreen(s, t)
  <2>1. None \in DetailType /\ None \in Maybe(Runs)
    BY DEF DetailType, Maybe
  <2> QED BY <1>1, <2>1 DEF Core, Client, Browser, SameRest, SameNet, SameScreen
<1> HIDE DEF t
<1>4. Core(t)
  <2>1. Recorded(t)
    BY <1>3 DEF Core, Recorded, Calm, SameScreen
  <2> QED BY <1>3, <2>1, CoreKept
<1>5. Asks(t, RenderCurrentGuarded(t)) /\ Asks(t, RefreshSingleFlight(t))
  BY <1>3, <1>4, AsksEither DEF SameRest
<1>6. PICK u : u = RunsRouted(s, force) /\ Asks(t, u)
  BY <1>2, <1>5
<1>7. Asks(s, u)
  BY <1>3, <1>6, AsksKept DEF SameRest
<1> QED BY <1>6, <1>7

LEMMA RunRoutedInv ==
  ASSUME NEW s, Core(s), s.flight => s.again, NEW force, NEW runChanged, Deep(s.hash), mode \in Modes
  PROVE  Asks(s, RunRouted(s, force, runChanged))
<1> DEFINE r == s.hash
           matching == /\ s.detail # None /\ s.detailId = r.run /\ (Set => s.detailWs = r.ws)
                       /\ s.detail.run = r.run
           preserve == r.follow /\ ~runChanged /\ s.detail = None /\ s.detailId = r.run
           e == [s EXCEPT !.detail = None, !.detailWs = None, !.conflict = FALSE,
                          !.detailId = IF preserve THEN r.run ELSE None]
<1>1. Client(e) /\ SameRest(s, e) /\ SameNet(s, e)
  <2>1. /\ None \in DetailType /\ None \in All /\ r.run \in Maybe(Runs)
        /\ (IF preserve THEN r.run ELSE None) \in Maybe(Runs)
    BY DEF DetailType, Maybe, All, Core, Client, Browser, AddressType
  <2> HIDE DEF preserve
  <2> QED BY ZenonT(60), <2>1 DEF Core, Client, Browser, SameRest, SameNet
<1>2. PICK t \in {EmptyApp(e), s} : RunRouted(s, force, runChanged) =
        IF matching /\ ~force THEN RenderCurrentGuarded(t) ELSE RefreshSingleFlight(t)
  BY DEF RunRouted
<1> HIDE DEF e, matching
<1>3. Core(t) /\ SameRest(s, t) /\ SameNet(s, t)
  <2> DEFINE k == EmptyApp(e)
  <2>1. Client(k) /\ SameRest(e, k) /\ SameNet(e, k) /\ Recorded(k)
    BY <1>1, EmptiedFacts
  <2> HIDE DEF k
  <2>2. SameRest(s, k) /\ SameNet(s, k)
    BY <1>1, <2>1 DEF SameRest, SameNet
  <2>3. Core(k)
    BY <2>1, <2>2, CoreKept
  <2>4. SameRest(s, s) /\ SameNet(s, s)
    BY DEF SameRest, SameNet
  <2> QED BY <2>2, <2>3, <2>4 DEF k
<1>4. Asks(t, RenderCurrentGuarded(t)) /\ Asks(t, RefreshSingleFlight(t))
  BY <1>3, AsksEither DEF SameRest
<1>5. PICK u : u = RunRouted(s, force, runChanged) /\ Asks(t, u)
  BY <1>2, <1>4
<1>6. Asks(s, u)
  BY <1>3, <1>5, AsksKept DEF SameRest
<1> QED BY <1>5, <1>6

\* hashchange, once it is dispatched.
LEMMA RouteChangedInv ==
  ASSUME NEW s, BrowserInv(s), s.pending, mode \in Modes
  PROVE  LET t == RouteChanged(Handled(s)) IN
         /\ BrowserInv(t) /\ NoNewLoss(s, t)
         /\ Light(s) => Light(t) /\ t.pending = FALSE /\ Load(t) <= Load(s) + ReplayWork
<1> DEFINE h == Handled(s)
           r == h.hash
           runChanged == h.routed # Subject(r)
           t == Routed(h)
<1>1. /\ Client(h) /\ Net(h) /\ Flying(h) /\ Recorded(h) /\ h.pending = FALSE
      /\ h.base = s.base /\ h.hash = s.hash
      /\ Light(s) => Light(h) /\ Load(h) = Load(s)
      /\ ~Moved(s) => Aimed(h) /\ (Fits(h) \/ Busy(h)) /\ NoNewLoss(s, h)
  BY HandledFacts
<1>2. RouteChanged(h) =
        CASE ManualOnly(h) -> ManualMoved(h)
          [] ~ManualOnly(h) /\ r.view = "invalid" -> RenderCurrentGuarded(t)
          [] ~ManualOnly(h) /\ r.view = "workspaces" -> OverviewRouted(t, runChanged)
          [] ~ManualOnly(h) /\ r.view = "runs" -> RunsRouted(t, h.force)
          [] ~ManualOnly(h) /\ Deep(r) -> RunRouted(t, h.force, runChanged)
  BY DEF RouteChanged
<1>3. runChanged \in BOOLEAN
  OBVIOUS
<1> HIDE DEF h, runChanged
<1>6. ASSUME NEW z, NEW n \in Int, Costs(h, z, n), n <= ReplayWork, Light(s)
      PROVE  Light(z) /\ z.pending = FALSE /\ Load(z) <= Load(s) + ReplayWork
  BY <1>1, <1>6, LoadType, WorkFacts DEF Costs
<1>4. CASE ManualOnly(h)
  <2>1. ~Moved(s)
    BY <1>1, <1>4 DEF ManualOnly, Moved
  <2>2. BrowserInv(ManualMoved(h)) /\ NoNewLoss(h, ManualMoved(h)) /\ Costs(h, ManualMoved(h), 0)
    BY <1>1, <1>4, <2>1, ManualMovedInv
  <2>3. RouteChanged(h) = ManualMoved(h)
    BY <1>2, <1>4
  <2>4. NoNewLoss(s, ManualMoved(h))
    BY <1>1, <2>1, <2>2 DEF NoNewLoss
  <2>5. PICK z : z = ManualMoved(h)
    OBVIOUS
  <2>6. Light(s) => Light(z) /\ z.pending = FALSE /\ Load(z) <= Load(s) + ReplayWork
    <3>1. Costs(h, z, 0) /\ 0 \in Int /\ 0 <= ReplayWork
      BY <2>2, <2>5, WorkFacts
    <3> QED BY ONLY <1>6, <3>1
  <2> QED BY <2>2, <2>3, <2>4, <2>5, <2>6 DEF h
<1>5. CASE ~ManualOnly(h)
  <2>1. /\ Core(t) /\ t.hash = r /\ t.flight = h.flight /\ (t.flight => t.again)
        /\ Costs(h, t, IF h.flight THEN ReplayWork ELSE 0)
    BY <1>1, RoutedCore
  <2> HIDE DEF t
  <2>2. r.view \in {"workspaces", "runs", "detail", "unit", "invalid"}
    BY <1>1 DEF Client, AddressFits, WellFormed
  \* The replay that is remembered, or the refresh that begins.
  <2>7. ASSUME NEW z, Asks(t, z)
        PROVE  /\ BrowserInv(z) /\ NoNewLoss(s, z)
               /\ Light(s) => Light(z) /\ z.pending = FALSE /\ Load(z) <= Load(s) + ReplayWork
    <3>1. PICK m, n \in Int : /\ m = IF h.flight THEN ReplayWork ELSE 0
                              /\ n = IF h.flight THEN 0 ELSE RefreshWork
                              /\ m + n <= ReplayWork
      BY WorkFacts
    <3>2. Costs(h, t, m) /\ Costs(t, z, n)
      BY <2>1, <2>7, <3>1 DEF Asks
    <3>3. Costs(h, z, m + n)
      BY <3>2, CostsThen
    <3>4. PICK k \in Int : k = m + n /\ k <= ReplayWork
      BY <3>1
    <3>5. Light(s) => Light(z) /\ z.pending = FALSE /\ Load(z) <= Load(s) + ReplayWork
      BY ONLY <1>6, <3>3, <3>4
    <3> QED BY <2>7, <3>5 DEF Asks, NoNewLoss
  <2>3. CASE r.view = "invalid"
    <3>1. RouteChanged(h) = RenderCurrentGuarded(t)
      BY <1>2, <1>5, <2>3 DEF Deep
    <3> QED BY <2>1, <2>7, <3>1, AsksEither DEF h
  <2>4. CASE r.view = "workspaces"
    <3>1. RouteChanged(h) = OverviewRouted(t, runChanged)
      BY <1>2, <1>5, <2>4 DEF Deep
    <3> QED BY <1>3, <2>1, <2>7, <3>1, OverviewRoutedInv DEF h
  <2>5. CASE r.view = "runs"
    <3>1. RouteChanged(h) = RunsRouted(t, h.force)
      BY <1>2, <1>5, <2>5 DEF Deep
    <3> QED BY <2>1, <2>5, <2>7, <3>1, RunsRoutedInv DEF h
  <2>6. CASE Deep(r)
    <3>1. RouteChanged(h) = RunRouted(t, h.force, runChanged)
      BY <1>2, <1>5, <2>6 DEF Deep
    <3> QED BY <2>1, <2>6, <2>7, <3>1, RunRoutedInv DEF h
  <2> QED BY <2>2, <2>3, <2>4, <2>5, <2>6 DEF Deep
<1> QED BY <1>4, <1>5 DEF h

-----------------------------------------------------------------------------
(***************************************************************************)
(* The steps of the whole system.                                          *)
(***************************************************************************)
Hints == [seq: Nat, ws: Sources, at: [All -> Nat]]
Outside ==
    /\ mode \in Modes
    /\ budget \in [changes: Nat, acts: Nat, faults: Nat, breaks: Nat]
    /\ budget.changes <= MaxChanges
    /\ ver \in [All -> 0 .. budget.changes]
    /\ hub \in [on: BOOLEAN, seq: Nat, mail: Maybe(Hints), queued: Maybe(Hints)]
    /\ wire \in Seq(Hints)

ClientInv == Outside /\ BrowserInv(b)

\* What the client records of a loss is one of `lost`, or to be repainted.
LossInv == LossKept(b, lost)

\* The operator goes to another address, or moves the pane.
LEMMA GoToInv ==
  ASSUME NEW s, BrowserInv(s), ~s.pending, NEW r, AddressFits(r)
  PROVE  BrowserInv(GoTo(s, r)) /\ NoNewLoss(s, GoTo(s, r)) /\ (Light(s) => Light(GoTo(s, r)))
<1> DEFINE t == GoTo(s, r)
<1>1. /\ Client(s) /\ Net(s) /\ Flying(s) /\ Aimed(s) /\ Addressed(s) /\ Recorded(s)
      /\ ScreenKept(s)
  BY DEF BrowserInv
<1>2. /\ Client(t) /\ SameReqs(s, t) /\ SameScreen(s, t) /\ t.hash = r
      /\ t.pending = (r # s.hash) /\ t.base = s.base /\ t.routed = s.routed
      /\ t.manual = s.manual /\ t.flight = s.flight /\ t.again = s.again /\ t.resBusy = s.resBusy
  <2>1. r \in AddressType
    BY DEF AddressFits, WellFormed, AddressType
  <2>2. PICK p \in BOOLEAN : p = (r # s.hash)
    OBVIOUS
  <2>3. t = [s EXCEPT !.hash = r, !.pending = p]
    BY <2>2 DEF GoTo
  <2> HIDE DEF t
  <2> QED BY <1>1, <2>1, <2>2, <2>3 DEF Client, Browser, SameReqs, SameScreen
<1> HIDE DEF t
<1>3. Net(t) /\ Flying(t) /\ Recorded(t)
  BY <1>1, <1>2 DEF Net, Listed, Flying, AwaitedIn, Recorded, Calm, SameReqs, SameScreen
<1>4. s.base = UnderlyingKey(s.hash) /\ s.hash \in AddressType /\ r \in AddressType
  BY <1>1, <1>2 DEF Addressed, Client, Browser
<1>7. Light(s) => Light(t)
  BY <1>2 DEF SameReqs, Light, ResolveAsked, ResolveWaits
<1>5. CASE r = s.hash
  <2>1. SameView(s, t)
    BY <1>1, <1>2, <1>5 DEF SameView, SameNet, SameReqs, Client, Browser
  <2> QED BY <1>2, <1>7, <2>1, SameViewInv DEF t
<1>6. CASE r # s.hash
  <2>1. t.pending /\ Addressed(t)
    BY <1>2, <1>6 DEF Addressed
  <2>2. ~Moved(t) => s.hash.view = r.view /\ s.hash.ws = r.ws /\ s.hash.run = r.run
    <3>1. ASSUME UnderlyingKey(s.hash) = UnderlyingKey(r)
          PROVE  s.hash.view = r.view /\ s.hash.ws = r.ws /\ s.hash.run = r.run
      BY <1>4, <3>1 DEF UnderlyingKey, AddressType
    <3> QED BY <1>2, <1>4, <2>1, <3>1 DEF Moved
  <2>3. Aimed(t)
    <3>1. CASE Moved(t)
      BY <3>1 DEF Aimed
    <3>2. CASE ~Moved(t)
      BY <1>1, <1>2, <2>2, <3>2 DEF Aimed, Moved, Subject, Deep, SameReqs
    <3> QED BY <3>1, <3>2
  <2>4. ScreenKept(t)
    <3>1. CASE Moved(t)
      BY <2>1, <3>1 DEF ScreenKept
    <3>2. CASE ~Moved(t)
      <4>1. Fits(s) => Fits(t)
        BY <1>2, <2>2, <3>2 DEF Fits, KindsAt, Subject, Deep, SameScreen
      <4>2. Busy(s) => Busy(t)
        BY <1>2, <2>2, <3>2 DEF Busy, ListComing, SameReqs
      <4>3. ~Moved(s)
        BY DEF Moved
      <4> QED BY <1>1, <2>1, <4>1, <4>2, <4>3 DEF ScreenKept
    <3> QED BY <3>1, <3>2
  <2>5. NoNewLoss(s, t)
    BY <1>1, <1>2, <2>2 DEF NoNewLoss, Excused, Calm, Busy, ListComing, Moved, Subject, SameReqs,
                            SameScreen
  <2> QED BY <1>2, <1>3, <1>7, <2>1, <2>3, <2>4, <2>5 DEF BrowserInv, t
<1> QED BY <1>5, <1>6

LEMMA AddressesFit ==
  ASSUME NEW r, AddressFits(r)
  PROVE  /\ AddressFits([Canonical(r) EXCEPT !.manual = ~@])
         /\ r.run # None => AddressFits([Canonical(r) EXCEPT !.follow = TRUE])
<1>1. WellFormed(r) /\ r \in AddressType
  BY DEF AddressFits, WellFormed, AddressType
<1> DEFINE m == [Canonical(r) EXCEPT !.manual = ~@]
           f == [Canonical(r) EXCEPT !.follow = TRUE]
<1>2. /\ m \in AddressType /\ m.view = r.view /\ m.ws = r.ws /\ m.run = r.run /\ m.follow = r.follow
      /\ f \in AddressType /\ f.view = r.view /\ f.ws = r.ws /\ f.run = r.run
  BY <1>1 DEF AddressType, Canonical
<1> HIDE DEF m, f
<1>3. AddressFits(m) /\ (r.run # None => AddressFits(f))
  BY <1>1, <1>2 DEF AddressFits, WellFormed, AddressType
<1> QED BY <1>3 DEF m, f

LEMMA VisitsFit ==
  ASSUME NEW v \in Visitable, NEW pane \in BOOLEAN
  PROVE  AddressFits(Address(v, pane))
<1> DEFINE r == Address(v, pane)
<1>1. WellFormed(v) /\ (v.view = "invalid" \/ (Set <=> (v.ws # None \/ v.view = "workspaces")))
  BY ClientAssumption DEF Visitable
<1>2. /\ r \in [view: {"workspaces", "runs", "detail", "unit", "invalid"}, ws: All,
                run: Maybe(Runs), follow: BOOLEAN, raw: BOOLEAN, manual: BOOLEAN]
      /\ r.view = v.view /\ r.ws = v.ws /\ r.run = v.run /\ r.follow = v.follow
  BY <1>1 DEF Address, WellFormed
<1> HIDE DEF r
<1>3. AddressFits(r)
  BY <1>1, <1>2 DEF AddressFits, WellFormed
<1> QED BY <1>3 DEF r

\* The server answers: the request is the one it was.
LEMMA AnsweredInv ==
  ASSUME NEW s, BrowserInv(s), NEW q \in s.reqs, q.ans = None,
         NEW p \in RequestRecord, RequestOK(p), p.kind = q.kind, p.ws = q.ws, p.run = q.run,
         p.id = q.id, p.fresh = q.fresh
  PROVE  LET t == [s EXCEPT !.reqs = (@ \ {q}) \cup {p}] IN
         BrowserInv(t) /\ NoNewLoss(s, t) /\ (p.ans # None => Costs(s, t, -1))
<1> DEFINE t == [s EXCEPT !.reqs = (@ \ {q}) \cup {p}]
<1>1. /\ Client(s) /\ Net(s) /\ Flying(s) /\ Aimed(s) /\ Addressed(s) /\ Recorded(s)
      /\ ScreenKept(s)
  BY DEF BrowserInv
<1>2. /\ Client(t) /\ SameRest(s, t) /\ SameScreen(s, t) /\ t.waits = s.waits
      /\ t.reqs = (s.reqs \ {q}) \cup {p} /\ t.hash = s.hash /\ t.resBusy = s.resBusy
  <2>1. (s.reqs \ {q}) \cup {p} \subseteq RequestRecord
    BY <1>1 DEF Client, Browser
  <2> QED BY <1>1, <2>1 DEF Client, Browser, SameRest, SameScreen
<1> HIDE DEF t
<1>3. \A l : Listed(s, l) => Listed(t, l)
  BY <1>2 DEF Listed
<1>4. Net(t)
  <2>1. IsFiniteSet(t.reqs)
    <3>1. IsFiniteSet(s.reqs \ {q})
      <4>1. s.reqs \ {q} \subseteq s.reqs /\ IsFiniteSet(s.reqs)
        BY <1>1 DEF Net
      <4> QED BY ONLY <4>1, FS_Subset
    <3> QED BY <1>2, <3>1, FS_AddElement
  <2>2. \A r \in t.reqs : RequestOK(r)
    BY <1>1, <1>2 DEF Net
  <2> QED BY <1>1, <1>2, <1>3, <2>1, <2>2 DEF Net
<1>5. \A y \in AwaitedIn(t) : \E x \in AwaitedIn(s) :
        y.fresh = x.fresh /\ ((y = x /\ x # q) \/ (y = p /\ x = q))
  <2> TAKE y \in AwaitedIn(t)
  <2>1. q \notin s.waits
    BY <1>1, KindsApart DEF Client, Browser
  <2>2. CASE y \in t.reqs /\ y.kind \in {"detail", "runs"}
    BY <1>2, <2>2 DEF AwaitedIn
  <2>3. CASE y \in t.waits /\ y.then \in {"land", "overview"}
    BY <1>2, <2>1, <2>3 DEF AwaitedIn
  <2> QED BY <2>2, <2>3 DEF AwaitedIn
<1>6. AwaitedIn(s) # {} => AwaitedIn(t) # {}
  <2>1. ASSUME NEW x \in s.reqs, x.kind \in {"detail", "runs"} PROVE AwaitedIn(t) # {}
    BY <1>2, <2>1 DEF AwaitedIn
  <2>2. ASSUME NEW x \in s.waits, x.then \in {"land", "overview"} PROVE AwaitedIn(t) # {}
    BY <1>2, <2>2 DEF AwaitedIn
  <2> QED BY <2>1, <2>2 DEF AwaitedIn
<1>7. Flying(t)
  <2>1. t.flight = s.flight /\ t.again = s.again
    BY <1>2 DEF SameRest
  <2>2. \A x, y \in AwaitedIn(t) : x = y
    BY <1>1, <1>5 DEF Flying
  <2> QED BY <1>1, <1>5, <1>6, <2>1, <2>2 DEF Flying
<1>8. Aimed(t)
  BY <1>1, <1>2 DEF Aimed, Moved, SameRest
<1>9. Addressed(t) /\ Recorded(t)
  BY <1>1, <1>2 DEF Addressed, Recorded, Calm, SameRest, SameScreen
<1>10. Busy(s) => Busy(t)
  BY <1>2 DEF Busy, ListComing, SameRest
<1>11. ScreenKept(t)
  <2>1. (Fits(s) => Fits(t)) /\ (PaneFits(s) => PaneFits(t)) /\ (Moved(s) => Moved(t))
    BY <1>2 DEF Fits, PaneFits, Moved, SameRest, SameScreen
  <2> QED BY <1>1, <1>2, <1>10, <2>1 DEF ScreenKept, SameRest
<1>12. NoNewLoss(s, t)
  BY <1>2, <1>10 DEF NoNewLoss, Excused, Calm, Moved, SameRest, SameScreen
\* It weighs less by its being answered.
<1>13. ASSUME p.ans # None, Light(s) PROVE Light(t) /\ Load(t) <= Load(s) + -1
  <2>1. Weight(q) \in Nat /\ Weight(p) \in Nat /\ Weight(p) = Weight(q) - 1
    BY <1>13, WeightType DEF Weight
  <2>2. /\ IsFiniteSet(t.reqs) /\ Asked(t.reqs) <= Asked(s.reqs) + -1
    <3>1. IsFiniteSet(s.reqs) /\ Asked(s.reqs) \in Nat
      BY <1>13, LoadType DEF Light
    <3>2. PICK R : R = s.reqs \ {q}
      OBVIOUS
    <3>3. IsFiniteSet(R) /\ Asked(R) = Asked(s.reqs) - Weight(q)
      BY ONLY <3>1, <3>2, AskedOne, q \in s.reqs
    <3>4. IsFiniteSet(R \cup {p}) /\ Asked(R \cup {p}) <= Asked(R) + Weight(p)
      BY ONLY <3>3, AskedOne
    <3>5. t.reqs = R \cup {p} /\ Asked(R \cup {p}) \in Nat /\ Asked(R) \in Nat
      BY <1>2, <3>2, <3>3, <3>4, AskedType
    <3> QED BY ONLY <2>1, <3>1, <3>3, <3>4, <3>5
  <2>3. ResolveWaits(t) = ResolveWaits(s) /\ DeepWaits(t) = DeepWaits(s) /\ t.again = s.again
    BY <1>2 DEF ResolveWaits, DeepWaits, SameRest
  <2>4. \A k \in ResolveAsked(t) : \E l \in ResolveAsked(s) : (k = l /\ k # q) \/ (k = p /\ l = q)
    BY <1>2 DEF ResolveAsked
  <2>5. Light(t)
    <3>1. \A k, l \in ResolveAsked(t) : k = l
      BY <1>13, <2>4 DEF Light
    <3>2. ResolveAsked(t) # {} => ResolveAsked(s) # {}
      BY <2>4
    <3> QED BY <1>2, <1>13, <2>2, <2>3, <3>1, <3>2 DEF Light
  <2>6. Replays(t) <= Replays(s) + 0
    BY <1>13, <2>3, LoadType DEF Replays
  <2>7. Load(t) <= Load(s) + -1 + 0 * ReplayWork
    BY <1>13, <2>2, <2>5, <2>6, LoadBound
  <2> QED BY <1>13, <2>5, <2>7, LoadType, WorkFacts
<1>14. p.ans # None => Costs(s, t, -1)
  BY <1>2, <1>13 DEF Costs, SameRest
<1> QED BY <1>2, <1>4, <1>7, <1>8, <1>9, <1>11, <1>12, <1>14 DEF BrowserInv, t

LEMMA BootInv ==
  ASSUME NEW r, AddressFits(r), mode \in Modes
  PROVE  BrowserInv(Boot(r)) /\ Excused(Boot(r)) /\ Light(Boot(r))
<1> DEFINE snap == [w \in Workspaces |-> [list |-> None, listErr |-> FALSE,
                                          detail |-> None, detailErr |-> FALSE]]
           s == [hash |-> r, pending |-> FALSE, routed |-> <<None, None>>, painted |-> Blank,
                 lastPaint |-> None, list |-> None, detail |-> None, detailId |-> None,
                 detailWs |-> None, conflict |-> FALSE, flight |-> FALSE, again |-> FALSE,
                 force |-> FALSE, manual |-> r.manual, base |-> UnderlyingKey(r),
                 snap |-> snap, dead |-> None, resTried |-> None, resBusy |-> FALSE,
                 lastEventId |-> None, stream |-> "connecting", reqs |-> {}, waits |-> {}]
<1>1. /\ r \in AddressType /\ UnderlyingKey(r) \in AddressType /\ r.manual \in BOOLEAN
  BY DEF AddressFits, WellFormed, AddressType, UnderlyingKey
<1>2. /\ None \in All /\ \A S : None \in Maybe(S)
      /\ None \in VerOrNone /\ None \in DetailType
  BY DEF All, Maybe, VerOrNone, DetailType
<1>3. snap \in [Workspaces -> SnapRecord]
  BY <1>2 DEF SnapRecord
<1>4. Boot(r) = Refresh(s)
  BY DEF Boot
<1> HIDE DEF snap
<1>5. s \in Browser
  BY <1>1, <1>2, <1>3, BlankType DEF Browser
<1>6. /\ s.hash = r /\ s.reqs = {} /\ s.waits = {} /\ s.again = FALSE /\ s.lastPaint = None
      /\ s.painted = Blank /\ s.base = UnderlyingKey(r) /\ s.manual = r.manual
  OBVIOUS
<1> HIDE DEF s
<1>7. Client(s)
  BY <1>5, <1>6 DEF Client
<1>8. Net(s)
  BY <1>6, FS_EmptySet DEF Net
<1>9. AwaitedIn(s) = {} /\ Recorded(s)
  BY <1>6, BlankIsCalm DEF AwaitedIn, Recorded
<1>10. Light(s)
  BY <1>6, FS_EmptySet DEF Light, ResolveAsked, ResolveWaits
<1>11. BrowserInv(Refresh(s)) /\ Excused(Refresh(s)) /\ Costs(s, Refresh(s), RefreshWork)
  BY <1>6, <1>7, <1>8, <1>9, RefreshInv
<1> QED BY <1>4, <1>10, <1>11 DEF Costs

LEMMA InitInv ==
  Init => ClientInv /\ LossInv /\ Light(b)
<1> SUFFICES ASSUME Init PROVE ClientInv /\ LossInv /\ Light(b)
  OBVIOUS
<1>1. Outside
  <2>1. /\ mode \in Modes /\ ver = [w \in All |-> 0] /\ wire = <<>>
        /\ hub = [on |-> FALSE, seq |-> 0, mail |-> None, queued |-> None]
        /\ budget = [changes |-> 0, acts |-> 0, faults |-> 0, breaks |-> 0]
    BY DEF Init
  <2>2. MaxChanges \in Nat
    BY ClientAssumption
  <2> QED BY <2>1, <2>2 DEF Outside, Maybe
<1>2. PICK v \in Visitable : b = Boot(Address(v, v.manual))
  BY DEF Init
<1>3. v.manual \in BOOLEAN
  BY ClientAssumption DEF Visitable, WellFormed
<1>4. AddressFits(Address(v, v.manual))
  BY <1>3, VisitsFit
<1>5. BrowserInv(b) /\ Excused(b) /\ Light(b)
  BY <1>1, <1>2, <1>4, BootInv DEF Outside
<1> QED BY <1>1, <1>5 DEF ClientInv, LossInv, LossKept

\* The launch mode never changes.
LEMMA ModeKept ==
  ASSUME mode' = mode, BrowserInv(b')
  PROVE  BrowserInv(b)'
BY DEF BrowserInv, Client, AddressFits, Net, Listed, RequestOK, Flying, AwaitedIn, Aimed, Moved,
       Addressed, Recorded, ScreenKept, Fits, PaneFits, Busy, ListComing, Set

LEMMA LossPrimed ==
  ASSUME LossKept(b', lost')
  PROVE  LossInv'
BY DEF LossInv, LossKept, Excused, Calm, Lossy, Busy, ListComing, Moved, Subject,
       UnderlyingKey, LossClasses, Losses, Absences

\* A step that records no new loss, and leaves `lost` what it holds.
LEMMA LossCarried ==
  ASSUME NoNewLoss(b, b'), lost \subseteq lost'
  PROVE  LossInv => LossInv'
<1>1. LossInv => LossKept(b', lost')
  BY DEF LossInv, LossKept, NoNewLoss, Subject
<1> QED BY <1>1, LossPrimed

Budget(g) == g \in [changes: Nat, acts: Nat, faults: Nat, breaks: Nat] /\ g.changes <= MaxChanges

LEMMA SpendFacts ==
  ASSUME Budget(budget), NEW item \in {"acts", "faults", "breaks"}, NEW limit, Spend(item, limit)
  PROVE  Budget(budget') /\ budget'.changes = budget.changes
BY DEF Budget, Spend

LEMMA ChangeFacts ==
  ASSUME Budget(budget), Spend("changes", MaxChanges)
  PROVE  Budget(budget') /\ budget'.changes = budget.changes + 1
BY ClientAssumption DEF Budget, Spend

\* What a step leaves alone of the world outside the browser.
LEMMA OutsideKept ==
  ASSUME Outside, mode' = mode, ver' = ver, Budget(budget'), budget'.changes = budget.changes,
         hub' \in [on: BOOLEAN, seq: Nat, mail: Maybe(Hints), queued: Maybe(Hints)],
         wire' \in Seq(Hints)
  PROVE  Outside'
<1>1. Hints' = Hints
  BY DEF Hints, Sources
<1> QED BY <1>1 DEF Outside, Budget, Maybe

\* What every step leaves true.  Unless it comes from outside (the budget or
\* the stream says so), it leaves less work than it found.
Drains ==
    Light(b) =>
        /\ Light(b')
        /\ budget' = budget /\ b'.stream = b.stream => Work' < Work \/ UNCHANGED vars
Held == ClientInv' /\ (LossInv => LossInv') /\ Drains

WorkOf(s, w, h) ==
    Load(s) + (ReplayWork + 1) * Number(s.pending) + FrameWork * Len(w)
    + (FrameWork + 1) * (Number(h.mail # None) + Number(h.queued # None))

LEMMA WorkIs ==
  Work = WorkOf(b, wire, hub) /\ Work' = WorkOf(b', wire', hub')
BY DEF Work, WorkOf, Load, Asked, Replays, DeepWaits

\* The parts of the work are numbers.
LEMMA WorkParts ==
  ASSUME NEW s, Light(s), NEW w \in Seq(Hints), NEW h
  PROVE  /\ Load(s) \in Int /\ Len(w) \in Nat
         /\ Number(s.pending) \in Nat /\ Number(h.mail # None) \in Nat /\ Number(h.queued # None) \in Nat
         /\ (ReplayWork + 1) * Number(s.pending) \in Nat /\ FrameWork * Len(w) \in Nat
         /\ (FrameWork + 1) * (Number(h.mail # None) + Number(h.queued # None)) \in Nat
<1>1. ASSUME NEW x \in Nat, NEW y \in Nat PROVE x * y \in Nat
  BY <1>1
<1>2. /\ Load(s) \in Int /\ Len(w) \in Nat
      /\ Number(s.pending) \in Nat /\ Number(h.mail # None) \in Nat /\ Number(h.queued # None) \in Nat
  BY LoadType DEF Number
<1>3. PICK r, f \in Nat : r = ReplayWork + 1 /\ f = FrameWork
  <2>1. ReplayWork \in Nat /\ FrameWork \in Nat
    BY WorkFacts
  <2> QED BY ONLY <2>1
<1>4. PICK m, d \in Nat : m = Number(h.mail # None) /\ d = Number(h.queued # None)
  BY <1>2
<1>5. r * Number(s.pending) \in Nat /\ f * Len(w) \in Nat /\ (f + 1) * (m + d) \in Nat
  BY <1>1, <1>2
<1> QED BY <1>2, <1>3, <1>4, <1>5

\* A task of the browser that neither takes an event nor a hashchange.
LEMMA LoadDrains ==
  ASSUME NEW s, NEW t, Light(s), Costs(s, t, -1), NEW w \in Seq(Hints), NEW h
  PROVE  WorkOf(t, w, h) < WorkOf(s, w, h)
<1>1. Light(t) /\ t.pending = s.pending /\ Load(t) <= Load(s) + -1
  BY DEF Costs
<1>2. PICK a, c \in Int : a = Load(s) /\ c = Load(t) /\ c <= a + -1
  BY <1>1, LoadType
<1>3. PICK x, y, z \in Nat :
        /\ x = (ReplayWork + 1) * Number(s.pending) /\ y = FrameWork * Len(w)
        /\ z = (FrameWork + 1) * (Number(h.mail # None) + Number(h.queued # None))
  BY WorkParts
<1>4. WorkOf(s, w, h) = a + x + y + z /\ WorkOf(t, w, h) = c + x + y + z
  BY <1>1, <1>2, <1>3 DEF WorkOf
<1>5. c + x + y + z < a + x + y + z
  BY <1>2
<1> QED BY ONLY <1>4, <1>5

\* An event weighs more than all that it starts.
LEMMA FrameDrains ==
  ASSUME NEW s, NEW t, Light(s), Costs(s, t, FrameWork - 1), NEW w \in Seq(Hints), w # <<>>, NEW h
  PROVE  WorkOf(t, Tail(w), h) < WorkOf(s, w, h)
<1>1. Light(t) /\ t.pending = s.pending /\ Load(t) <= Load(s) + (FrameWork - 1)
  BY DEF Costs
<1>2. Tail(w) \in Seq(Hints) /\ Len(Tail(w)) = Len(w) - 1 /\ Len(w) \in Nat /\ Len(w) # 0
  OBVIOUS
<1>3. FrameWork * Len(Tail(w)) = FrameWork * Len(w) - FrameWork
  <2>1. ASSUME NEW a \in Nat, NEW n \in Nat PROVE a * (n - 1) = a * n - a
    OBVIOUS
  <2> QED BY <1>2, <2>1, WorkFacts
<1>4. PICK a, c \in Int, f \in Nat :
        a = Load(s) /\ c = Load(t) /\ f = FrameWork /\ c <= a + (f - 1)
  BY <1>1, LoadType, WorkFacts
<1>5. PICK x, y, z \in Nat :
        /\ x = (ReplayWork + 1) * Number(s.pending) /\ y = FrameWork * Len(w)
        /\ z = (FrameWork + 1) * (Number(h.mail # None) + Number(h.queued # None))
  BY WorkParts
<1>6. WorkOf(s, w, h) = a + x + y + z /\ WorkOf(t, Tail(w), h) = c + x + (y - f) + z
  BY <1>1, <1>3, <1>4, <1>5 DEF WorkOf
<1>7. c + x + (y - f) + z < a + x + y + z
  BY <1>4
<1> QED BY ONLY <1>6, <1>7

\* An address to handle weighs more than the refresh it asks for.
LEMMA AddressDrains ==
  ASSUME NEW s, NEW t, Light(s), Light(t), s.pending, t.pending = FALSE,
         Load(t) <= Load(s) + ReplayWork, NEW w \in Seq(Hints), NEW h
  PROVE  WorkOf(t, w, h) < WorkOf(s, w, h)
<1>1. Number(s.pending) = 1 /\ Number(t.pending) = 0
  BY DEF Number
<1>2. PICK a, c \in Int, r \in Nat :
        a = Load(s) /\ c = Load(t) /\ r = ReplayWork /\ c <= a + r
  BY LoadType, WorkFacts
<1>3. PICK y, z \in Nat :
        /\ y = FrameWork * Len(w)
        /\ z = (FrameWork + 1) * (Number(h.mail # None) + Number(h.queued # None))
  BY WorkParts
<1>4. WorkOf(s, w, h) = a + (r + 1) * 1 + y + z /\ WorkOf(t, w, h) = c + (r + 1) * 0 + y + z
  BY <1>1, <1>2, <1>3 DEF WorkOf
<1> QED BY ONLY <1>2, <1>3, <1>4

\* A hint that is relayed weighs less on the wire than in the hub.
LEMMA RelayDrains ==
  ASSUME NEW s, Light(s), NEW w \in Seq(Hints), NEW h, NEW k, NEW e \in Hints, h.mail # None,
         k.mail = h.queued, k.queued = None
  PROVE  WorkOf(s, Append(w, e), k) < WorkOf(s, w, h)
<1>1. Append(w, e) \in Seq(Hints) /\ Len(Append(w, e)) = Len(w) + 1 /\ Len(w) \in Nat
  OBVIOUS
<1>2. FrameWork * Len(Append(w, e)) = FrameWork * Len(w) + FrameWork
  <2>1. ASSUME NEW a \in Nat, NEW n \in Nat PROVE a * (n + 1) = a * n + a
    OBVIOUS
  <2> QED BY <1>1, <2>1, WorkFacts
<1>3. PICK x \in {0, 1} : Number(h.queued # None) = x /\ Number(k.mail # None) = x
  BY DEF Number
<1>4. Number(h.mail # None) = 1 /\ Number(k.queued # None) = 0
  BY DEF Number
<1>5. PICK a \in Int, f, p, y \in Nat :
        a = Load(s) /\ f = FrameWork /\ p = (ReplayWork + 1) * Number(s.pending) /\ y = FrameWork * Len(w)
  BY WorkParts, WorkFacts
<1>6. /\ WorkOf(s, w, h) = a + p + y + (f + 1) * (1 + x)
      /\ WorkOf(s, Append(w, e), k) = a + p + (y + f) + (f + 1) * (x + 0)
  BY <1>2, <1>3, <1>4, <1>5 DEF WorkOf
<1>7. CASE x = 0
  BY ONLY <1>5, <1>6, <1>7
<1>8. CASE x = 1
  BY ONLY <1>5, <1>6, <1>8
<1> QED BY <1>7, <1>8

\* A step that spends comes from outside.
LEMMA SpendDrains ==
  ASSUME Budget(budget), NEW item \in {"changes", "acts", "faults", "breaks"}, NEW limit,
         Spend(item, limit), Light(b) => Light(b')
  PROVE  Drains
<1>1. budget' = [budget EXCEPT ![item] = @ + 1] /\ item \in DOMAIN budget /\ budget[item] \in Nat
  BY DEF Budget, Spend
<1>2. budget'[item] # budget[item]
  BY <1>1
<1> QED BY <1>2 DEF Drains

LEMMA ServerStep ==
  ASSUME ClientInv, NEW q \in b.reqs, ServerAnswers(q)
  PROVE  Held
<1>1. /\ Client(b) /\ Net(b) /\ q \in RequestRecord /\ RequestOK(q) /\ q.ans = None
      /\ mode' = mode /\ ver' = ver /\ hub' = hub /\ wire' = wire /\ lost' = lost
  BY DEF ClientInv, BrowserInv, Client, Browser, Net, ServerAnswers
<1>2. PICK out \in Answers(q.kind), run \in Runs \cup {None} :
        /\ IF out = "other" THEN run \in Runs \ {q.run} ELSE run = q.run
        /\ IF out = "ok" THEN UNCHANGED budget ELSE Spend("faults", MaxFaults)
        /\ b' = [b EXCEPT !.reqs = (@ \ {q}) \cup
                  {[q EXCEPT !.ans = [out |-> out, run |-> run, ver |-> ver[q.ws]]]}]
  BY DEF ServerAnswers
<1> DEFINE ans == [out |-> out, run |-> run, ver |-> ver[q.ws]]
           p == [q EXCEPT !.ans = ans]
<1>3. out \in Outcomes /\ (q.kind # "detail" => out \in {"ok", "failed"})
  <2>1. CASE q.kind = "detail"
    BY <2>1 DEF Answers, RunFailures, Outcomes
  <2>2. CASE q.kind # "detail"
    BY <2>2 DEF Answers, RunFailures, Outcomes, FetchFailures
  <2> QED BY <2>1, <2>2
<1>4. ans \in AnswerRecord /\ ans.out = out /\ ans.run = run
  <2>1. q.ws \in All /\ run \in Maybe(Runs)
    BY <1>1, <1>2 DEF RequestRecord, Maybe
  <2>2. ver[q.ws] \in Versions
    <3>1. ver[q.ws] \in 0 .. budget.changes /\ budget.changes \in Nat /\ budget.changes <= MaxChanges
      BY <2>1 DEF ClientInv, Outside
    <3> QED BY <3>1, ClientAssumption DEF Versions
  <2> QED BY <1>3, <2>1, <2>2 DEF AnswerRecord
<1> HIDE DEF ans
<1>5. /\ p \in RequestRecord /\ p.kind = q.kind /\ p.ws = q.ws /\ p.run = q.run /\ p.id = q.id
      /\ p.fresh = q.fresh /\ p.ans = ans
  BY <1>1, <1>4 DEF RequestRecord, Maybe
<1>6. b' = [b EXCEPT !.reqs = (@ \ {q}) \cup {p}]
  BY <1>2 DEF ans
<1> HIDE DEF p
<1>7. RequestOK(p)
  <2>1. q.kind = "detail" => run \in Runs
    BY <1>1, <1>2 DEF RequestOK
  <2> QED BY <1>1, <1>3, <1>4, <1>5, <2>1 DEF RequestOK
<1>8. BrowserInv(b') /\ NoNewLoss(b, b') /\ (ans # None => Costs(b, b', -1))
  BY <1>1, <1>5, <1>6, <1>7, AnsweredInv DEF ClientInv
<1>9. Outside'
  <2>1. Budget(budget') /\ budget'.changes = budget.changes
    BY <1>2, SpendFacts DEF ClientInv, Outside, Budget
  <2>2. hub' \in [on: BOOLEAN, seq: Nat, mail: Maybe(Hints), queued: Maybe(Hints)]
    BY <1>1 DEF ClientInv, Outside
  <2>3. wire' \in Seq(Hints)
    BY <1>1 DEF ClientInv, Outside
  <2> QED BY <1>1, <2>1, <2>2, <2>3, OutsideKept DEF ClientInv
<1>10. Drains
  <2>1. Budget(budget) /\ wire \in Seq(Hints)
    BY DEF ClientInv, Outside, Budget
  <2>2. CASE ans = None
    <3>1. p = q /\ b' = b
      BY <1>1, <1>5, <1>6, <2>2 DEF RequestRecord, Client, Browser
    <3>2. CASE out = "ok"
      BY <1>1, <1>2, <3>1, <3>2 DEF Drains, vars, ServerAnswers
    <3>3. CASE out # "ok"
      BY <1>2, <2>1, <3>1, <3>3, SpendDrains
    <3> QED BY <3>2, <3>3
  <2>3. CASE ans # None
    <3>1. Costs(b, b', -1)
      BY <1>8, <2>3
    <3>2. Light(b) => Work' < Work
      BY <1>1, <2>1, <3>1, LoadDrains, WorkIs
    <3> QED BY <3>1, <3>2 DEF Drains, Costs
  <2> QED BY <2>2, <2>3
<1> QED BY <1>1, <1>8, <1>9, <1>10, ModeKept, LossCarried DEF ClientInv, Held

\* The steps the hub takes alone.
LEMMA HubStep ==
  ASSUME ClientInv, (\E w \in Sources : Publish(w)) \/ Relay \/ HubRestarts
  PROVE  Held
<1>1. /\ mode' = mode /\ b' = b /\ lost' = lost /\ BrowserInv(b) /\ Budget(budget) /\ budget.changes \in Nat
      /\ ver \in [All -> 0 .. budget.changes] /\ wire \in Seq(Hints)
      /\ hub \in [on: BOOLEAN, seq: Nat, mail: Maybe(Hints), queued: Maybe(Hints)]
  BY DEF ClientInv, Outside, Budget, Publish, Relay, HubRestarts
<1>2. BrowserInv(b)' /\ (LossInv => LossInv')
  BY <1>1, ModeKept, LossCarried DEF NoNewLoss
<1>3. ASSUME NEW w \in Sources, Publish(w) PROVE Outside' /\ Drains
  <2>1. Spend("changes", MaxChanges) /\ wire' = wire
    BY <1>3 DEF Publish
  <2>2. Budget(budget') /\ budget'.changes = budget.changes + 1
    BY <1>1, <2>1, ChangeFacts
  <2>3. PICK v : v = [ver EXCEPT ![w] = @ + 1]
    OBVIOUS
  <2>4. PICK hint : hint = [seq |-> hub.seq + 1, ws |-> w, at |-> v]
    OBVIOUS
  <2>5. /\ ver' = v
        /\ hub' = [hub EXCEPT !.seq = @ + 1,
                              !.mail = IF hub.on /\ @ = None THEN hint ELSE @,
                              !.queued = IF hub.on /\ hub.mail # None THEN hint ELSE @]
    BY <1>3, <2>3, <2>4 DEF Publish
  <2>6. v \in [All -> 0 .. budget.changes + 1] /\ v \in [All -> Nat]
    BY <1>1, <2>3 DEF Sources, All
  <2>7. hint \in Hints
    BY <1>1, <2>4, <2>6 DEF Hints
  <2>8. hub' \in [on: BOOLEAN, seq: Nat, mail: Maybe(Hints), queued: Maybe(Hints)]
    <3>1. ASSUME NEW m \in Maybe(Hints), NEW d \in Maybe(Hints)
          PROVE  [hub EXCEPT !.seq = @ + 1, !.mail = m, !.queued = d]
                   \in [on: BOOLEAN, seq: Nat, mail: Maybe(Hints), queued: Maybe(Hints)]
      <4>1. hub \in [on: BOOLEAN, seq: Nat, mail: Maybe(Hints), queued: Maybe(Hints)]
        BY <1>1
      <4>2. PICK n \in Nat : n = hub.seq + 1
        BY <4>1
      <4>3. [hub EXCEPT !.seq = n, !.mail = m, !.queued = d]
              \in [on: BOOLEAN, seq: Nat, mail: Maybe(Hints), queued: Maybe(Hints)]
        BY ONLY <4>1, m \in Maybe(Hints), d \in Maybe(Hints), n \in Nat
      <4>4. [hub EXCEPT !.seq = @ + 1, !.mail = m, !.queued = d]
              = [hub EXCEPT !.seq = n, !.mail = m, !.queued = d]
        BY <4>2
      <4> QED BY <4>3, <4>4
    <3>2. PICK m \in Maybe(Hints) : m = IF hub.on /\ hub.mail = None THEN hint ELSE hub.mail
      BY <1>1, <2>7 DEF Maybe
    <3>3. PICK d \in Maybe(Hints) : d = IF hub.on /\ hub.mail # None THEN hint ELSE hub.queued
      BY <1>1, <2>7 DEF Maybe
    <3>4. hub' = [hub EXCEPT !.seq = @ + 1, !.mail = m, !.queued = d]
      BY <1>1, <2>5, <3>2, <3>3
    <3> QED BY <3>1, <3>4
  <2>9. Hints' = Hints
    BY <1>1 DEF Hints, Sources
  <2>10. Outside'
    BY <1>1, <2>1, <2>2, <2>5, <2>6, <2>8, <2>9 DEF ClientInv, Outside, Budget, Maybe
  <2>11. Drains
    BY <1>1, <2>1, SpendDrains
  <2> QED BY <2>10, <2>11
<1>4. ASSUME Relay PROVE Outside' /\ Drains
  <2>1. /\ hub.mail # None /\ hub' = [hub EXCEPT !.mail = hub.queued, !.queued = None]
        /\ wire' = Append(wire, hub.mail) /\ ver' = ver /\ budget' = budget
    BY <1>4 DEF Relay
  <2>2. hub.mail \in Hints /\ hub.queued \in Maybe(Hints) /\ None \in Maybe(Hints)
    BY <1>1, <2>1 DEF Maybe
  <2>3. wire' \in Seq(Hints)
    BY <1>1, <2>1, <2>2
  <2>4. hub' \in [on: BOOLEAN, seq: Nat, mail: Maybe(Hints), queued: Maybe(Hints)]
    BY <1>1, <2>1, <2>2
  <2>5. Outside'
    BY <1>1, <2>1, <2>3, <2>4, OutsideKept DEF ClientInv
  <2>6. Light(b) => Work' < Work
    <3>1. hub'.mail = hub.queued /\ hub'.queued = None
      BY <1>1, <2>1
    <3> QED BY <1>1, <2>1, <2>2, <3>1, RelayDrains, WorkIs
  <2> QED BY <1>1, <2>5, <2>6 DEF Drains
<1>5. ASSUME HubRestarts PROVE Outside' /\ Drains
  <2>1. /\ Spend("breaks", MaxBreaks) /\ hub' = [hub EXCEPT !.on = FALSE, !.seq = 0, !.queued = None]
        /\ wire' = wire /\ ver' = ver
    BY <1>5 DEF HubRestarts
  <2>2. Budget(budget') /\ budget'.changes = budget.changes
    BY <1>1, <2>1, SpendFacts
  <2>3. hub' \in [on: BOOLEAN, seq: Nat, mail: Maybe(Hints), queued: Maybe(Hints)]
    <3>1. None \in Maybe(Hints)
      BY DEF Maybe
    <3> QED BY <1>1, <2>1, <3>1
  <2>4. Outside'
    BY <1>1, <2>1, <2>2, <2>3, OutsideKept DEF ClientInv
  <2>5. Drains
    BY <1>1, <2>1, SpendDrains
  <2> QED BY <2>4, <2>5
<1> QED BY <1>2, <1>3, <1>4, <1>5 DEF ClientInv, Held

\* The stream opens, breaks, or brings an event.
LEMMA StreamStep ==
  ASSUME ClientInv, StreamOpens \/ StreamBreaks \/ DeliverEvent
  PROVE  Held
<1>1. /\ mode' = mode /\ mode \in Modes /\ ver' = ver /\ lost' = lost /\ BrowserInv(b) /\ Budget(budget)
      /\ wire \in Seq(Hints)
      /\ hub \in [on: BOOLEAN, seq: Nat, mail: Maybe(Hints), queued: Maybe(Hints)]
  BY DEF ClientInv, Outside, Budget, StreamOpens, StreamBreaks, DeliverEvent
<1>2. /\ BrowserInv(StreamOpened(b)) /\ NoNewLoss(b, StreamOpened(b))
      /\ BrowserInv(StreamFailed(b)) /\ NoNewLoss(b, StreamFailed(b))
      /\ StreamOpened(b).stream = "connected"
      /\ Light(b) => Light(StreamOpened(b)) /\ Light(StreamFailed(b))
  BY <1>1, StreamInv
<1>3. None \in Maybe(Hints) /\ <<>> \in Seq(Hints)
  BY DEF Maybe
<1>4. CASE StreamOpens
  <2>1. /\ hub' = [hub EXCEPT !.on = TRUE, !.mail = None, !.queued = None] /\ wire' = wire
        /\ budget' = budget /\ b' = StreamOpened(b) /\ b.stream # "connected"
    BY <1>4 DEF StreamOpens
  <2>2. hub' \in [on: BOOLEAN, seq: Nat, mail: Maybe(Hints), queued: Maybe(Hints)]
    BY <1>1, <1>3, <2>1
  <2>3. Outside'
    BY <1>1, <2>1, <2>2, OutsideKept DEF ClientInv
  <2>4. Drains
    BY <1>2, <2>1 DEF Drains
  <2> QED BY <1>1, <1>2, <2>1, <2>3, <2>4, ModeKept, LossCarried DEF ClientInv, Held
<1>5. CASE StreamBreaks
  <2>1. /\ hub' = [hub EXCEPT !.on = FALSE, !.mail = None, !.queued = None] /\ wire' = <<>>
        /\ Spend("breaks", MaxBreaks) /\ b' = StreamFailed(b)
    BY <1>5 DEF StreamBreaks
  <2>2. hub' \in [on: BOOLEAN, seq: Nat, mail: Maybe(Hints), queued: Maybe(Hints)]
    BY <1>1, <1>3, <2>1
  <2>3. Budget(budget') /\ budget'.changes = budget.changes
    BY <1>1, <2>1, SpendFacts
  <2>4. Outside'
    BY <1>1, <1>3, <2>1, <2>2, <2>3, OutsideKept DEF ClientInv
  <2>5. Drains
    BY <1>1, <1>2, <2>1, SpendDrains
  <2> QED BY <1>1, <1>2, <2>1, <2>4, <2>5, ModeKept, LossCarried DEF ClientInv, Held
<1>6. CASE DeliverEvent
  <2>1. /\ wire # <<>> /\ wire' = Tail(wire) /\ hub' = hub /\ budget' = budget
        /\ b' = HandleInvalidation(b, Head(wire))
    BY <1>6 DEF DeliverEvent
  <2>2. PICK e : e = Head(wire)
    OBVIOUS
  <2>3. e \in Hints /\ wire' \in Seq(Hints)
    BY <1>1, <2>1, <2>2
  <2>4. e.seq \in Nat /\ e.ws \in Sources
    BY <2>3 DEF Hints
  <2>5. BrowserInv(b') /\ NoNewLoss(b, b') /\ Costs(b, b', FrameWork - 1)
    BY <1>1, <2>1, <2>2, <2>4, InvalidationInv
  <2>6. Outside'
    BY <1>1, <2>1, <2>3, OutsideKept DEF ClientInv
  <2>7. Light(b) => Work' < Work
    BY <1>1, <2>1, <2>5, FrameDrains, WorkIs
  <2>8. Drains
    BY <2>5, <2>7 DEF Drains, Costs
  <2> QED BY <1>1, <2>5, <2>6, <2>8, ModeKept, LossCarried DEF ClientInv, Held
<1> QED BY <1>4, <1>5, <1>6

\* An answer is received, or a hashchange dispatched.
LEMMA BrowserStep ==
  ASSUME ClientInv, (\E q \in b.reqs : ReceiveAnswer(q)) \/ HashChange
  PROVE  Held
<1>1. /\ mode' = mode /\ mode \in Modes /\ ver' = ver /\ hub' = hub /\ wire' = wire
      /\ budget' = budget /\ BrowserInv(b) /\ Budget(budget) /\ wire \in Seq(Hints)
      /\ hub \in [on: BOOLEAN, seq: Nat, mail: Maybe(Hints), queued: Maybe(Hints)]
  BY DEF ClientInv, Outside, Budget, ReceiveAnswer, HashChange
<1>2. Outside'
  BY <1>1, OutsideKept DEF ClientInv
<1>3. ASSUME NEW q \in b.reqs, ReceiveAnswer(q)
      PROVE  BrowserInv(b') /\ (LossInv => LossInv') /\ Drains
  <2>1. q.ans # None /\ b' = Arrives(b, q)
    BY <1>3 DEF ReceiveAnswer
  <2>2. BrowserInv(b') /\ (Excused(b') \/ Believed(b, q, b')) /\ Costs(b, b', -1)
    BY <1>1, <2>1, ArrivesInv
  <2>7. Light(b) => Work' < Work
    BY <1>1, <2>2, LoadDrains, WorkIs
  <2>8. Drains
    BY <2>2, <2>7 DEF Drains, Costs
  <2>3. CASE Excused(b')
    BY <2>2, <2>3, <2>8, LossPrimed DEF LossKept
  <2>4. CASE TrueLoss(b', q)
    <3>1. lost' = {l \in lost : <<l[1], l[2]>> # <<q.ws, q.run>>}
                  \cup {<<q.ws, q.run, f>> : f \in {q.ans.out} \cap Absences}
      BY <1>3, <2>4 DEF ReceiveAnswer, TrueLoss
    <3>2. <<q.ws, q.run, q.ans.out>> \in lost'
      BY <2>4, <3>1 DEF TrueLoss
    <3>3. <<b'.hash.ws, b'.hash.run, b'.lastPaint.failure>> \in lost'
      BY <2>4, <3>2 DEF TrueLoss, Subject
    <3> QED BY <2>2, <2>8, <3>3, LossPrimed DEF LossKept
  <2>5. CASE q.kind # "detail" /\ NoNewLoss(b, b')
    <3>1. lost \subseteq lost'
      BY <1>3, <2>5 DEF ReceiveAnswer
    <3> QED BY <2>2, <2>5, <2>8, <3>1, LossCarried
  <2>6. CASE /\ q.kind # "detail" /\ DeadEndReturns(q)
             /\ b'.hash = b.hash /\ Cites(b', b.dead.failure)
    <3>1. <<b.hash.ws, b.hash.run, b.dead.failure>> \in lost'
      BY <1>3, <2>6 DEF ReceiveAnswer
    <3>2. Calm(b') \/ <<b'.hash.ws, b'.hash.run, b'.lastPaint.failure>> \in lost'
      BY <2>6, <3>1 DEF Cites
    <3> QED BY <2>2, <2>8, <3>2, LossPrimed DEF LossKept, Excused
  <2> QED BY <2>2, <2>3, <2>4, <2>5, <2>6 DEF Believed
<1>4. ASSUME HashChange PROVE BrowserInv(b') /\ (LossInv => LossInv') /\ Drains
  <2>1. b.pending /\ b' = RouteChanged(Handled(b)) /\ lost' = lost
    BY <1>4 DEF HashChange, Handled
  <2>2. /\ BrowserInv(b') /\ NoNewLoss(b, b')
        /\ Light(b) => Light(b') /\ b'.pending = FALSE /\ Load(b') <= Load(b) + ReplayWork
    BY <1>1, <2>1, RouteChangedInv
  <2>3. Light(b) => Work' < Work
    BY <1>1, <2>1, <2>2, AddressDrains, WorkIs
  <2>4. Drains
    BY <2>2, <2>3 DEF Drains
  <2> QED BY <2>1, <2>2, <2>4, LossCarried
<1> QED BY <1>1, <1>2, <1>3, <1>4, ModeKept DEF ClientInv, Held

\* The operator acts.
LEMMA OperatorStep ==
  ASSUME ClientInv, NEW next, Operator(next), BrowserInv(next), NoNewLoss(b, next),
         Light(b) => Light(next)
  PROVE  Held
<1>1. /\ mode' = mode /\ ver' = ver /\ hub' = hub /\ wire' = wire /\ b' = next /\ lost' = lost
      /\ Spend("acts", MaxActs) /\ Budget(budget) /\ wire \in Seq(Hints)
      /\ hub \in [on: BOOLEAN, seq: Nat, mail: Maybe(Hints), queued: Maybe(Hints)]
  BY DEF ClientInv, Outside, Budget, Operator
<1>2. Budget(budget') /\ budget'.changes = budget.changes
  BY <1>1, SpendFacts
<1>3. Outside'
  BY <1>1, <1>2, OutsideKept DEF ClientInv
<1>4. Drains
  BY <1>1, SpendDrains
<1> QED BY <1>1, <1>3, <1>4, ModeKept, LossCarried DEF ClientInv, Held

LEMMA ActStep ==
  ASSUME ClientInv,
         \/ \E v \in Visitable : Navigate(v)
         \/ ToggleManual \/ Refetch \/ Retry
         \/ \E w \in Sources : RetrySource(w)
  PROVE  Held
<1>1. BrowserInv(b) /\ Client(b) /\ Net(b) /\ AddressFits(b.hash) /\ mode \in Modes
      /\ b.hash.manual \in BOOLEAN
  BY DEF ClientInv, Outside, BrowserInv, Client, AddressFits, WellFormed
<1>2. ASSUME NEW v \in Visitable, Navigate(v) PROVE Held
  <2> DEFINE r == Address(v, b.hash.manual)
  <2>1. Operator(GoTo(b, r))
    BY <1>2 DEF Navigate
  <2>2. AddressFits(r)
    BY <1>1, VisitsFit
  <2> HIDE DEF r
  <2>3. ~b.pending
    BY <2>1 DEF Operator
  <2>4. BrowserInv(GoTo(b, r)) /\ NoNewLoss(b, GoTo(b, r)) /\ (Light(b) => Light(GoTo(b, r)))
    BY <1>1, <2>2, <2>3, GoToInv
  <2> QED BY <2>1, <2>4, OperatorStep
<1>3. ASSUME ToggleManual PROVE Held
  <2> DEFINE r == [Canonical(b.hash) EXCEPT !.manual = ~@]
  <2>1. Operator(GoTo(b, r))
    BY <1>3 DEF ToggleManual
  <2>2. AddressFits(r)
    BY <1>1, AddressesFit
  <2> HIDE DEF r
  <2>3. ~b.pending
    BY <2>1 DEF Operator
  <2>4. BrowserInv(GoTo(b, r)) /\ NoNewLoss(b, GoTo(b, r)) /\ (Light(b) => Light(GoTo(b, r)))
    BY <1>1, <2>2, <2>3, GoToInv
  <2> QED BY <2>1, <2>4, OperatorStep
<1>4. ASSUME Refetch PROVE Held
  <2>1. Operator(RefreshSingleFlight(b))
    BY <1>4 DEF Refetch
  <2>2. /\ BrowserInv(RefreshSingleFlight(b)) /\ NoNewLoss(b, RefreshSingleFlight(b))
        /\ Light(b) => Light(RefreshSingleFlight(b))
    BY <1>1, RefreshedInv DEF NoNewLoss, Costs
  <2> QED BY <2>1, <2>2, OperatorStep
<1>5. ASSUME Retry PROVE Held
  <2> DEFINE r == [Canonical(b.hash) EXCEPT !.follow = TRUE]
             f == [b EXCEPT !.force = TRUE]
  <2>1. Operator(IF b.hash.run # None /\ b.hash # r THEN GoTo(f, r) ELSE RefreshSingleFlight(b))
    BY <1>5 DEF Retry
  <2>2. b.hash.run # None => AddressFits(r)
    BY <1>1, AddressesFit
  <2>3. Client(f) /\ SameView(b, f)
    BY <1>1 DEF Client, Browser, SameView, SameNet, SameScreen
  <2> HIDE DEF r, f
  <2>4. BrowserInv(f) /\ NoNewLoss(b, f) /\ ~f.pending /\ (Light(b) => Light(f))
    BY <1>1, <2>1, <2>3, SameViewInv DEF Operator, SameView, Costs
  <2>5. ASSUME b.hash.run # None
        PROVE  BrowserInv(GoTo(f, r)) /\ NoNewLoss(b, GoTo(f, r)) /\ (Light(b) => Light(GoTo(f, r)))
    BY <2>2, <2>4, <2>5, GoToInv DEF NoNewLoss
  <2>6. /\ BrowserInv(RefreshSingleFlight(b)) /\ NoNewLoss(b, RefreshSingleFlight(b))
        /\ Light(b) => Light(RefreshSingleFlight(b))
    BY <1>1, RefreshedInv DEF NoNewLoss, Costs
  <2>7. CASE b.hash.run # None /\ b.hash # r
    BY <2>1, <2>5, <2>7, OperatorStep
  <2>8. CASE ~(b.hash.run # None /\ b.hash # r)
    BY <2>1, <2>6, <2>8, OperatorStep
  <2> QED BY <2>7, <2>8
<1>6. ASSUME NEW w \in Sources, RetrySource(w) PROVE Held
  <2>1. w \in b.painted.stale /\ Operator(RefetchWorkspaceList(b, {w}, "nothing", None))
    BY <1>6 DEF RetrySource
  <2>2. w \in Workspaces
    BY <1>1, <2>1 DEF Client, Browser, ViewType
  <2>3. Set
    BY <1>6, <2>2, ClientAssumption DEF Sources, Set
  <2>4. /\ {w} \in SUBSET Workspaces /\ {w} # {} /\ None \in Maybe(Runs)
        /\ "nothing" \in {"land", "overview", "deep", "resolve", "nothing"}
        /\ "nothing" \notin {"land", "overview"}
    BY <2>2 DEF Maybe
  <2>5. PICK W, then : W = {w} /\ then = "nothing"
    OBVIOUS
  <2>6. Refetched(b, RefetchWorkspaceList(b, W, then, None), W, then)
    BY <1>1, <2>3, <2>4, <2>5, RefetchFacts
  <2>7. /\ Keeps(b, RefetchWorkspaceList(b, W, then, None))
        /\ NoNewLoss(b, RefetchWorkspaceList(b, W, then, None))
    BY <2>4, <2>5, <2>6, RefetchKeeps
  <2>8. BrowserInv(RefetchWorkspaceList(b, W, then, None))
    BY <1>1, <2>7, KeepsInv
  <2>9. Light(b) => Light(RefetchWorkspaceList(b, W, then, None))
    BY <2>4, <2>5, <2>6, RefetchedCosts DEF Costs
  <2> QED BY <2>1, <2>5, <2>7, <2>8, <2>9, OperatorStep
<1> QED BY <1>2, <1>3, <1>4, <1>5, <1>6

LEMMA NextInv ==
  ClientInv /\ [Next]_vars => Held
<1> SUFFICES ASSUME ClientInv, [Next]_vars PROVE Held
  OBVIOUS
<1>1. CASE UNCHANGED vars
  <2>1. /\ mode' = mode /\ ver' = ver /\ hub' = hub /\ wire' = wire /\ budget' = budget /\ b' = b
        /\ lost' = lost
    BY <1>1 DEF vars
  <2>2. Outside'
    BY <2>1, OutsideKept DEF ClientInv, Outside, Budget
  <2>3. BrowserInv(b')
    BY <2>1 DEF ClientInv
  <2>4. LossInv => LossInv'
    BY <2>1, LossCarried DEF NoNewLoss
  <2>5. Drains
    BY <1>1, <2>1 DEF Drains
  <2> QED BY <2>1, <2>2, <2>3, <2>4, <2>5, ModeKept DEF ClientInv, Held
<1>2. CASE Next
  <2>1. CASE (\E w \in Sources : Publish(w)) \/ Relay \/ HubRestarts
    BY <2>1, HubStep
  <2>2. CASE StreamOpens \/ StreamBreaks \/ DeliverEvent
    BY <2>2, StreamStep
  <2>3. CASE (\E q \in b.reqs : ReceiveAnswer(q)) \/ HashChange
    BY <2>3, BrowserStep
  <2>4. CASE \E q \in b.reqs : ServerAnswers(q)
    BY <2>4, ServerStep
  <2>5. CASE \/ \E v \in Visitable : Navigate(v)
             \/ ToggleManual \/ Refetch \/ Retry
             \/ \E w \in Sources : RetrySource(w)
    BY <2>5, ActStep
  <2> QED BY <1>2, <2>1, <2>2, <2>3, <2>4, <2>5 DEF Next
<1> QED BY <1>1, <1>2

-----------------------------------------------------------------------------
(***************************************************************************)
(* Theorems.                                                               *)
(***************************************************************************)
\* The invariant holds of every state the page and the stream can reach,
\* whatever the addresses visited, the sources and the bounds.
THEOREM ClientInvariant ==
  Spec => []ClientInv
<1>1. ClientInv /\ [Next]_vars => ClientInv'
  BY NextInv DEF Held
<1> QED BY <1>1, InitInv, PTL DEF Spec

\* Every variable of app.js's `state` that the model keeps stays within what
\* its code can hold, after any order of clicks, answers and events.
THEOREM TypeCorrect ==
  Spec => []TypeOK
<1>1. ClientInv => TypeOK
  <2> SUFFICES ASSUME b \in Browser PROVE TypeOK
    BY DEF ClientInv, BrowserInv, Client
  <2>1. /\ b.hash \in AddressType /\ b.base \in AddressType
        /\ b.routed \in All \X Maybe(Runs)
        /\ b.painted \in ViewType
        /\ b.list \in VerOrNone /\ b.detail \in DetailType
        /\ b.detailId \in Maybe(Runs) /\ b.detailWs \in All
        /\ {b.pending, b.manual, b.conflict, b.flight, b.again, b.force, b.resBusy} \subseteq BOOLEAN
        /\ b.snap \in [Workspaces -> SnapRecord]
    BY DEF Browser
  <2>2. \A w \in Workspaces : b.snap[w].list \in VerOrNone /\ b.snap[w].detail \in DetailType
    BY <2>1 DEF SnapRecord
  <2> QED BY <2>1, <2>2 DEF TypeOK
<1> QED BY <1>1, ClientInvariant, PTL

\* refreshSingleFlight: at most one refresh awaits an answer, and its handle
\* is held exactly while it does.
THEOREM SingleFlightCorrect ==
  Spec => []SingleFlight
<1>1. ClientInv => SingleFlight
  <2>1. Awaited = AwaitedIn(b)
    BY DEF Awaited, AwaitedIn
  <2> QED BY <2>1 DEF ClientInv, BrowserInv, Flying, SingleFlight
<1> QED BY <1>1, ClientInvariant, PTL

\* The refresh that a navigation superseded is run again when it lands.
THEOREM SupersededIsReplayedCorrect ==
  Spec => []SupersededIsReplayed
<1>1. ClientInv => SupersededIsReplayed
  <2>1. Awaited = AwaitedIn(b)
    BY DEF Awaited, AwaitedIn
  <2> QED BY <2>1 DEF ClientInv, BrowserInv, Flying, SupersededIsReplayed
<1> QED BY <1>1, ClientInvariant, PTL

\* No late answer of a run, or of the run list, will be painted at another
\* address: state.generation moves with every address routeChanged handles.
THEOREM FreshAnswerIsRoutedCorrect ==
  Spec => []FreshAnswerIsRouted
<1>1. ClientInv => FreshAnswerIsRouted
  BY DEF ClientInv, BrowserInv, Aimed, Moved, FreshAnswerIsRouted
<1> QED BY <1>1, ClientInvariant, PTL

\* state.lastPaint is a failure view's record exactly while one is shown.
THEOREM LastPaintDescribesScreenCorrect ==
  Spec => []LastPaintDescribesScreen
<1>1. ClientInv => LastPaintDescribesScreen
  BY DEF ClientInv, BrowserInv, Recorded, Calm, LastPaintDescribesScreen
<1> QED BY <1>1, ClientInvariant, PTL

\* A client at rest shows the address it is at, and the pane it asks for:
\* what routeChanged empties, and what it leaves to a refresh in flight, is
\* always painted by an answer to come.
THEOREM SettledViewIsRoutedCorrect ==
  Spec => []SettledViewIsRouted
<1>1. ClientInv => SettledViewIsRouted
  <2> SUFFICES ASSUME BrowserInv(b), b.reqs = {}, ~b.pending PROVE SettledViewIsRouted
    BY DEF ClientInv, SettledViewIsRouted, Settled
  <2>1. b.waits = {}
    BY DEF BrowserInv, Net, Listed
  <2>2. ~b.again
    BY <2>1 DEF BrowserInv, Flying, AwaitedIn
  <2>3. ~Busy(b) /\ ~Moved(b)
    BY <2>1, <2>2 DEF Busy, ListComing, Moved
  <2>4. Fits(b) /\ PaneFits(b)
    BY <2>3 DEF BrowserInv, ScreenKept
  <2> QED BY <2>4 DEF SettledViewIsRouted, Fits, PaneFits, KindsAt, Deep
<1> QED BY <1>1, ClientInvariant, PTL

\* A client at rest says that a run is not projected only if the last answer
\* about it says so, in the words of the view it shows, or the dead end of an
\* earlier answer was repainted when its acquisition ended: a dropped parent
\* rests on a run_not_found that names one or on the run's own run_log_limit,
\* a plain not-found on a run_not_found that names none, any other loss on a
\* run_not_found.  Neither a replayed record, nor a late answer, nor a failure
\* of another kind makes a run look lost.
THEOREM LossIsStructuredCorrect ==
  Spec => []LossIsStructured
<1>1. ClientInv /\ LossInv => LossIsStructured
  <2> SUFFICES ASSUME BrowserInv(b), LossInv, b.reqs = {}, ~b.pending,
                      b.painted.cls \in LossClasses
               PROVE  \E f \in Grounds(b.painted.cls) : <<b.hash.ws, b.hash.run, f>> \in lost
    BY DEF ClientInv, LossIsStructured, Settled
  <2>1. b.waits = {}
    BY DEF BrowserInv, Net, Listed
  <2>2. ~b.again
    BY <2>1 DEF BrowserInv, Flying, AwaitedIn
  <2>3. ~Busy(b) /\ ~Moved(b)
    BY <2>1, <2>2 DEF Busy, ListComing, Moved
  <2>4. Fits(b)
    BY <2>3 DEF BrowserInv, ScreenKept
  <2>5. ~Calm(b) /\ b.painted.run # None /\ b.lastPaint.failure \in Grounds(b.painted.cls)
    BY DEF BrowserInv, Recorded
  <2>6. b.hash.run # None
    BY <2>4, <2>5 DEF Fits, Subject
  <2>7. <<b.hash.ws, b.hash.run, b.lastPaint.failure>> \in lost
    BY <2>3, <2>5, <2>6 DEF LossInv, LossKept, Excused
  <2> QED BY <2>5, <2>7
<1>2. ClientInv /\ LossInv /\ [Next]_vars => (ClientInv /\ LossInv)'
  BY NextInv DEF Held
<1> QED BY <1>1, <1>2, InitInv, PTL DEF Spec

\* A client that is left alone comes to rest: in every order of answers, events
\* and hashchanges, each step leaves less work than it found, so that replayed
\* refreshes, lists refetched for an event, run views refreshed after them and
\* inventories acquired for a dead end never keep one another going.
LightInv == Light(b)
THEOREM WorkRunsOutCorrect ==
  Spec => WorkRunsOut
<1>1. ClientInv /\ LightInv /\ [Next]_vars => (ClientInv /\ LightInv)'
  <2> SUFFICES ASSUME ClientInv, LightInv, [Next]_vars PROVE ClientInv' /\ LightInv'
    OBVIOUS
  <2>1. ClientInv' /\ Light(b')
    BY NextInv DEF Held, Drains, LightInv
  <2>2. LightInv'
    BY <2>1 DEF LightInv, Light, ResolveAsked, ResolveWaits
  <2> QED BY <2>1, <2>2
<1>2. ClientInv /\ LightInv /\ [Next]_vars => [budget' = budget /\ b'.stream = b.stream => Work' < Work]_vars
  BY NextInv DEF Held, Drains, LightInv
<1>3. Init => ClientInv /\ LightInv
  BY InitInv DEF LightInv
<1> QED BY <1>1, <1>2, <1>3, PTL DEF Spec, WorkRunsOut
=============================================================================
