------------------------- MODULE MonitorToldProofs -------------------------
(***************************************************************************)
(* Proofs about what the monitor client shows of what it was told: a       *)
(* change that an event announced is on the screen of a client at rest, or *)
(* the screen says that its source is stale.  And about the manual, which  *)
(* opens and closes over that view and leaves it what it was.              *)
(***************************************************************************)
EXTENDS MonitorSnapshotProofs

-----------------------------------------------------------------------------
(***************************************************************************)
(* What is asked for since it was told; T has the version told of each     *)
(* source.                                                                 *)
(***************************************************************************)
\* A list that will be used is of a version that was told, and one that is held
\* is too, or is known to be stale, or is read again.
ListsTold(s, T) ==
    /\ \A q \in s.reqs : q.kind = "list" /\ q.fresh /\ q.ans # None => q.ans.ver >= T[q.ws]
    /\ Set => \A w \in Workspaces :
         s.snap[w].list # None => s.snap[w].list >= T[w] \/ s.snap[w].listErr \/ Fetched(s, w)

\* A refresh of the address is to come, or its projection is asked for.
Pursued(s) == s.again \/ DeepWait(s)
Asking(s) == \E q \in s.reqs : q.kind = "detail" /\ q.fresh

\* So it is with the projection of the address, as long as it is the one that
\* the client works for.
AnswersTold(s, T) ==
    \A q \in s.reqs : q.kind = "detail" /\ q.fresh /\ q.ans # None /\ s.routed = Subject(s.hash) =>
        q.ans.ver >= T[q.ws]
DetailTold(s, T) ==
    s.detail # None /\ At(s) = s.routed /\ s.routed = Subject(s.hash) =>
        \/ s.detail.ver >= T[s.detail.ws]
        \/ Asking(s)
        \/ Set /\ s.snap[s.detail.ws].detailErr
RunTold(s, T) == Pursued(s) \/ (AnswersTold(s, T) /\ DetailTold(s, T))

\* The overview has every list, or knows that it failed, or waits for it.
Surveyed(s) ==
    s.hash.view = "workspaces" /\ ~Moved(s) =>
        s.again \/ \A w \in Workspaces : s.snap[w].list # None \/ s.snap[w].listErr \/ Fetched(s, w)

\* An answer of a run or of the run list that will be used is of what the
\* client works for.
Routes(s) ==
    \A q \in s.reqs : q.fresh /\ q.kind \in {"detail", "runs"} => <<q.ws, q.run>> = s.routed

Tells(s, T) == ListsTold(s, T) /\ RunTold(s, T) /\ Surveyed(s) /\ Routes(s)

-----------------------------------------------------------------------------
(***************************************************************************)
(* What keeps it so.                                                       *)
(***************************************************************************)
LEMMA RelistsTold ==
  ASSUME NEW s, NEW t, Relists(s, t), NEW T, ListsTold(s, T)
  PROVE  ListsTold(t, T)
<1>1. ASSUME NEW q \in t.reqs, q.kind = "list", q.fresh, q.ans # None PROVE q.ans.ver >= T[q.ws]
  <2>1. PICK p \in s.reqs : p.kind = q.kind /\ p.ws = q.ws /\ p.ans = q.ans /\ p.fresh
    BY <1>1 DEF Relists, Carried
  <2> QED BY <1>1, <2>1 DEF ListsTold
<1>2. ASSUME Set, NEW w \in Workspaces, t.snap[w].list # None
      PROVE  t.snap[w].list >= T[w] \/ t.snap[w].listErr \/ Fetched(t, w)
  BY <1>2 DEF Relists, Coming, ListsTold
<1> QED BY <1>1, <1>2 DEF ListsTold

LEMMA PassesStay ==
  ASSUME NEW s, NEW t, Passes(s, t)
  PROVE  Relists(s, t) /\ t.hash = s.hash /\ (Moved(t) <=> Moved(s))
<1>1. Relists(s, t)
  BY PassesRelists
<1> QED BY <1>1 DEF Passes, Sheds, Lasts, SameAddress, Moved

LEMMA RelistsSurveyed ==
  ASSUME NEW s, NEW t, Relists(s, t), t.hash = s.hash, Moved(t) <=> Moved(s),
         s.again => t.again, Surveyed(s)
  PROVE  Surveyed(t)
BY DEF Relists, Coming, Surveyed

\* The requests of a run, or of the run list, are those the refresh awaits.
LEMMA RunRequests ==
  ASSUME NEW s, Client(s), NEW t, Client(t), AwaitedIn(t) = AwaitedIn(s), NEW q,
         q.kind \in {"detail", "runs"}
  PROVE  q \in t.reqs <=> q \in s.reqs
<1>1. /\ s.reqs \subseteq RequestRecord /\ s.waits \subseteq WaitRecord
      /\ t.reqs \subseteq RequestRecord /\ t.waits \subseteq WaitRecord
  BY DEF Client, Browser
<1>2. ASSUME NEW u, NEW v, u.reqs \subseteq RequestRecord, v.waits \subseteq WaitRecord, AwaitedIn(u) = AwaitedIn(v), q \in u.reqs
      PROVE  q \in v.reqs
  <2>1. q \in AwaitedIn(v)
    BY <1>2 DEF AwaitedIn
  <2>2. \A x \in v.waits : q # x
    BY <1>2, KindsApart
  <2> QED BY <2>1, <2>2 DEF AwaitedIn
<1> QED BY <1>1, <1>2

\* A step that asks for no other run, and keeps what is held.
LEMMA PassesTells ==
  ASSUME NEW s, Client(s), NEW t, Passes(s, t), Gains(s, t), NEW T, Tells(s, T)
  PROVE  Tells(t, T)
<1>1. /\ Client(t) /\ Relists(s, t) /\ (Moved(t) <=> Moved(s)) /\ (DeepWait(s) => DeepWait(t))
      /\ t.hash = s.hash /\ t.routed = s.routed /\ t.again = s.again
      /\ t.snap = s.snap /\ t.detail \in {None, s.detail}
  BY PassesStay DEF Passes, Gains, SameRest, Sheds, Lasts, Coming
<1>2. \A q : q.kind \in {"detail", "runs"} => (q \in t.reqs <=> q \in s.reqs)
  BY <1>1, RunRequests DEF Gains
<1>3. ListsTold(t, T)
  BY <1>1, RelistsTold DEF Tells
<1>4. Surveyed(t)
  BY <1>1, RelistsSurveyed DEF Tells
<1>5. Routes(t)
  BY <1>1, <1>2 DEF Tells, Routes
<1>6. RunTold(t, T)
  <2>1. Asking(s) => Asking(t)
    BY <1>2 DEF Asking
  <2>2. AnswersTold(s, T) => AnswersTold(t, T)
    BY <1>1, <1>2 DEF AnswersTold
  <2>3. DetailTold(s, T) => DetailTold(t, T)
    BY <1>1, <2>1 DEF DetailTold, At
  <2> QED BY <1>1, <2>2, <2>3 DEF Tells, RunTold, Pursued
<1> QED BY <1>3, <1>4, <1>5, <1>6 DEF Tells

\* A refresh asks for what the address shows.
LEMMA RenewedTells ==
  ASSUME NEW s, Client(s), NEW t, Passes(s, t), Renewed(s, t), NEW T, ListsTold(s, T)
  PROVE  Tells(t, T)
<1>1. /\ Client(t) /\ Relists(s, t) /\ t.hash = s.hash /\ t.routed = Subject(t.hash)
  BY PassesStay DEF Passes, Sheds, Lasts, SameAddress, Renewed
<1>2. ListsTold(t, T)
  BY <1>1, RelistsTold
<1>3. Surveyed(t)
  BY <1>1 DEF Renewed, Surveyed
<1>4. Routes(t)
  BY <1>1 DEF Renewed, Routes
<1>5. AnswersTold(t, T)
  BY DEF Renewed, AnswersTold
<1>6. ASSUME t.detail # None, At(t) = Subject(t.hash) PROVE Asking(t)
  <2>1. t.detail.run \in Runs /\ t.detail.run = t.hash.run
    <3>1. t.detail.run \in Runs
      BY <1>1, <1>6 DEF Client, Browser, DetailType, Maybe
    <3> QED BY <1>6, <3>1 DEF At, Subject
  <2>2. Deep(t.hash)
    BY <1>1, <2>1, ClientAssumption DEF Client, AddressFits, WellFormed, Deep
  <2> QED BY <1>1, <2>2 DEF Renewed, Asking
<1>7. DetailTold(t, T)
  BY <1>1, <1>6 DEF DetailTold
<1> QED BY <1>2, <1>3, <1>4, <1>5, <1>7 DEF Tells, RunTold

\* The cause that shares a refresh is remembered.
LEMMA AgainTells ==
  ASSUME NEW s, NEW t, t = [s EXCEPT !.again = TRUE], Client(s), NEW T, ListsTold(s, T), Routes(s)
  PROVE  Tells(t, T)
<1>1. /\ t.reqs = s.reqs /\ t.waits = s.waits /\ t.snap = s.snap /\ t.again = TRUE
      /\ t.routed = s.routed /\ t.hash = s.hash
  BY DEF Client, Browser
<1> QED BY <1>1 DEF Tells, ListsTold, RunTold, Pursued, Surveyed, Routes, Fetched

LEMMA SingleFlightTells ==
  ASSUME NEW s, Client(s), Net(s), mode \in Modes, NEW T, ListsTold(s, T), Routes(s)
  PROVE  Tells(RefreshSingleFlight(s), T)
<1>1. CASE s.flight
  BY <1>1, AgainTells DEF RefreshSingleFlight
<1>2. CASE ~s.flight
  <2>1. LET t == RefreshSingleFlight(s) IN Passes(s, t) /\ Renewed(s, t)
    BY <1>2, SingleFlightPasses
  <2> QED BY <2>1, RenewedTells
<1> QED BY <1>1, <1>2

LEMMA LandedTells ==
  ASSUME NEW s, Client(s), Net(s), mode \in Modes, NEW T, ListsTold(s, T),
         s.again \/ Tells(s, T)
  PROVE  Tells(Landed(s), T)
<1>1. CASE s.again
  <2>1. LET t == Landed(s) IN Passes(s, t) /\ Renewed(s, t)
    BY <1>1, LandedPasses
  <2> QED BY <2>1, RenewedTells
<1>2. CASE ~s.again
  <2> DEFINE t == Landed(s)
  <2>1. /\ t.reqs = s.reqs /\ t.waits = s.waits /\ t.snap = s.snap /\ t.again = s.again
        /\ t.routed = s.routed /\ t.hash = s.hash /\ t.detail = s.detail
        /\ t.pending = s.pending /\ t.base = s.base
    BY <1>2 DEF Landed, Client, Browser
  <2> HIDE DEF t
  <2>2. Tells(t, T)
    BY <1>2, <2>1 DEF Tells, ListsTold, RunTold, Pursued, Surveyed, Routes, Fetched, DeepWait, Moved,
                      AnswersTold, DetailTold, Asking, At
  <2> QED BY <2>2 DEF t
<1> QED BY <1>1, <1>2

-----------------------------------------------------------------------------
(***************************************************************************)
(* Answers.                                                                *)
(***************************************************************************)
\* The answer of the refresh in flight leaves none awaited.
LEMMA AnsweredTells ==
  ASSUME NEW s, NEW z, Relists(s, z), SameRest(s, z), NEW T, Tells(s, T),
         \A p \in z.reqs : p.kind \notin {"detail", "runs"},
         AnswersTold(s, T) /\ DetailTold(s, T) => DetailTold(z, T)
  PROVE  Tells(z, T)
<1>1. z.hash = s.hash /\ (Moved(z) <=> Moved(s)) /\ z.again = s.again
  BY DEF SameRest, Moved
<1>2. ListsTold(z, T) /\ Surveyed(z)
  BY <1>1, RelistsTold, RelistsSurveyed DEF Tells
<1>3. Routes(z) /\ AnswersTold(z, T)
  BY DEF Routes, AnswersTold
<1>4. Pursued(s) => Pursued(z)
  BY <1>1 DEF Pursued, Relists, Coming
<1> QED BY <1>2, <1>3, <1>4 DEF Tells, RunTold

\* What has been painted of the answer q awaits nothing more.
LEMMA AloneEnds ==
  ASSUME NEW s, Client(s), Net(s), NEW q, Alone(s, q), NEW z, Gains(Without(s, q), z)
  PROVE  SameRest(s, z) /\ \A p \in z.reqs : p.kind \notin {"detail", "runs"}
<1> DEFINE v == Without(s, q)
<1>1. /\ Client(v) /\ SameRest(s, v) /\ v.reqs = s.reqs \ {q}
  BY TakenFacts DEF Alone
<1> HIDE DEF v
<1>2. \A p \in v.reqs : p.kind \notin {"detail", "runs"}
  BY <1>1 DEF Alone
<1>3. Client(z) /\ SameRest(v, z) /\ AwaitedIn(z) = AwaitedIn(v)
  BY DEF Gains, v
<1>4. \A p : p.kind \in {"detail", "runs"} => (p \in z.reqs <=> p \in v.reqs)
  BY <1>1, <1>3, RunRequests
<1>5. SameRest(s, z)
  BY <1>1, <1>3 DEF SameRest
<1> QED BY <1>2, <1>4, <1>5

LEMMA DetailTells ==
  ASSUME NEW s, Client(s), Net(s), Contents(s), Aimed(s), NEW T, Tells(s, T),
         NEW q, Alone(s, q), q.kind = "detail"
  PROVE  LET v == Without(s, q)
             z == IF Set THEN SetDetailArrives(v, q) ELSE SingleDetailArrives(v, q) IN
         Client(z) /\ Net(z) /\ Tells(z, T)
<1> DEFINE v == Without(s, q)
           z == IF Set THEN SetDetailArrives(v, q) ELSE SingleDetailArrives(v, q)
<1>0. SUFFICES Client(z) /\ Net(z) /\ Tells(z, T)
  OBVIOUS
<1>1. q \in RequestRecord /\ RequestOK(q) /\ q.ans # None /\ q \in s.reqs /\ q.fresh
  BY DEF Alone, Client, Browser, Net
<1>2. Client(v) /\ Net(v)
  BY <1>1, TakenFacts
<1>3. Client(z) /\ Relists(s, z) /\ Given(q, z)
  BY SetDetailAdvances, SingleDetailAdvances
<1> HIDE DEF v
<1>4. Gains(v, z)
  BY <1>1, <1>2, SetDetailPaints, SingleDetailPaints DEF Paints
<1> HIDE DEF z
<1>5. SameRest(s, z) /\ \A p \in z.reqs : p.kind \notin {"detail", "runs"}
  BY <1>4, AloneEnds DEF v
<1>6. ASSUME AnswersTold(s, T), z.detail # None, At(z) = z.routed, z.routed = Subject(z.hash)
      PROVE  z.detail.ver >= T[z.detail.ws] \/ (Set /\ z.snap[z.detail.ws].detailErr)
  <2>1. z.hash.run # None
    BY <1>3, <1>6, ClientAssumption DEF At, Subject, Client, Browser, DetailType, Maybe
  <2>2. CASE z.detail = Projection(q)
    <3>1. s.routed = Subject(s.hash)
      BY <1>5, <1>6 DEF SameRest
    <3>2. q.ans.ver >= T[q.ws]
      BY <1>1, <1>6, <3>1 DEF AnswersTold
    <3> QED BY <2>2, <3>2 DEF Projection
  <2> QED BY <1>3, <1>6, <2>1, <2>2 DEF Given
<1>7. AnswersTold(s, T) => DetailTold(z, T)
  BY <1>6 DEF DetailTold
<1>8. Tells(z, T)
  BY <1>3, <1>5, <1>7, AnsweredTells
<1> QED BY <1>3, <1>4, <1>8 DEF Gains

LEMMA RunsRelists ==
  ASSUME NEW s, Client(s), Net(s), NEW q, Alone(s, q), q.kind = "runs"
  PROVE  Relists(s, RunsArrives(Without(s, q), q))
<1> DEFINE v == Without(s, q)
           t == [v EXCEPT !.list = q.ans.ver, !.detail = None, !.detailId = None, !.conflict = FALSE]
           z == RunsArrives(v, q)
           out == q.ans.out
<1>0. SUFFICES Relists(s, z)
  OBVIOUS
<1>1. q \in s.reqs /\ q \in RequestRecord
  BY DEF Alone, Client, Browser
<1>2. q.ans.ver \in VerOrNone
  BY <1>1 DEF RequestRecord, AnswerRecord, Maybe, Alone, VerOrNone
<1>3. /\ Client(v) /\ Net(v) /\ Sheds(s, v) /\ Carried(s, v) /\ v.reqs = s.reqs \ {q} /\ v.waits = s.waits
  BY <1>1, TakenPasses
<1>4. Relists(s, v)
  <2>1. Coming(s, v)
    BY <1>3 DEF Coming, Fetched, DeepWait, Alone
  <2> QED BY <1>3, <2>1 DEF Relists, Sheds, Lasts
<1> HIDE DEF v
<1>5. CASE out \in FetchFailures
  <2>1. z = RenderProjectionFailure(v, out) /\ out \in Failures
    BY <1>5 DEF RunsArrives, Failures
  <2>2. Free(v)
    BY <1>3 DEF Alone, Free
  <2> HIDE DEF z, out
  <2>3. Passes(v, z)
    BY <1>3, <2>1, <2>2, FailurePasses
  <2> QED BY <1>4, <2>3, PassesRelists, RelistsTwice
<1>6. CASE out \notin FetchFailures
  <2>1. z = RenderCurrentGuarded(t)
    BY <1>6 DEF RunsArrives
  <2>2. Client(t) /\ t.reqs = v.reqs /\ t.waits = v.waits /\ t.snap = v.snap
    <3>1. None \in DetailType /\ None \in Maybe(Runs)
      BY DEF DetailType, Maybe
    <3> QED BY <1>2, <1>3, <3>1 DEF Client, Browser
  <2> HIDE DEF t, z
  <2>3. Net(t)
    BY <1>3, <2>2 DEF Net, Listed
  <2>4. Relists(v, t)
    <3>1. Carried(v, t)
      BY <2>2, CarriedSome
    <3> QED BY <2>2, <3>1 DEF Relists, Coming, Fetched, DeepWait
  <2>5. Passes(t, z)
    BY <2>1, <2>2, <2>3, GuardedPasses
  <2> QED BY <1>4, <2>4, <2>5, PassesRelists, RelistsTwice
<1> QED BY <1>5, <1>6

LEMMA RunsTells ==
  ASSUME NEW s, Client(s), Net(s), Contents(s), NEW T, Tells(s, T),
         NEW q, Alone(s, q), q.kind = "runs"
  PROVE  LET z == RunsArrives(Without(s, q), q) IN Client(z) /\ Net(z) /\ Tells(z, T)
<1> DEFINE v == Without(s, q)
           z == RunsArrives(v, q)
<1>0. SUFFICES Client(z) /\ Net(z) /\ Tells(z, T)
  OBVIOUS
<1>1. q \in RequestRecord /\ RequestOK(q) /\ q.ans # None /\ q \in s.reqs /\ q.fresh
  BY DEF Alone, Client, Browser, Net
<1>2. Client(v) /\ Net(v)
  BY <1>1, TakenFacts
<1>3. Relists(s, z)
  BY RunsRelists
<1> HIDE DEF v
<1>4. Gains(v, z)
  BY <1>1, <1>2, RunsPaints DEF Paints
<1> HIDE DEF z
<1>5. SameRest(s, z) /\ \A p \in z.reqs : p.kind \notin {"detail", "runs"}
  BY <1>4, AloneEnds DEF v
\* Nothing can be in hand of a run: the client works for the run list.
<1>6. DetailTold(z, T)
  <2>1. s.routed = <<None, None>>
    BY <1>1 DEF Tells, Routes, RequestOK
  <2>2. z.detail # None => At(z)[2] # None
    BY <1>4, ClientAssumption DEF Gains, Client, Browser, DetailType, Maybe, At
  <2> QED BY <1>5, <2>1, <2>2 DEF DetailTold, SameRest
<1>7. Tells(z, T)
  BY <1>3, <1>5, <1>6, AnsweredTells
<1> QED BY <1>4, <1>7 DEF Gains

\* The answer of a run, or of the run list, that arrives.
LEMMA RunAnswerTells ==
  ASSUME NEW s, BrowserInv(s), Contents(s), NEW T, Tells(s, T), mode \in Modes,
         NEW q \in s.reqs, q.ans # None, q.kind \in {"detail", "runs"}
  PROVE  Tells(Arrives(s, q), T)
<1> DEFINE p == Without(s, q)
           z == Arrives(s, q)
<1>0. SUFFICES Tells(z, T)
  OBVIOUS
<1>1. Client(s) /\ Net(s) /\ Aimed(s) /\ Client(p) /\ Net(p) /\ SameRest(s, p)
  BY TakenFacts DEF BrowserInv
<1>2. \A k \in s.reqs : k.kind \in {"detail", "runs"} => k = q
  BY DEF BrowserInv, Flying, AwaitedIn
<1>3. ASSUME NEW v, Client(v), Net(v), v.again \/ Tells(v, T), ListsTold(v, T), z = Landed(v) PROVE Tells(z, T)
  <2> HIDE DEF z
  <2> QED BY <1>3, LandedTells
<1>4. CASE ~q.fresh
  <2>1. z = Landed(p)
    BY <1>4 DEF Arrives, Without
  <2>2. s.again /\ p.again
    BY <1>1, <1>4 DEF BrowserInv, Flying, AwaitedIn, SameRest
  <2>3. ListsTold(p, T)
    <3>1. p.reqs = s.reqs \ {q} /\ Sheds(s, p)
      BY <1>1, TakenPasses
    <3> HIDE DEF p
    <3> QED BY <3>1 DEF Tells, ListsTold, Sheds, Fetched
  <2> HIDE DEF z, p
  <2> QED BY <1>1, <1>3, <2>1, <2>2, <2>3
<1>5. CASE q.fresh
  <2>1. Alone(s, q)
    BY <1>2, <1>5 DEF Alone
  <2>2. CASE q.kind = "runs"
    <3> DEFINE v == RunsArrives(p, q)
    <3>1. z = Landed(v)
      BY <1>5, <2>2 DEF Arrives, Without
    <3>2. Client(v) /\ Net(v) /\ Tells(v, T)
      BY <1>1, <2>1, <2>2, RunsTells
    <3> HIDE DEF v, z, p
    <3> QED BY <1>3, <3>1, <3>2 DEF Tells
  <2>3. CASE q.kind = "detail"
    <3> DEFINE v == IF Set THEN SetDetailArrives(p, q) ELSE SingleDetailArrives(p, q)
    <3>1. z = Landed(v)
      BY <1>5, <2>3 DEF Arrives, Without
    <3>2. Client(v) /\ Net(v) /\ Tells(v, T)
      BY <1>1, <2>1, <2>3, DetailTells
    <3> HIDE DEF v, z, p
    <3> QED BY <1>3, <3>1, <3>2 DEF Tells
  <2> QED BY <2>2, <2>3
<1> QED BY <1>4, <1>5

\* The inventory of single mode that was acquired for a dead end.
LEMMA ResolveTells ==
  ASSUME NEW s, Client(s), Net(s), Light(s), NEW T, Tells(s, T),
         NEW q \in s.reqs, q.ans # None, q.kind = "resolve"
  PROVE  Tells(Arrives(s, q), T)
<1> DEFINE v == Without(s, q)
           t == IF q.fresh /\ q.ans.out = "ok" THEN [v EXCEPT !.list = q.ans.ver] ELSE v
           z == Arrives(s, q)
<1>0. SUFFICES Tells(z, T)
  OBVIOUS
<1>1. q.ans.ver \in VerOrNone
  BY DEF Client, Browser, RequestRecord, AnswerRecord, Maybe, VerOrNone
<1>2. z = Resolved(t, q.run)
  BY DEF Arrives, Without
<1>3. /\ Client(v) /\ Net(v) /\ v.reqs = s.reqs \ {q} /\ v.waits = s.waits /\ v.resBusy = s.resBusy
      /\ SameRest(s, v) /\ v.snap = s.snap /\ v.detail = s.detail
  BY TakenFacts, TakenPasses DEF SameHeld
<1> HIDE DEF v, z
<1>4. /\ Client(t) /\ t.reqs = v.reqs /\ t.waits = v.waits /\ t.resBusy = v.resBusy
      /\ SameRest(v, t) /\ t.snap = v.snap /\ t.detail = v.detail
  BY <1>1, <1>3 DEF Client, Browser, SameRest
<1> HIDE DEF t
<1>5. Net(t) /\ Free(t)
  <2>1. s.resBusy
    BY DEF Light, ResolveAsked
  <2> QED BY <1>3, <1>4, <2>1 DEF Net, Listed, Free
<1>6. Tells(t, T)
  <2>1. /\ t.hash = s.hash /\ t.routed = s.routed /\ t.again = s.again /\ (Moved(t) <=> Moved(s))
        /\ t.waits = s.waits /\ t.snap = s.snap /\ t.detail = s.detail /\ t.reqs = s.reqs \ {q}
    BY <1>3, <1>4 DEF SameRest, Moved
  <2>2. Asking(s) => Asking(t)
    BY <2>1 DEF Asking
  <2>3. \A w : Fetched(s, w) => Fetched(t, w)
    BY <2>1 DEF Fetched
  <2>4. ListsTold(t, T)
    BY <2>1, <2>3 DEF Tells, ListsTold
  <2>5. Surveyed(t) /\ Routes(t)
    BY <2>1, <2>3 DEF Tells, Surveyed, Routes
  <2>6. RunTold(t, T)
    BY <2>1, <2>2 DEF Tells, RunTold, Pursued, DeepWait, AnswersTold, DetailTold, At
  <2> QED BY <2>4, <2>5, <2>6 DEF Tells
<1>7. Passes(t, z) /\ Gains(t, z)
  BY <1>2, <1>4, <1>5, ResolvedPasses, ResolvedKeeps DEF Keeps
<1> QED BY <1>4, <1>6, <1>7, PassesTells

-----------------------------------------------------------------------------
(***************************************************************************)
(* Lists.                                                                  *)
(***************************************************************************)
\* All of Tells but what it says of the run, and what it says of that.
Shelved(s, T) == ListsTold(s, T) /\ Surveyed(s) /\ Routes(s)
Told(s, T) == AnswersTold(s, T) /\ DetailTold(s, T)

\* A list is committed: it was told, or is known to be stale.
LEMMA CommittedTells ==
  ASSUME NEW s, Client(s), Net(s), NEW T, Tells(s, T), NEW q \in s.reqs, q.ans # None, q.kind = "list",
         NEW t, Client(t), SameRest(s, t), t.reqs = s.reqs \ {q}, Stored(s, q, t)
  PROVE  Shelved(t, T) /\ (Told(s, T) => Told(t, T))
<1>1. q \in RequestRecord /\ RequestOK(q) /\ q.ws \in Workspaces
  BY DEF Client, Browser, Net, RequestOK
<1>2. q.ans.ver # None /\ q.ans.out \in {"ok", "failed"}
  BY <1>1, ClientAssumption DEF RequestRecord, AnswerRecord, Maybe, RequestOK, Versions
<1>3. /\ t.hash = s.hash /\ t.routed = s.routed /\ t.again = s.again /\ (Moved(t) <=> Moved(s))
  BY DEF SameRest, Moved
<1>4. ASSUME NEW w, Fetched(s, w), ~(q.fresh /\ w = q.ws) PROVE Fetched(t, w)
  BY <1>4 DEF Fetched
<1>5. ASSUME NEW w \in Workspaces, q.fresh /\ w = q.ws
      PROVE  t.snap[w].listErr \/ (t.snap[w].list # None /\ t.snap[w].list >= T[w])
  BY <1>2, <1>5 DEF Stored, Tells, ListsTold
<1>6. ASSUME NEW w \in Workspaces, ~(q.fresh /\ w = q.ws)
      PROVE  t.snap[w].list = s.snap[w].list /\ (t.snap[w].listErr <=> s.snap[w].listErr)
  BY <1>6 DEF Stored
<1>7. ListsTold(t, T)
  <2>1. ASSUME NEW w \in Workspaces, t.snap[w].list # None, Set
        PROVE  t.snap[w].list >= T[w] \/ t.snap[w].listErr \/ Fetched(t, w)
    <3>1. CASE q.fresh /\ w = q.ws
      BY <1>5, <3>1
    <3>2. CASE ~(q.fresh /\ w = q.ws)
      BY <1>4, <1>6, <2>1, <3>2 DEF Tells, ListsTold
    <3> QED BY <3>1, <3>2
  <2> QED BY <2>1 DEF Tells, ListsTold
<1>8. Surveyed(t)
  <2>1. ASSUME s.hash.view = "workspaces" /\ ~Moved(s), ~s.again, NEW w \in Workspaces
        PROVE  t.snap[w].list # None \/ t.snap[w].listErr \/ Fetched(t, w)
    <3>1. s.snap[w].list # None \/ s.snap[w].listErr \/ Fetched(s, w)
      BY <2>1 DEF Tells, Surveyed
    <3> QED BY <1>4, <1>5, <1>6, <3>1
  <2> QED BY <1>3, <2>1 DEF Surveyed
<1>9. Routes(t)
  BY <1>3 DEF Tells, Routes
<1>10. AnswersTold(s, T) => AnswersTold(t, T)
  BY <1>3 DEF AnswersTold
<1>11. ASSUME DetailTold(s, T) PROVE DetailTold(t, T)
  <2>1. Asking(s) => Asking(t)
    BY DEF Asking
  <2>2. t.detail \in {None, s.detail} /\ \A w \in Workspaces : t.snap[w].detailErr = s.snap[w].detailErr
    BY DEF Stored
  <2>3. ASSUME Set, t.detail # None, At(t) = t.routed, t.routed = Subject(t.hash)
        PROVE  t.detail.ws \in Workspaces
    <3>1. t.detail.ws = t.hash.ws /\ t.detail.run = t.hash.run
      BY <2>3 DEF At, Subject
    <3>2. t.detail.run # None
      BY <2>3, ClientAssumption DEF Client, Browser, DetailType, Maybe
    <3>3. t.hash.ws # None
      BY <2>3, <3>1, <3>2, ClientAssumption DEF Client, AddressFits, WellFormed
    <3> QED BY <3>1, <3>3 DEF Client, Browser, AddressType, All
  <2> QED BY <1>3, <1>11, <2>1, <2>2, <2>3 DEF DetailTold, At
<1> QED BY <1>7, <1>8, <1>9, <1>10, <1>11 DEF Shelved, Told

\* A callback that waited for the last of its lists is gone, perhaps.
LEMMA UnwaitedTells ==
  ASSUME NEW t, Client(t), NEW T, Shelved(t, T), NEW one, NEW u, u = Unwaited(t, one)
  PROVE  /\ Shelved(u, T) /\ (Told(t, T) => Told(u, T)) /\ u.again = t.again
         /\ DeepWait(t) => DeepWait(u) \/ \E x \in LastWaits(t, one) : x.then = "deep"
<1>1. /\ u.reqs = t.reqs /\ u.snap = t.snap /\ u.detail = t.detail /\ u.again = t.again
      /\ u.hash = t.hash /\ u.routed = t.routed /\ u.pending = t.pending /\ u.base = t.base
      /\ u.waits = {[x EXCEPT !.on = @ \ {one}] : x \in t.waits \ LastWaits(t, one)}
  BY DEF Unwaited, Client, Browser
<1>2. Shelved(u, T)
  BY <1>1 DEF Shelved, ListsTold, Surveyed, Routes, Fetched, Moved
<1>3. Told(t, T) => Told(u, T)
  BY <1>1 DEF Told, AnswersTold, DetailTold, Asking, At
<1>4. ASSUME NEW x \in t.waits, x.then = "deep", x \notin LastWaits(t, one) PROVE DeepWait(u)
  <2>1. PICK y : y = [x EXCEPT !.on = @ \ {one}]
    OBVIOUS
  <2>2. y \in u.waits
    BY <1>1, <1>4, <2>1
  <2>3. y.then = "deep"
    BY <1>4, <2>1 DEF Client, Browser, WaitRecord
  <2> QED BY <2>2, <2>3 DEF DeepWait
<1> QED BY <1>1, <1>2, <1>3, <1>4 DEF DeepWait

\* What the callback starts then.
LEMMA ReleasedTells ==
  ASSUME NEW u, Client(u), Net(u), Set, mode \in Modes, NEW x \in WaitRecord, NEW T, Shelved(u, T),
         x.then = "deep" \/ Tells(u, T)
  PROVE  Tells(Released(u, x), T)
<1> DEFINE z == Released(u, x)
<1>0. SUFFICES Tells(z, T)
  OBVIOUS
<1>1. x.then \in {"land", "overview", "deep", "resolve", "nothing"}
  BY DEF WaitRecord
<1>2. CASE x.then = "deep"
  <2>1. z = RefreshSingleFlight(u)
    BY <1>2 DEF Released
  <2> HIDE DEF z
  <2> QED BY <2>1, SingleFlightTells DEF Shelved
<1>3. CASE x.then = "land" \/ (x.then = "overview" /\ ~x.fresh)
  <2>1. z = Landed(u)
    BY <1>3 DEF Released
  <2> HIDE DEF z
  <2> QED BY <1>3, <2>1, LandedTells DEF Shelved
<1>4. CASE x.then = "overview" /\ x.fresh
  <2> DEFINE y == RenderWorkspaceOverview(u)
  <2>1. z = Landed(y)
    BY <1>4 DEF Released
  <2>2. Pure(u, y)
    BY OverviewShown
  <2> HIDE DEF y, z
  <2>3. Client(y) /\ Net(y) /\ Passes(u, y) /\ Gains(u, y)
    BY <2>2, PurePasses, SameNetGains DEF Pure, SameNet, Net, Listed
  <2>4. Tells(y, T)
    BY <1>4, <2>3, PassesTells
  <2> QED BY <2>1, <2>3, <2>4, LandedTells DEF Tells
<1>5. CASE x.then = "resolve"
  <2>1. z = Resolved(u, x.run)
    BY <1>5 DEF Released
  <2>2. Passes(u, z) /\ Gains(u, z)
    BY <2>1, ResolvedPasses, ResolvedKeeps DEF Free, Keeps
  <2> HIDE DEF z
  <2> QED BY <1>5, <2>2, PassesTells
<1>6. CASE x.then = "nothing"
  BY <1>6 DEF Released
<1> QED BY <1>1, <1>2, <1>3, <1>4, <1>5, <1>6

LEMMA ListTells ==
  ASSUME NEW s, BrowserInv(s), Contents(s), NEW T, Tells(s, T), mode \in Modes,
         NEW q \in s.reqs, q.ans # None, q.kind = "list"
  PROVE  Tells(Arrives(s, q), T)
<1> DEFINE p == Without(s, q)
           one == <<q.ws, q.id>>
           t == ListCommitted(p, q)
           last == LastWaits(t, one)
           u == Unwaited(t, one)
           z == Arrives(s, q)
<1>0. SUFFICES Tells(z, T)
  OBVIOUS
<1>1. Client(s) /\ Net(s) /\ q \in RequestRecord /\ RequestOK(q) /\ Set
  BY DEF BrowserInv, Client, Browser, Net, RequestOK
<1>2. q.ws \in Workspaces /\ q.ans.ver \in Versions /\ q.ans.out \in {"ok", "failed"}
  BY <1>1 DEF RequestOK, RequestRecord, AnswerRecord, Maybe
<1>3. /\ Client(p) /\ SameRest(s, p) /\ p.reqs = s.reqs \ {q} /\ p.waits = s.waits
  BY <1>1, TakenFacts
<1>4. z = IF last = {} THEN u ELSE Released(u, CHOOSE x \in last : TRUE)
  BY DEF Arrives, ListArrives, Without, LastWaits, Unwaited
<1>5. Committed(p, q, t)
  <2> HIDE DEF p
  <2> QED BY <1>2, <1>3, CommittedFacts
<1>6. Client(t) /\ Stored(s, q, t)
  BY <1>1, CommittedAdvances
<1>7. Taken(s, u, last)
  <2>1. Committed(Without(s, q), q, t)
    BY <1>5
  <2> HIDE DEF p, t
  <2> QED BY <2>1, ListTaken
<1> HIDE DEF p, t, z
<1>8. SameRest(s, t) /\ t.reqs = s.reqs \ {q} /\ t.waits = s.waits
  BY <1>3, <1>5 DEF Committed, SameRest, SameNet
<1>9. Shelved(t, T) /\ (Told(s, T) => Told(t, T))
  BY <1>1, <1>6, <1>8, CommittedTells
<1>10. /\ Shelved(u, T) /\ (Told(s, T) => Told(u, T)) /\ u.again = s.again
       /\ DeepWait(s) => DeepWait(u) \/ \E x \in last : x.then = "deep"
  <2>1. DeepWait(s) <=> DeepWait(t)
    BY <1>8 DEF DeepWait
  <2>2. t.again = s.again
    BY <1>8 DEF SameRest
  <2> QED BY <1>6, <1>9, <2>1, <2>2, UnwaitedTells
<1> HIDE DEF u, last
<1>11. Tells(u, T) \/ \E x \in last : x.then = "deep"
  BY <1>10 DEF Tells, RunTold, Pursued, Shelved, Told
<1>12. CASE last = {}
  BY <1>4, <1>11, <1>12
<1>13. CASE last # {}
  <2>1. PICK x : x = CHOOSE y \in last : TRUE
    OBVIOUS
  <2>2. x \in last /\ x \in s.waits /\ x \in WaitRecord /\ \A y \in last : y = x
    BY <1>1, <1>7, <1>13, <2>1 DEF Taken, Client, Browser
  <2>3. z = Released(u, x)
    BY <1>4, <1>13, <2>1
  <2>4. x.then = "deep" \/ Tells(u, T)
    BY <1>11, <2>2
  <2>5. Client(u) /\ Net(u)
    BY <1>7 DEF Taken
  <2> QED BY <1>1, <1>10, <2>2, <2>3, <2>4, <2>5, ReleasedTells
<1> QED BY <1>12, <1>13

-----------------------------------------------------------------------------
(***************************************************************************)
(* Events, the stream, addresses, the start.                               *)
(***************************************************************************)
\* The lists of some sources are asked for, perhaps with a callback to refresh
\* the view of a run.
LEMMA RefetchBrings ==
  ASSUME NEW s, Client(s), Net(s), Set, NEW W \in SUBSET Workspaces, W # {},
         NEW then \in {"deep", "nothing"}
  PROVE  LET t == RefetchWorkspaceList(s, W, then, None) IN
         /\ Carried(s, t) /\ Coming(s, t) /\ SameHeld(s, t) /\ (then = "deep" => DeepWait(t))
         /\ \A w \in W : Fetched(t, w)
         /\ Unanswered(t, W)
<1>1. None \in Maybe(Runs)
  BY DEF Maybe
<1>2. then \in {"land", "overview", "deep", "resolve", "nothing"}
  OBVIOUS
<1> QED BY <1>1, <1>2, RefetchCarries

\* The lists of W are asked for, and the run of one of them is refreshed after
\* them: it does not matter what has been told of these.
LEMMA RefetchTells ==
  ASSUME NEW s, Client(s), Net(s), Contents(s), Set, NEW T, Tells(s, T),
         NEW W \in SUBSET Workspaces, W # {}, NEW then \in {"deep", "nothing"},
         Deep(s.hash) /\ s.hash.ws \in W => then = "deep",
         NEW U, \A w \in Workspaces \ W : U[w] = T[w]
  PROVE  Tells(RefetchWorkspaceList(s, W, then, None), U)
<1> DEFINE z == RefetchWorkspaceList(s, W, then, None)
<1>0. SUFFICES Tells(z, U)
  OBVIOUS
<1>1. Refetched(s, z, W, then)
  BY RefetchFacts DEF Maybe
<1>2. /\ Carried(s, z) /\ Coming(s, z) /\ SameHeld(s, z) /\ (then = "deep" => DeepWait(z))
      /\ \A w \in W : Fetched(z, w)
      /\ Unanswered(z, W)
  BY RefetchBrings
<1> HIDE DEF z
<1>3. /\ z.hash = s.hash /\ z.routed = s.routed /\ z.again = s.again /\ (Moved(z) <=> Moved(s))
      /\ z.snap = s.snap /\ z.detail = s.detail
  BY <1>1, <1>2 DEF Refetched, SameRest, SameHeld, Moved
<1>4. \A q : q.kind # "list" => (q \in z.reqs <=> q \in s.reqs)
  BY <1>1 DEF Refetched
<1>5. ListsTold(z, U)
  <2>1. ASSUME NEW q \in z.reqs, q.kind = "list", q.fresh, q.ans # None PROVE q.ans.ver >= U[q.ws]
    <3>1. PICK p \in s.reqs : p.kind = q.kind /\ p.ws = q.ws /\ p.ans = q.ans /\ p.fresh
      BY <1>2, <2>1 DEF Carried
    <3>2. p.ws \in Workspaces \ W
      BY <1>2, <2>1, <3>1 DEF Net, RequestOK, Unanswered
    <3> QED BY <2>1, <3>1, <3>2 DEF Tells, ListsTold
  <2>2. ASSUME NEW w \in Workspaces, z.snap[w].list # None
        PROVE  z.snap[w].list >= U[w] \/ z.snap[w].listErr \/ Fetched(z, w)
    BY <1>2, <1>3, <2>2 DEF Tells, ListsTold, Coming
  <2> QED BY <2>1, <2>2 DEF ListsTold
<1>6. Surveyed(z)
  BY <1>2, <1>3 DEF Tells, Surveyed, Coming
<1>7. Routes(z)
  BY <1>3, <1>4 DEF Tells, Routes
<1>8. CASE Deep(s.hash) /\ s.hash.ws \in W
  <2>1. RunTold(z, U)
    BY <1>2, <1>8 DEF RunTold, Pursued
  <2> QED BY <1>5, <1>6, <1>7, <2>1 DEF Tells
<1>9. CASE ~(Deep(s.hash) /\ s.hash.ws \in W)
  <2>1. ASSUME NEW w \in Workspaces, NEW run \in Runs, <<w, run>> = s.routed, s.routed = Subject(s.hash)
        PROVE  U[w] = T[w]
    <3>1. w = s.hash.ws /\ s.hash.run \in Runs
      BY <2>1 DEF Subject
    <3>2. Deep(s.hash)
      BY <3>1, ClientAssumption DEF Client, AddressFits, WellFormed, Deep
    <3> QED BY <1>9, <3>1, <3>2
  <2>2. AnswersTold(s, T) => AnswersTold(z, U)
    <3> SUFFICES ASSUME AnswersTold(s, T), NEW q \in z.reqs, q.kind = "detail", q.fresh, q.ans # None,
                        s.routed = Subject(s.hash)
                 PROVE  q.ans.ver >= U[q.ws]
      BY <1>3 DEF AnswersTold
    <3>1. q \in s.reqs /\ q.ws \in Workspaces /\ q.run \in Runs /\ <<q.ws, q.run>> = s.routed
      BY <1>4 DEF Net, RequestOK, Tells, Routes
    <3>2. q.ans.ver >= T[q.ws]
      BY <3>1 DEF AnswersTold
    <3> QED BY <2>1, <3>1, <3>2
  <2>3. DetailTold(s, T) => DetailTold(z, U)
    <3>1. Asking(s) => Asking(z)
      BY <1>4 DEF Asking
    <3>2. s.detail # None => s.detail.ws \in Workspaces
      BY DEF Contents, Mirror
    <3>3. s.detail # None => s.detail.run \in Runs
      BY DEF Client, Browser, DetailType, Maybe
    <3> QED BY <1>3, <2>1, <3>1, <3>2, <3>3 DEF DetailTold, At
  <2>4. Pursued(s) => Pursued(z)
    BY <1>2, <1>3 DEF Pursued, Coming
  <2>5. RunTold(z, U)
    BY <2>2, <2>3, <2>4 DEF Tells, RunTold
  <2> QED BY <1>5, <1>6, <1>7, <2>5 DEF Tells
<1> QED BY <1>8, <1>9

\* An event tells of the source that it names, or of all of them.
LEMMA InvalidationTells ==
  ASSUME NEW s, Client(s), Net(s), Contents(s), mode \in Modes, NEW T, Tells(s, T),
         NEW e, e.seq \in Nat, e.ws \in Sources,
         NEW U, ~Anomalous(s, e) => \A w \in Sources \ {e.ws} : U[w] = T[w]
  PROVE  Tells(HandleInvalidation(s, e), U)
<1> DEFINE t == [s EXCEPT !.lastEventId = IF @ = None \/ e.seq > @ THEN e.seq ELSE @]
           W == IF Anomalous(s, e) THEN Workspaces ELSE {e.ws}
           then == IF Deep(s.hash) /\ s.hash.ws \in W THEN "deep" ELSE "nothing"
           z == HandleInvalidation(s, e)
<1>0. SUFFICES Tells(z, U)
  OBVIOUS
<1>1. z = IF ~Set THEN RefreshSingleFlight(t) ELSE RefetchWorkspaceList(t, W, then, None)
  BY DEF HandleInvalidation
<1>2. Client(t) /\ SameView(s, t) /\ SameHeld(s, t)
  BY DEF Client, Browser, SameView, SameNet, SameScreen, SameHeld, Maybe
<1> HIDE DEF t, z
<1>3. /\ Net(t) /\ Contents(t) /\ Tells(t, T)
  <2>1. Passes(s, t)
    BY <1>2, SameViewPasses
  <2>2. Net(t)
    BY <1>2 DEF SameView, SameNet, Net, Listed
  <2>3. Contents(t)
    BY <2>1, ContentsKept DEF Passes, Sheds
  <2>4. Tells(t, T)
    BY <1>2 DEF SameView, SameNet, SameHeld, Tells, ListsTold, RunTold, Pursued, Surveyed, Routes, Fetched,
                DeepWait, Moved, AnswersTold, DetailTold, Asking, At
  <2> QED BY <2>2, <2>3, <2>4
<1>4. CASE ~Set
  <2>1. ListsTold(t, U)
    BY <1>3, <1>4 DEF ListsTold, Net, RequestOK
  <2>2. Tells(RefreshSingleFlight(t), U)
    BY <1>2, <1>3, <2>1, SingleFlightTells DEF Tells
  <2> QED BY <1>1, <1>4, <2>2
<1>5. CASE Set
  <2>1. W \in SUBSET Workspaces /\ W # {}
    BY <1>5, ClientAssumption DEF Sources, Set
  <2>2. \A w \in Workspaces \ W : U[w] = T[w]
    BY <1>5 DEF Sources, Set
  <2>3. then \in {"deep", "nothing"} /\ (Deep(t.hash) /\ t.hash.ws \in W => then = "deep")
    BY <1>2 DEF SameView
  <2> HIDE DEF W, then
  <2>4. Tells(RefetchWorkspaceList(t, W, then, None), U)
    BY <1>2, <1>3, <1>5, <2>1, <2>2, <2>3, RefetchTells
  <2> QED BY <1>1, <1>5, <2>4
<1> QED BY <1>4, <1>5

\* The stream opens or breaks: at most the address is asked for then.
LEMMA StreamQuiet ==
  ASSUME NEW s, Client(s), Net(s), NEW z \in {StreamOpened(s), StreamFailed(s)}
  PROVE  \E t : /\ Client(t) /\ Net(t) /\ SameView(s, t) /\ SameHeld(s, t)
                /\ z \in {t, RefreshSingleFlight(t)}
<1>1. \A t : SameView(s, t) => Net(t)
  BY DEF SameView, SameNet, Net, Listed
<1>2. CASE z = StreamOpened(s)
  <2> DEFINE u == [s EXCEPT !.stream = "connected"]
             v == [u EXCEPT !.lastEventId = None]
  <2>1. /\ Client(u) /\ SameView(s, u) /\ SameHeld(s, u)
        /\ Client(v) /\ SameView(s, v) /\ SameHeld(s, v)
    BY ZenonT(60) DEF Client, Browser, SameView, SameNet, SameScreen, SameHeld, Maybe
  <2>2. z \in {u, RefreshSingleFlight(v)}
    BY <1>2 DEF StreamOpened
  <2> HIDE DEF u, v
  <2> QED BY <1>1, <2>1, <2>2
<1>3. CASE z = StreamFailed(s)
  <2> DEFINE u == [s EXCEPT !.stream = "down"]
  <2>1. Client(u) /\ SameView(s, u) /\ SameHeld(s, u)
    BY DEF Client, Browser, SameView, SameNet, SameScreen, SameHeld
  <2>2. z \in {u, RefreshSingleFlight(u)}
    BY <1>3 DEF StreamFailed
  <2> HIDE DEF u
  <2> QED BY <1>1, <2>1, <2>2
<1> QED BY <1>2, <1>3

LEMMA StreamTells ==
  ASSUME NEW s, Client(s), Net(s), mode \in Modes, NEW T, Tells(s, T),
         NEW z \in {StreamOpened(s), StreamFailed(s)}
  PROVE  Tells(z, T)
<1>1. PICK t : /\ Client(t) /\ Net(t) /\ SameView(s, t) /\ SameHeld(s, t)
               /\ z \in {t, RefreshSingleFlight(t)}
  BY StreamQuiet
<1>2. Tells(t, T)
  BY <1>1 DEF SameView, SameNet, SameHeld, Tells, ListsTold, RunTold, Pursued, Surveyed, Routes, Fetched,
              DeepWait, Moved, AnswersTold, DetailTold, Asking, At
<1>3. Tells(RefreshSingleFlight(t), T)
  BY <1>1, <1>2, SingleFlightTells DEF Tells
<1> QED BY <1>1, <1>2, <1>3

\* The operator retries a source.
LEMMA RetryTells ==
  ASSUME NEW s, Client(s), Net(s), Set, NEW T, Tells(s, T), NEW w \in Workspaces
  PROVE  Tells(RefetchWorkspaceList(s, {w}, "nothing", None), T)
<1> DEFINE t == RefetchWorkspaceList(s, {w}, "nothing", None)
<1>1. None \in Maybe(Runs) /\ {w} \in SUBSET Workspaces /\ {w} # {}
  BY DEF Maybe
<1>2. Passes(s, t)
  BY <1>1, RefetchPasses
<1>3. Refetched(s, t, {w}, "nothing")
  BY <1>1, RefetchFacts
<1>4. Gains(s, t)
  BY <1>3, RefetchGains
<1> HIDE DEF t
<1>5. Tells(t, T)
  BY <1>2, <1>4, PassesTells
<1> QED BY <1>5 DEF t

\* The operator goes to another address, or moves the pane.
LEMMA GoToTells ==
  ASSUME NEW s, BrowserInv(s), ~s.pending, NEW r, AddressFits(r), NEW T, Tells(s, T)
  PROVE  Tells(GoTo(s, r), T)
<1> DEFINE t == GoTo(s, r)
<1>0. SUFFICES Tells(t, T)
  OBVIOUS
<1>1. /\ Client(s) /\ s.base = UnderlyingKey(s.hash) /\ s.routed = Subject(s.hash)
      /\ s.hash \in AddressType /\ r \in AddressType
  BY DEF BrowserInv, Addressed, Client, Browser, AddressFits, WellFormed, AddressType
<1>2. /\ t.reqs = s.reqs /\ t.waits = s.waits /\ t.snap = s.snap /\ t.detail = s.detail
      /\ t.routed = s.routed /\ t.again = s.again /\ t.hash = r /\ t.pending = (r # s.hash)
      /\ t.base = s.base
  BY <1>1 DEF GoTo, Client, Browser
<1> HIDE DEF t
<1>3. ~Moved(t) => s.hash.view = r.view
  <2>1. UnderlyingKey(s.hash) = UnderlyingKey(r) => s.hash.view = r.view
    BY <1>1 DEF UnderlyingKey, AddressType
  <2> QED BY <1>1, <1>2, <2>1 DEF Moved
<1>4. Surveyed(t)
  BY <1>2, <1>3 DEF Tells, Surveyed, Fetched, Moved
<1>5. ListsTold(t, T) /\ Routes(t)
  BY <1>2 DEF Tells, ListsTold, Routes, Fetched
<1>6. RunTold(t, T)
  BY <1>1, <1>2 DEF Tells, RunTold, Pursued, DeepWait, AnswersTold, DetailTold, Asking, At
<1> QED BY <1>4, <1>5, <1>6 DEF Tells

\* The server answers from the source as it is, which nothing told is ahead of.
LEMMA ServerTells ==
  ASSUME NEW s, Client(s), NEW T, Tells(s, T), NEW q \in s.reqs, q.ans = None,
         NEW p \in RequestRecord, p.kind = q.kind, p.ws = q.ws, p.run = q.run, p.fresh = q.fresh,
         p.ans.ver >= T[q.ws]
  PROVE  Tells([s EXCEPT !.reqs = (@ \ {q}) \cup {p}], T)
<1> DEFINE t == [s EXCEPT !.reqs = (@ \ {q}) \cup {p}]
<1>0. SUFFICES Tells(t, T)
  OBVIOUS
<1>1. /\ t.reqs = (s.reqs \ {q}) \cup {p} /\ t.waits = s.waits /\ t.snap = s.snap /\ t.detail = s.detail
      /\ t.routed = s.routed /\ t.again = s.again /\ t.hash = s.hash /\ t.pending = s.pending
      /\ t.base = s.base
  BY DEF Client, Browser
<1> HIDE DEF t
<1>2. \A o \in t.reqs : o \in s.reqs \/ o = p
  BY <1>1
<1>3. \A o \in s.reqs : o \in t.reqs \/ o = q
  BY <1>1
<1>4. p \in t.reqs
  BY <1>1
<1>5. \A w : Fetched(s, w) => Fetched(t, w)
  BY <1>3, <1>4 DEF Fetched
<1>6. Asking(s) => Asking(t)
  BY <1>3, <1>4 DEF Asking
<1>7. ListsTold(t, T)
  BY <1>1, <1>2, <1>5 DEF Tells, ListsTold
<1>8. Surveyed(t)
  BY <1>1, <1>5 DEF Tells, Surveyed, Moved
<1>9. Routes(t)
  BY <1>1, <1>2 DEF Tells, Routes
<1>10. AnswersTold(s, T) => AnswersTold(t, T)
  BY <1>1, <1>2 DEF AnswersTold
<1>11. DetailTold(s, T) => DetailTold(t, T)
  BY <1>1, <1>6 DEF DetailTold, At
<1>12. RunTold(t, T)
  BY <1>1, <1>10, <1>11 DEF Tells, RunTold, Pursued, DeepWait
<1> QED BY <1>7, <1>8, <1>9, <1>12 DEF Tells

\* The page boots with nothing held, and asks for its address.
LEMMA BootTells ==
  ASSUME NEW r, AddressFits(r), mode \in Modes, NEW T
  PROVE  Tells(Boot(r), T) /\ Underway(Boot(r))
<1> DEFINE snap == [w \in Workspaces |-> [list |-> None, listErr |-> FALSE,
                                          detail |-> None, detailErr |-> FALSE]]
           s == [hash |-> r, pending |-> FALSE, routed |-> <<None, None>>, painted |-> Blank,
                 lastPaint |-> None, list |-> None, detail |-> None, detailId |-> None,
                 detailWs |-> None, conflict |-> FALSE, flight |-> FALSE, again |-> FALSE,
                 force |-> FALSE, manual |-> r.manual, base |-> UnderlyingKey(r),
                 snap |-> snap, dead |-> None, resTried |-> None, resBusy |-> FALSE,
                 lastEventId |-> None, stream |-> "connecting", reqs |-> {}, waits |-> {}]
<1>1. /\ r \in AddressType /\ UnderlyingKey(r) \in AddressType /\ r.manual \in BOOLEAN
  BY DEF AddressFits, WellFormed, AddressType, UnderlyingKey
<1>2. /\ None \in All /\ \A S : None \in Maybe(S)
      /\ None \in VerOrNone /\ None \in DetailType
  BY DEF All, Maybe, VerOrNone, DetailType
<1>3. snap \in [Workspaces -> SnapRecord] /\ \A w \in Workspaces : snap[w].list = None
  BY <1>2 DEF SnapRecord
<1>4. Boot(r) = Refresh(s)
  BY DEF Boot
<1> HIDE DEF snap
<1>5. s \in Browser
  BY <1>1, <1>2, <1>3, BlankType DEF Browser
<1>6. s.hash = r /\ s.reqs = {} /\ s.waits = {} /\ s.snap = snap
  OBVIOUS
<1> HIDE DEF s
<1>7. Client(s)
  BY <1>5, <1>6 DEF Client
<1>8. Net(s)
  BY <1>6, FS_EmptySet DEF Net
<1>9. ListsTold(s, T)
  BY <1>3, <1>6 DEF ListsTold
<1>10. Passes(s, Refresh(s)) /\ Renewed(s, Refresh(s))
  BY <1>7, <1>8, RefreshPasses DEF Passes
<1> QED BY <1>4, <1>7, <1>9, <1>10, RenewedTells DEF Renewed

-----------------------------------------------------------------------------
(***************************************************************************)
(* Addresses that are handled.                                             *)
(***************************************************************************)
\* Only the pane moves.
LEMMA ManualTells ==
  ASSUME NEW s, BrowserInv(s), ManualOnly(Handled(s)), NEW T, Tells(s, T)
  PROVE  Tells(ManualMoved(Handled(s)), T)
<1> DEFINE h == Handled(s)
           t == [h EXCEPT !.manual = h.hash.manual]
           z == ManualMoved(h)
<1>0. SUFFICES Tells(z, T)
  OBVIOUS
<1>1. /\ Client(s) /\ Client(h) /\ Net(h) /\ h.pending = FALSE /\ h.hash = s.hash /\ h.base = s.base
      /\ SameHeld(s, h) /\ h.reqs = s.reqs /\ h.waits = s.waits
  BY HandledFacts, HandledHeld DEF BrowserInv
<1>2. h.routed = s.routed /\ h.again = s.again
  BY DEF Handled, BrowserInv, Client, Browser
<1>3. ~Moved(s) /\ ~Moved(h)
  BY <1>1 DEF ManualOnly, Moved
<1>4. z = IF t.lastPaint # None THEN ReplayLastPaint(t) ELSE RenderCurrentGuarded(t)
  BY DEF ManualMoved
<1> HIDE DEF h, z
<1>5. /\ Client(t) /\ t.snap = h.snap /\ t.detail = h.detail /\ t.reqs = h.reqs /\ t.waits = h.waits
      /\ t.hash = h.hash /\ t.routed = h.routed /\ t.again = h.again /\ t.pending = h.pending
  BY <1>1 DEF Client, Browser, AddressType
<1> HIDE DEF t
<1>6. Net(t)
  BY <1>1, <1>5 DEF Net, Listed
<1>7. Tells(t, T)
  BY <1>1, <1>2, <1>3, <1>5 DEF Tells, ListsTold, RunTold, Pursued, Surveyed, Routes, Fetched, DeepWait,
                                AnswersTold, DetailTold, Asking, At, SameHeld
<1>8. CASE t.lastPaint # None
  <2>1. Pure(t, z)
    BY <1>4, <1>5, <1>8, ReplayShown
  <2>2. Passes(t, z) /\ Gains(t, z)
    BY <1>6, <2>1, PurePasses, SameNetGains DEF Pure
  <2> QED BY <1>5, <1>7, <2>2, PassesTells
<1>9. CASE t.lastPaint = None
  <2>1. Passes(t, z) /\ Gains(t, z)
    BY <1>4, <1>5, <1>6, <1>9, GuardedPasses, GuardedPaints DEF Paints
  <2> QED BY <1>5, <1>7, <2>1, PassesTells
<1> QED BY <1>8, <1>9

\* Before it looks at the view, routeChanged makes the answers stale, and has
\* the refresh in flight run again.
LEMMA RoutedTells ==
  ASSUME NEW s, Client(s), Net(s), Flying(s), Recorded(s), ~s.pending,
         NEW T, ListsTold(s, T), RunTold(s, T)
  PROVE  LET t == Routed(s) IN ListsTold(t, T) /\ Routes(t) /\ RunTold(t, T)
<1> DEFINE t == Routed(s)
<1>0. SUFFICES ListsTold(t, T) /\ Routes(t) /\ RunTold(t, T)
  OBVIOUS
<1>1. /\ Client(t) /\ t.hash = s.hash /\ Carried(s, t) /\ Coming(s, t) /\ Drops(s, t)
      /\ t.routed = Subject(t.hash) /\ (s.flight => t.again)
      /\ \A q \in t.reqs : q.kind # "list" => ~q.fresh
      /\ \/ s.routed = Subject(s.hash) /\ t.detail = s.detail
         \/ t.detail = None
  BY RoutedHeld
<1> HIDE DEF t
<1>2. ListsTold(t, T)
  <2>1. Relists(s, t)
    BY <1>1 DEF Relists, Drops
  <2> QED BY <2>1, RelistsTold
<1>3. Routes(t) /\ AnswersTold(t, T)
  BY <1>1 DEF Routes, AnswersTold
<1>4. Pursued(s) => Pursued(t)
  BY <1>1 DEF Pursued, Coming, Flying
<1>5. Asking(s) => Pursued(t)
  <2>1. Asking(s) => s.flight
    BY DEF Asking, Flying, AwaitedIn
  <2> QED BY <1>1, <2>1 DEF Pursued
<1>6. DetailTold(s, T) => DetailTold(t, T) \/ Asking(s)
  BY <1>1 DEF DetailTold, At, Drops
<1>7. RunTold(t, T)
  BY <1>3, <1>4, <1>5, <1>6 DEF RunTold
<1> QED BY <1>2, <1>3, <1>7

\* routeChanged paints what it has in hand, which may be dropped before, or asks
\* for the address, or both; it leaves the screen to an answer only if it has
\* nothing to paint, or a retry forces it.
Enters(t, x, z, force) ==
    /\ Client(x) /\ Net(x) /\ SameRest(t, x) /\ x.reqs = t.reqs /\ x.waits = t.waits
    /\ x.snap = t.snap /\ (x.detail = None \/ x = t) /\ (Set \/ x.list = t.list)
    /\ SameScreen(t, x) \/ Emptied(x)
    /\ \/ /\ z = RefreshSingleFlight(x) /\ x.hash.view # "invalid"
          /\ x.detail = None \/ force
          /\ x.hash.view = "runs" => force \/ x.list = None
       \/ /\ z \in {RenderCurrentGuarded(x), RefreshSingleFlight(RenderCurrentGuarded(x))}
          /\ ~Unread(x)
          /\ x.hash.view = "workspaces" =>
               \A w \in Workspaces : x.snap[w].list # None \/ x.snap[w].listErr

LEMMA OverviewEnters ==
  ASSUME NEW t, Client(t), Net(t), t.hash.view = "workspaces", NEW runChanged \in BOOLEAN, NEW force
  PROVE  \E x : Enters(t, x, OverviewRouted(t, runChanged), force)
<1> DEFINE x == [t EXCEPT !.detail = None, !.detailId = None, !.conflict = FALSE]
           known == \A w \in Workspaces : t.snap[w].list # None \/ t.snap[w].listErr
           z == OverviewRouted(t, runChanged)
<1>1. z = CASE ~known -> RefreshSingleFlight(x)
            [] known /\ runChanged -> RefreshSingleFlight(RenderCurrentGuarded(x))
            [] known /\ ~runChanged -> RenderCurrentGuarded(x)
  BY DEF OverviewRouted
<1>2. /\ Client(x) /\ SameRest(t, x) /\ SameNet(t, x) /\ x.snap = t.snap /\ x.detail = None
      /\ x.hash = t.hash /\ x.list = t.list /\ SameScreen(t, x)
  <2>1. None \in Maybe(Runs)
    BY DEF Maybe
  <2>2. x.snap = t.snap /\ x.detail = None /\ x.hash = t.hash /\ x.list = t.list /\ SameScreen(t, x)
    BY DEF Client, Browser, SameScreen
  <2> QED BY <2>1, <2>2, DroppedFacts
<1> HIDE DEF x, z
<1>3. Net(x)
  BY <1>2 DEF Net, Listed, SameNet
<1>4. CASE known
  <2>1. z \in {RenderCurrentGuarded(x), RefreshSingleFlight(RenderCurrentGuarded(x))}
    <3> HIDE DEF known
    <3> QED BY <1>1, <1>4
  <2> QED BY <1>2, <1>3, <1>4, <2>1 DEF Enters, SameNet, Unread, z
<1>5. CASE ~known
  <2>1. z = RefreshSingleFlight(x)
    <3> HIDE DEF known
    <3> QED BY <1>1, <1>5
  <2> QED BY <1>2, <1>3, <2>1 DEF Enters, SameNet, z
<1> QED BY <1>4, <1>5

LEMMA RunsEnters ==
  ASSUME NEW t, Client(t), Net(t), t.hash.view = "runs", NEW force
  PROVE  \E x : Enters(t, x, RunsRouted(t, force), force)
<1> DEFINE list == IF Set THEN t.snap[t.hash.ws].list ELSE t.list
           x == [t EXCEPT !.detail = None, !.detailId = None, !.conflict = FALSE, !.list = list]
           z == RunsRouted(t, force)
<1>1. z = IF force \/ x.list = None THEN RefreshSingleFlight(x) ELSE RenderCurrentGuarded(x)
  BY DEF RunsRouted, Client, Browser
<1>2. list \in VerOrNone
  BY DEF Client, Browser, SnapRecord, AddressFits, WellFormed, All
<1> HIDE DEF list
<1>3. /\ Client(x) /\ SameRest(t, x) /\ SameNet(t, x) /\ x.snap = t.snap /\ x.detail = None
      /\ x.hash = t.hash /\ x.list = list /\ SameScreen(t, x)
  <2>1. None \in DetailType /\ None \in Maybe(Runs)
    BY DEF DetailType, Maybe
  <2>2. x.snap = t.snap /\ x.detail = None /\ x.hash = t.hash /\ x.list = list /\ SameScreen(t, x)
    BY DEF Client, Browser, SameScreen
  <2>3. Client(x) /\ SameRest(t, x) /\ SameNet(t, x)
    BY <1>2, <2>1 DEF Client, Browser, SameRest, SameNet
  <2> QED BY <2>2, <2>3
<1>5. Set \/ x.list = t.list
  BY <1>3 DEF list
<1> HIDE DEF x, z
<1>4. Net(x)
  BY <1>3 DEF Net, Listed, SameNet
<1> QED BY <1>1, <1>3, <1>4, <1>5 DEF Enters, SameNet, Unread, z

LEMMA RunEnters ==
  ASSUME NEW t, Client(t), Net(t), Deep(t.hash), NEW force, NEW runChanged
  PROVE  \E x : Enters(t, x, RunRouted(t, force, runChanged), force)
<1> DEFINE r == t.hash
           matching == /\ t.detail # None /\ t.detailId = r.run /\ (Set => t.detailWs = r.ws)
                       /\ t.detail.run = r.run
           stale == \/ t.detailId \notin {None, r.run}
                    \/ Set /\ t.detailWs \notin {None, r.ws}
                    \/ t.detail # None /\ ~matching
           preserve == r.follow /\ ~runChanged /\ t.detail = None /\ t.detailId = r.run
           e == [t EXCEPT !.detail = None, !.detailWs = None, !.conflict = FALSE,
                          !.detailId = IF preserve THEN r.run ELSE None]
           x == IF stale \/ (FollowShown(t) /\ (~matching \/ runChanged)) THEN EmptyApp(e) ELSE t
           z == RunRouted(t, force, runChanged)
<1>1. z = IF matching /\ ~force THEN RenderCurrentGuarded(x) ELSE RefreshSingleFlight(x)
  BY DEF RunRouted
<1>2. Client(e) /\ SameRest(t, e) /\ SameNet(t, e) /\ e.snap = t.snap /\ e.detail = None /\ e.list = t.list
  <2>1. /\ None \in DetailType /\ None \in All /\ r.run \in Maybe(Runs)
        /\ (IF preserve THEN r.run ELSE None) \in Maybe(Runs)
    BY DEF DetailType, Maybe, All, Client, Browser, AddressType
  <2> HIDE DEF preserve
  <2> QED BY ZenonT(60), <2>1 DEF Client, Browser, SameRest, SameNet
<1> HIDE DEF e
<1>3. LET k == EmptyApp(e) IN
      /\ Client(k) /\ SameRest(e, k) /\ SameNet(e, k) /\ k.snap = e.snap /\ k.detail = e.detail
      /\ k.list = e.list /\ Emptied(k)
  <2>1. LET k == EmptyApp(e) IN Client(k) /\ SameRest(e, k) /\ SameNet(e, k)
    BY <1>2, EmptiedFacts
  <2>2. LET k == EmptyApp(e) IN k.snap = e.snap /\ k.detail = e.detail /\ k.list = e.list /\ Emptied(k)
    BY <1>2 DEF EmptyApp, Client, Browser, Emptied
  <2> QED BY <2>1, <2>2
<1>4. /\ Client(x) /\ SameRest(t, x) /\ SameNet(t, x) /\ x.snap = t.snap /\ (x.detail = None \/ x = t)
      /\ x.list = t.list /\ (SameScreen(t, x) \/ Emptied(x))
  <2>1. SameRest(t, t) /\ SameNet(t, t) /\ SameScreen(t, t)
    BY DEF SameRest, SameNet, SameScreen
  <2>2. SameRest(t, EmptyApp(e)) /\ SameNet(t, EmptyApp(e))
    BY <1>2, <1>3 DEF SameRest, SameNet
  <2> HIDE DEF stale, matching
  <2> QED BY <1>2, <1>3, <2>1, <2>2
<1>6. x.detail # None => matching
  BY <1>2, <1>3
<1> HIDE DEF x, z, matching
<1>5. Net(x) /\ ~Unread(x) /\ x.hash.view # "workspaces"
  BY <1>4 DEF Net, Listed, SameNet, SameRest, Unread, Deep
<1> QED BY <1>1, <1>4, <1>5, <1>6 DEF Enters, SameNet, SameRest, Deep, z

LEMMA RouteEnters ==
  ASSUME NEW s, BrowserInv(s), ~ManualOnly(Handled(s)), mode \in Modes
  PROVE  \E x : Enters(Routed(Handled(s)), x, RouteChanged(Handled(s)), Handled(s).force)
<1> DEFINE h == Handled(s)
           r == s.hash
           runChanged == h.routed # Subject(r)
           t == Routed(h)
           z == RouteChanged(h)
<1>1. /\ Client(h) /\ Net(h) /\ Flying(h) /\ Recorded(h) /\ h.pending = FALSE /\ h.hash = r
  BY HandledFacts
<1>2. z = CASE ManualOnly(h) -> ManualMoved(h)
            [] ~ManualOnly(h) /\ r.view = "invalid" -> RenderCurrentGuarded(t)
            [] ~ManualOnly(h) /\ r.view = "workspaces" -> OverviewRouted(t, runChanged)
            [] ~ManualOnly(h) /\ r.view = "runs" -> RunsRouted(t, h.force)
            [] ~ManualOnly(h) /\ Deep(r) -> RunRouted(t, h.force, runChanged)
  BY <1>1 DEF RouteChanged
<1>10. ~ManualOnly(h)
  OBVIOUS
<1>3. runChanged \in BOOLEAN
  OBVIOUS
<1> HIDE DEF h, runChanged
<1>4. Client(t) /\ Net(t) /\ t.hash = r
  BY <1>1, RoutedHeld
<1> HIDE DEF t, z
<1>5. r.view \in {"workspaces", "runs", "detail", "unit", "invalid"}
  BY <1>1 DEF Client, AddressFits, WellFormed
<1>6. CASE r.view = "invalid"
  <2>1. z = RenderCurrentGuarded(t) /\ SameRest(t, t) /\ SameScreen(t, t) /\ ~Unread(t)
    BY <1>2, <1>4, <1>6, <1>10 DEF Deep, SameRest, SameScreen, Unread
  <2>2. Enters(t, t, z, h.force)
    BY <1>4, <1>6, <2>1 DEF Enters
  <2> QED BY <2>2 DEF t, z, h
<1>7. CASE r.view = "workspaces"
  <2>1. z = OverviewRouted(t, runChanged)
    BY <1>2, <1>7, <1>10 DEF Deep
  <2>2. \E x : Enters(t, x, z, h.force)
    BY <1>3, <1>4, <1>7, <2>1, OverviewEnters
  <2> QED BY <2>2 DEF t, z, h
<1>8. CASE r.view = "runs"
  <2>1. z = RunsRouted(t, h.force)
    BY <1>2, <1>8, <1>10 DEF Deep
  <2>2. \E x : Enters(t, x, z, h.force)
    BY <1>4, <1>8, <2>1, RunsEnters
  <2> QED BY <2>2 DEF t, z, h
<1>9. CASE Deep(r)
  <2>1. z = RunRouted(t, h.force, runChanged)
    BY <1>2, <1>9, <1>10 DEF Deep
  <2>2. \E x : Enters(t, x, z, h.force)
    BY <1>4, <1>9, <2>1, RunEnters
  <2> QED BY <2>2 DEF t, z, h
<1> QED BY <1>5, <1>6, <1>7, <1>8, <1>9 DEF Deep

LEMMA RouteTells ==
  ASSUME NEW s, BrowserInv(s), NEW T, Tells(s, T), mode \in Modes
  PROVE  Tells(RouteChanged(Handled(s)), T)
<1> DEFINE h == Handled(s)
           t == Routed(h)
           z == RouteChanged(h)
<1>0. SUFFICES Tells(z, T)
  OBVIOUS
<1>1. CASE ManualOnly(h)
  <2>1. z = ManualMoved(h)
    BY <1>1 DEF RouteChanged
  <2> HIDE DEF z
  <2> QED BY <1>1, <2>1, ManualTells
<1>2. CASE ~ManualOnly(h)
  <2>1. PICK x : Enters(t, x, z, h.force)
    BY <1>2, RouteEnters
  <2>2. /\ Client(h) /\ Net(h) /\ Flying(h) /\ Recorded(h) /\ h.pending = FALSE
    BY HandledFacts
  <2>3. ListsTold(h, T) /\ Routes(h) /\ RunTold(h, T)
    <3>1. /\ SameHeld(s, h) /\ h.reqs = s.reqs /\ h.waits = s.waits /\ h.routed = s.routed
      BY HandledHeld
    <3>2. h.again = s.again /\ h.hash = s.hash
      BY DEF Handled, BrowserInv, Client, Browser
    <3> HIDE DEF h
    <3> QED BY <3>1, <3>2 DEF Tells, ListsTold, RunTold, Pursued, Routes, Fetched, DeepWait,
                              AnswersTold, DetailTold, Asking, At, SameHeld
  <2> HIDE DEF h, z
  <2>4. ListsTold(t, T) /\ Routes(t) /\ RunTold(t, T)
    BY <2>2, <2>3, RoutedTells
  <2> HIDE DEF t
  <2>5. Client(x) /\ Net(x) /\ ListsTold(x, T) /\ Routes(x) /\ RunTold(x, T)
    BY <2>1, <2>4 DEF Enters, SameRest, ListsTold, Routes, Fetched, RunTold, Pursued, DeepWait,
                      AnswersTold, DetailTold, Asking, At
  <2>6. CASE z = RefreshSingleFlight(x)
    BY <2>5, <2>6, SingleFlightTells
  <2>7. CASE z # RefreshSingleFlight(x)
    <3> DEFINE g == RenderCurrentGuarded(x)
    <3>1. z \in {g, RefreshSingleFlight(g)} /\ Surveyed(x)
      BY <2>1, <2>7 DEF Enters, Surveyed
    <3>2. Passes(x, g) /\ Gains(x, g)
      BY <2>5, GuardedPasses, GuardedPaints DEF Paints
    <3> HIDE DEF g
    <3>3. Tells(g, T)
      BY <2>5, <3>1, <3>2, PassesTells DEF Tells
    <3>4. Tells(RefreshSingleFlight(g), T)
      BY <3>2, <3>3, SingleFlightTells DEF Tells, Gains
    <3> QED BY <3>1, <3>3, <3>4
  <2> QED BY <2>6, <2>7
<1> QED BY <1>1, <1>2
-----------------------------------------------------------------------------
(***************************************************************************)
(* What the screen shows of what is held.                                  *)
(***************************************************************************)
\* The view is one of the address and of what is held; the run list of single
\* mode may have none that is.
Faithful(s) ==
    /\ Fits(s)
    /\ s.painted.kind = "run" => RunTrue(s)
    /\ Set /\ s.painted.kind = "runs" => RunsTrue(s)
    /\ s.painted.kind = "overview" => OverviewTrue(s)

\* A view of no projection.
Plain(s) == s.painted.kind \in {"failure", "blank"}

\* The screen shows what is held of the address, or nothing, or will be painted.
Sound(s) == Plain(s) \/ Faithful(s) \/ Busy(s) \/ Moved(s)

LEMMA PaintedFaithful ==
  ASSUME NEW s, Painted(s), Set => ~Unread(s)
  PROVE  Faithful(s)
<1>1. CASE Truthful(s)
  BY <1>1 DEF Truthful, Faithful
<1>2. CASE ~Set /\ Unread(s)
  <2>1. s.painted.kind \in {"runs", "failure"} /\ Fits(s)
    BY <1>2 DEF Painted, Fits, KindsAt, Deep, Unread
  <2> QED BY <1>2, <2>1 DEF Faithful
<1> QED BY <1>1, <1>2 DEF Painted

\* It stays so while what it shows is kept.
LEMMA FaithfulKept ==
  ASSUME NEW s, Client(s), NEW t, Passes(s, t), SameScreen(s, t), Faithful(s),
         t.detail = s.detail \/ s.hash.view = "runs"
  PROVE  Faithful(t)
<1>1. /\ t.hash = s.hash /\ t.snap = s.snap /\ t.list = s.list
      /\ t.painted = s.painted /\ t.lastPaint = s.lastPaint
  BY DEF Passes, Sheds, Lasts, SameAddress, SameScreen
<1>2. Fits(t)
  BY <1>1 DEF Faithful, Fits
<1>3. ListsOf(t) = ListsOf(s)
  BY <1>1 DEF ListsOf
<1>4. CASE t.detail = s.detail
  <2>1. Disclosed(t) = Disclosed(s) /\ Throws(t) = Throws(s)
    BY <1>1, <1>4 DEF Disclosed, Throws
  <2> QED BY <1>1, <1>2, <1>3, <1>4, <2>1 DEF Faithful, RunTrue, RunsTrue, OverviewTrue
<1>5. CASE s.hash.view = "runs"
  <2>1. s.painted.kind # "run"
    BY <1>5 DEF Faithful, Fits, KindsAt, Deep
  <2>2. Disclosed(t) = Disclosed(s)
    BY <1>1, <1>5 DEF Disclosed
  <2> QED BY <1>1, <1>2, <1>3, <2>1, <2>2 DEF Faithful, RunsTrue, OverviewTrue
<1> QED BY <1>4, <1>5

\* A step that leaves the screen, what it shows and what is asked for.
LEMMA KeptSound ==
  ASSUME NEW s, Client(s), NEW t, Passes(s, t), SameScreen(s, t), Busy(s) => Sound(t), Sound(s),
         t.detail = s.detail \/ s.hash.view = "runs"
  PROVE  Sound(t)
<1>1. Moved(t) <=> Moved(s)
  BY PassesStay
<1>2. Faithful(s) => Faithful(t)
  BY FaithfulKept
<1> QED BY <1>1, <1>2 DEF Sound, Plain, SameScreen

LEMMA GainsSound ==
  ASSUME NEW s, Client(s), NEW t, Passes(s, t), Gains(s, t), Sound(s),
         Plain(t) \/ (SameScreen(s, t) /\ t.detail = s.detail)
  PROVE  Sound(t)
<1>1. Busy(s) => Sound(t)
  BY DEF Gains, Sound
<1>2. CASE Plain(t)
  BY <1>2 DEF Sound
<1>3. CASE SameScreen(s, t) /\ t.detail = s.detail
  BY <1>1, <1>3, KeptSound
<1> QED BY <1>2, <1>3

\* The address is asked for, or invalid.
LEMMA SingleFlightSound ==
  ASSUME NEW s, Client(s), Net(s), mode \in Modes
  PROVE  Sound(RefreshSingleFlight(s))
<1> DEFINE t == RefreshSingleFlight(s)
<1>1. IF s.flight THEN t.again = TRUE ELSE Renewed(s, t)
  BY SingleFlightPasses
<1> HIDE DEF t
<1>2. Sound(t)
  BY <1>1 DEF Renewed, Underway, Sound, Busy, Plain
<1> QED BY <1>2 DEF t

\* The refresh in flight has ended with a painting of the address, perhaps.
LEMMA LandedSound ==
  ASSUME NEW s, Client(s), Net(s), mode \in Modes,
         s.again \/ Plain(s) \/ Faithful(s) \/ Moved(s) \/ ListComing(s)
  PROVE  Sound(Landed(s))
<1> DEFINE t == Landed(s)
<1>1. /\ Passes(s, t)
      /\ SameScreen(s, t) \/ (Failed(t) /\ Fits(t))
      /\ t.detail = s.detail \/ (s.hash.view = "runs" /\ ~Set)
      /\ s.again => Renewed(s, t)
  BY LandedPasses
<1> HIDE DEF t
<1>2. CASE s.again
  BY <1>1, <1>2 DEF Renewed, Underway, Sound, Plain, t
<1>3. CASE Failed(t)
  BY <1>3 DEF Sound, Plain, Failed, t
<1>4. CASE SameScreen(s, t) /\ ~s.again
  <2>1. ListComing(s) => Busy(t)
    BY <1>1, PassesStay DEF ListComing, Busy, Passes, Coming, Fetched
  <2>2. Faithful(s) => Faithful(t)
    BY <1>1, <1>4, FaithfulKept
  <2>3. Moved(t) <=> Moved(s)
    BY <1>1, PassesStay
  <2> QED BY <1>4, <2>1, <2>2, <2>3 DEF Sound, Plain, SameScreen, t
<1> QED BY <1>1, <1>2, <1>3, <1>4

\* The answer of a run, or of the run list, that arrives.
LEMMA RunAnswerSound ==
  ASSUME NEW s, BrowserInv(s), Contents(s), mode \in Modes,
         NEW q \in s.reqs, q.ans # None, q.kind \in {"detail", "runs"}
  PROVE  Sound(Arrives(s, q))
<1> DEFINE p == Without(s, q)
           z == Arrives(s, q)
<1>0. SUFFICES Sound(z)
  OBVIOUS
<1>1. Client(s) /\ Net(s) /\ Aimed(s) /\ Client(p) /\ Net(p) /\ SameRest(s, p)
  BY TakenFacts DEF BrowserInv
<1>2. \A k \in s.reqs : k.kind \in {"detail", "runs"} => k = q
  BY DEF BrowserInv, Flying, AwaitedIn
<1>3. q \in RequestRecord /\ RequestOK(q)
  BY <1>1 DEF Client, Browser, Net
<1>4. CASE ~q.fresh
  <2>1. z = Landed(p)
    BY <1>4 DEF Arrives, Without
  <2>2. s.again /\ p.again
    BY <1>1, <1>4 DEF BrowserInv, Flying, AwaitedIn, SameRest
  <2> HIDE DEF z, p
  <2> QED BY <1>1, <2>1, <2>2, LandedSound
<1>5. CASE q.fresh
  <2>1. Alone(s, q)
    BY <1>2, <1>5 DEF Alone
  <2>2. ASSUME NEW v, Client(v), Gains(p, v), Failed(v) \/ Painted(v) \/ Astray(v),
               z = Landed(v)
        PROVE  Sound(z)
    <3>1. Net(v) /\ SameRest(s, v)
      BY <1>1, <2>2 DEF Gains, SameRest
    <3>2. Set /\ Unread(v) => Moved(v)
      <4>1. ASSUME Set PROVE Moved(s) \/ Deep(s.hash)
        BY <1>1, <1>3, <1>5, <4>1 DEF Aimed, RequestOK
      <4> QED BY <3>1, <4>1 DEF Unread, SameRest, Moved, Deep
    <3>3. Painted(v) => Faithful(v) \/ Moved(v)
      BY <3>2, PaintedFaithful
    <3> HIDE DEF z, p
    <3> QED BY <2>2, <3>1, <3>3, LandedSound DEF Failed, Plain, Astray
  <2>3. CASE q.kind = "runs"
    <3> DEFINE v == RunsArrives(p, q)
    <3>1. z = Landed(v)
      BY <1>5, <2>3 DEF Arrives, Without
    <3>2. Client(v) /\ (Failed(v) \/ Painted(v))
      BY <1>1, <2>1, <2>3, RunsAdvances
    <3> HIDE DEF p
    <3>3. Gains(p, v)
      BY <1>1, <1>3, <2>3, RunsPaints DEF Paints
    <3> HIDE DEF v, z
    <3> QED BY <2>2, <3>1, <3>2, <3>3
  <2>4. CASE q.kind = "detail"
    <3> DEFINE v == IF Set THEN SetDetailArrives(p, q) ELSE SingleDetailArrives(p, q)
    <3>1. z = Landed(v)
      BY <1>5, <2>4 DEF Arrives, Without
    <3>2. Client(v) /\ (Failed(v) \/ Painted(v) \/ Astray(v))
      BY <1>1, <2>1, <2>4, SetDetailAdvances, SingleDetailAdvances
    <3> HIDE DEF p
    <3>3. Gains(p, v)
      BY <1>1, <1>3, <2>4, SetDetailPaints, SingleDetailPaints DEF Paints
    <3> HIDE DEF v, z
    <3> QED BY <2>2, <3>1, <3>2, <3>3
  <2> QED BY <2>3, <2>4
<1> QED BY <1>4, <1>5

\* The inventory of single mode that was acquired for a dead end: no view that
\* shows the rows in hand has to be right then.
LEMMA ResolveSound ==
  ASSUME NEW s, Client(s), Net(s), Contents(s), Light(s), Sound(s),
         NEW q \in s.reqs, q.ans # None, q.kind = "resolve"
  PROVE  Sound(Arrives(s, q))
<1> DEFINE v == Without(s, q)
           t == IF q.fresh /\ q.ans.out = "ok" THEN [v EXCEPT !.list = q.ans.ver] ELSE v
           z == Arrives(s, q)
<1>0. SUFFICES Sound(z)
  OBVIOUS
<1>1. q.ans.ver \in VerOrNone
  BY DEF Client, Browser, RequestRecord, AnswerRecord, Maybe, VerOrNone
<1>2. z = Resolved(t, q.run)
  BY DEF Arrives, Without
<1>3. /\ Client(v) /\ Net(v) /\ v.reqs = s.reqs \ {q} /\ v.waits = s.waits /\ v.resBusy = s.resBusy
      /\ SameRest(s, v) /\ v.snap = s.snap /\ v.detail = s.detail /\ SameScreen(s, v) /\ v.list = s.list
  BY TakenFacts, TakenPasses DEF SameHeld
<1> HIDE DEF v, z
<1>4. /\ Client(t) /\ t.reqs = v.reqs /\ t.waits = v.waits /\ t.resBusy = v.resBusy
      /\ SameRest(v, t) /\ t.snap = v.snap /\ t.detail = v.detail /\ SameScreen(v, t)
      /\ Set => t.list = v.list
  <2>1. Set => ~q.fresh
    BY DEF Contents, Proper
  <2> QED BY <1>1, <1>3, <2>1 DEF Client, Browser, SameRest, SameScreen
<1> HIDE DEF t
<1>5. Net(t) /\ Free(t)
  <2>1. s.resBusy
    BY DEF Light, ResolveAsked
  <2> QED BY <1>3, <1>4, <2>1 DEF Net, Listed, Free
<1>6. Sound(t)
  <2>1. /\ t.hash = s.hash /\ t.again = s.again /\ (Moved(t) <=> Moved(s))
        /\ t.waits = s.waits /\ t.snap = s.snap /\ t.detail = s.detail /\ t.reqs = s.reqs \ {q}
        /\ t.painted = s.painted /\ t.lastPaint = s.lastPaint /\ (Set => t.list = s.list)
    BY <1>3, <1>4 DEF SameRest, Moved, SameScreen
  <2>2. Busy(s) => Busy(t)
    BY <2>1 DEF Busy, ListComing
  <2>3. Faithful(s) => Faithful(t)
    <3>1. Disclosed(t) = Disclosed(s) /\ Throws(t) = Throws(s) /\ ListsOf(t) = ListsOf(s)
      BY <2>1 DEF Disclosed, Throws, ListsOf
    <3>2. Fits(s) => Fits(t)
      BY <2>1 DEF Fits
    <3> QED BY <2>1, <3>1, <3>2 DEF Faithful, RunTrue, RunsTrue, OverviewTrue
  <2> QED BY <2>1, <2>2, <2>3 DEF Sound, Plain
<1>7. Passes(t, z) /\ Gains(t, z) /\ ((SameScreen(t, z) /\ SameHeld(t, z)) \/ Failed(z))
  BY <1>2, <1>4, <1>5, ResolvedPasses, ResolvedKeeps DEF Keeps
<1> QED BY <1>4, <1>6, <1>7, GainsSound DEF SameHeld, Plain, Failed

\* A list is committed: where the address shows it, it is painted.
LEMMA CommittedSound ==
  ASSUME NEW s, Client(s), NEW q \in s.reqs, q.kind = "list",
         NEW t, Client(t), SameRest(s, t), t.reqs = s.reqs \ {q}, t.waits = s.waits,
         Stored(s, q, t), Repaints(s, q, t), Sound(s)
  PROVE  Sound(t)
<1>1. /\ t.hash = s.hash /\ t.again = s.again /\ (Moved(t) <=> Moved(s))
  BY DEF SameRest, Moved
<1>2. CASE Failed(t)
  BY <1>2 DEF Sound, Plain, Failed
<1>3. CASE Painted(t) /\ ~Unread(t)
  BY <1>3, PaintedFaithful DEF Sound
<1>4. CASE SameScreen(s, t) /\ t.detail = s.detail /\ t.list = s.list /\ ~(q.fresh /\ Listing(s, q))
  <2>1. Busy(s) => Busy(t)
    <3>1. ListComing(s) => ListComing(t)
      <4>1. ASSUME s.hash.view = "runs", NEW o \in s.reqs, o.kind = "list", o.fresh, o.ws = s.hash.ws
            PROVE  o \in t.reqs
        BY <1>4, <4>1 DEF Listing
      <4> QED BY <1>1, <4>1 DEF ListComing
    <3> QED BY <1>1, <3>1 DEF Busy
  <2>2. \A w \in Workspaces : t.snap[w].detail = s.snap[w].detail /\ t.snap[w].detailErr = s.snap[w].detailErr
    BY DEF Stored
  <2>3. ASSUME NEW w \in Workspaces, Listing(s, q) \/ w # q.ws
        PROVE  t.snap[w].list = s.snap[w].list /\ (t.snap[w].listErr <=> s.snap[w].listErr)
    <3>1. ~(q.fresh /\ w = q.ws) => t.snap[w].list = s.snap[w].list /\ (t.snap[w].listErr <=> s.snap[w].listErr)
      BY DEF Stored
    <3> QED BY <1>4, <2>3, <3>1
  <2>4. ASSUME Faithful(s) PROVE Faithful(t)
    <3>1. Fits(s) /\ Fits(t)
      BY <1>1, <1>4, <2>4 DEF Faithful, Fits, SameScreen
    <3>2. ASSUME s.painted.kind = "run" PROVE RunTrue(t)
      <4>1. Throws(t) = Throws(s)
        BY <1>1, <1>4 DEF Throws
      <4>2. Disclosed(t) = Disclosed(s)
        <5>1. s.hash.view # "runs"
          BY <3>1, <3>2 DEF Fits, KindsAt, Deep
        <5>2. Set /\ s.hash.ws # None => s.hash.ws \in Workspaces
          BY DEF Client, AddressFits, WellFormed, All
        <5>3. CASE ~Set \/ s.hash.ws = None
          BY <1>1, <5>3 DEF Disclosed
        <5>4. CASE Set /\ s.hash.ws # None
          BY <1>1, <2>2, <5>1, <5>2, <5>4 DEF Disclosed
        <5> QED BY <5>3, <5>4
      <4> QED BY <1>1, <1>4, <2>4, <3>2, <4>1, <4>2 DEF Faithful, RunTrue, SameScreen
    <3>3. ASSUME Set, s.painted.kind = "runs" PROVE RunsTrue(t)
      <4>1. s.hash.view = "runs"
        BY <3>1, <3>3 DEF Fits, KindsAt, Deep, Client, AddressFits, WellFormed
      <4>2. s.hash.ws \in Workspaces
        BY <3>3, <4>1 DEF Client, AddressFits, WellFormed, All
      <4>3. /\ t.snap[s.hash.ws].list = s.snap[s.hash.ws].list
            /\ t.snap[s.hash.ws].listErr <=> s.snap[s.hash.ws].listErr
        BY <1>4, <2>3, <4>1, <4>2 DEF Listing
      <4>4. Disclosed(t) = Disclosed(s)
        BY <1>1, <4>1, <4>3 DEF Disclosed
      <4> QED BY <1>1, <1>4, <2>4, <3>3, <4>4 DEF Faithful, RunsTrue, SameScreen
    <3>4. ASSUME s.painted.kind = "overview" PROVE OverviewTrue(t)
      <4>1. s.hash.view = "workspaces"
        BY <3>1, <3>4 DEF Fits, KindsAt, Deep, Client, AddressFits, WellFormed
      <4>2. ~q.fresh
        BY <1>4, <4>1 DEF Listing
      <4>3. \A w \in Workspaces : t.snap[w].list = s.snap[w].list /\ (t.snap[w].listErr <=> s.snap[w].listErr)
        BY <2>3, <4>1 DEF Listing
      <4>4. ListsOf(t) = ListsOf(s)
        BY <4>3 DEF ListsOf, All
      <4> QED BY <1>4, <2>4, <3>4, <4>3, <4>4 DEF Faithful, OverviewTrue, SameScreen
    <3> QED BY <1>4, <3>1, <3>2, <3>3, <3>4 DEF Faithful, SameScreen
  <2> QED BY <1>1, <1>4, <2>1, <2>4 DEF Sound, Plain, SameScreen
<1> QED BY <1>2, <1>3, <1>4 DEF Repaints

\* The callback that waited for the last of its lists is gone, perhaps.
LEMMA UnwaitedSound ==
  ASSUME NEW t, Client(t), Sound(t), NEW one, NEW u, u = Unwaited(t, one)
  PROVE  Sound(u) \/ \E x \in LastWaits(t, one) : x.then = "overview"
<1>1. /\ u.reqs = t.reqs /\ u.snap = t.snap /\ u.detail = t.detail /\ u.again = t.again
      /\ u.hash = t.hash /\ u.pending = t.pending /\ u.base = t.base /\ u.list = t.list
      /\ u.painted = t.painted /\ u.lastPaint = t.lastPaint
      /\ u.waits = {[x EXCEPT !.on = @ \ {one}] : x \in t.waits \ LastWaits(t, one)}
  BY DEF Unwaited, Client, Browser
<1>2. Moved(u) <=> Moved(t)
  BY <1>1 DEF Moved
<1>3. Faithful(t) => Faithful(u)
  <2>1. Disclosed(t) = Disclosed(u) /\ Throws(t) = Throws(u) /\ ListsOf(t) = ListsOf(u)
    BY <1>1 DEF Disclosed, Throws, ListsOf
  <2>2. Fits(t) => Fits(u)
    BY <1>1 DEF Fits
  <2> QED BY <1>1, <2>1, <2>2 DEF Faithful, RunTrue, RunsTrue, OverviewTrue
<1>4. ASSUME NEW x \in t.waits, x.then = "overview", x \notin LastWaits(t, one) PROVE Busy(u)
  <2>1. PICK y : y = [x EXCEPT !.on = @ \ {one}]
    OBVIOUS
  <2>2. y \in u.waits
    BY <1>1, <1>4, <2>1
  <2>3. y.then = "overview"
    BY <1>4, <2>1 DEF Client, Browser, WaitRecord
  <2> QED BY <2>2, <2>3 DEF Busy
<1>5. Busy(t) => Busy(u) \/ \E x \in LastWaits(t, one) : x.then = "overview"
  <2>1. ListComing(t) => ListComing(u)
    BY <1>1 DEF ListComing
  <2> QED BY <1>1, <1>4, <2>1 DEF Busy
<1> QED BY <1>1, <1>2, <1>3, <1>5 DEF Sound, Plain

\* What the callback starts then.
LEMMA ReleasedSound ==
  ASSUME NEW s, BrowserInv(s), NEW u, NEW last, Taken(s, u, last), NEW x \in last, Set, mode \in Modes,
         Sound(u) \/ x.then = "overview"
  PROVE  Sound(Released(u, x))
<1> DEFINE z == Released(u, x)
<1>0. SUFFICES Sound(z)
  OBVIOUS
<1>1. /\ Client(u) /\ Net(u) /\ u.again = s.again /\ x \in s.waits
      /\ u.hash = s.hash /\ (Moved(u) <=> Moved(s))
  BY DEF Taken
<1>2. x.then \in {"land", "overview", "deep", "resolve", "nothing"}
  BY <1>1 DEF BrowserInv, Client, Browser, WaitRecord
<1>3. CASE x.then = "land"
  <2>1. z = Landed(u)
    BY <1>3 DEF Released
  <2>2. AwaitedIn(u) = {}
    BY <1>3 DEF Taken
  <2>3. Busy(u) => u.again \/ ListComing(u)
    BY <2>2 DEF Busy, AwaitedIn
  <2> HIDE DEF z
  <2> QED BY <1>1, <1>3, <2>1, <2>3, LandedSound DEF Sound
<1>4. CASE x.then = "overview" /\ ~x.fresh
  <2>1. z = Landed(u)
    BY <1>4 DEF Released
  <2>2. u.again
    BY <1>1, <1>4 DEF BrowserInv, Flying, AwaitedIn
  <2> HIDE DEF z
  <2> QED BY <1>1, <2>1, <2>2, LandedSound
<1>5. CASE x.then = "overview" /\ x.fresh
  <2> DEFINE y == RenderWorkspaceOverview(u)
  <2>1. z = Landed(y)
    BY <1>5 DEF Released
  <2>2. /\ Pure(u, y) /\ Pictured(y) /\ (Fits(y) => Truthful(y)) /\ (u.hash.view = "workspaces" => Fits(y))
    BY <1>1, OverviewShown, OverviewPainted
  <2> HIDE DEF y, z
  <2>3. Client(y) /\ Net(y) /\ (Moved(y) <=> Moved(u)) /\ y.hash = u.hash
    BY <1>1, <2>2 DEF Pure, SameNet, SameRest, Net, Listed, Moved
  <2>4. Moved(u) \/ u.hash.view = "workspaces"
    BY <1>1, <1>5 DEF BrowserInv, Aimed
  <2>5. u.hash.view = "workspaces" => Faithful(y)
    <3>1. u.hash.view = "workspaces" => Painted(y) /\ ~Unread(y)
      BY <2>2, <2>3 DEF Painted, Unread
    <3> QED BY <3>1, PaintedFaithful
  <2> QED BY <2>1, <2>3, <2>4, <2>5, LandedSound
<1>6. CASE x.then = "deep"
  <2>1. z = RefreshSingleFlight(u)
    BY <1>6 DEF Released
  <2> HIDE DEF z
  <2> QED BY <1>1, <2>1, SingleFlightSound
<1>7. CASE x.then = "resolve"
  <2>1. z = Resolved(u, x.run)
    BY <1>7 DEF Released
  <2>2. Passes(u, z) /\ Gains(u, z) /\ ((SameScreen(u, z) /\ SameHeld(u, z)) \/ Failed(z))
    BY <1>1, <2>1, ResolvedPasses, ResolvedKeeps DEF Free, Keeps
  <2> HIDE DEF z
  <2> QED BY <1>1, <1>7, <2>2, GainsSound DEF SameHeld, Plain, Failed
<1>8. CASE x.then = "nothing"
  BY <1>8 DEF Released
<1> QED BY <1>2, <1>3, <1>4, <1>5, <1>6, <1>7, <1>8

LEMMA ListSound ==
  ASSUME NEW s, BrowserInv(s), Contents(s), Sound(s), mode \in Modes,
         NEW q \in s.reqs, q.ans # None, q.kind = "list"
  PROVE  Sound(Arrives(s, q))
<1> DEFINE p == Without(s, q)
           one == <<q.ws, q.id>>
           t == ListCommitted(p, q)
           last == LastWaits(t, one)
           u == Unwaited(t, one)
           z == Arrives(s, q)
<1>0. SUFFICES Sound(z)
  OBVIOUS
<1>1. Client(s) /\ Net(s) /\ q \in RequestRecord /\ RequestOK(q) /\ Set
  BY DEF BrowserInv, Client, Browser, Net, RequestOK
<1>2. q.ws \in Workspaces /\ q.ans.ver \in Versions /\ q.ans.out \in {"ok", "failed"}
  BY <1>1 DEF RequestOK, RequestRecord, AnswerRecord, Maybe
<1>3. /\ Client(p) /\ SameRest(s, p) /\ p.reqs = s.reqs \ {q} /\ p.waits = s.waits
  BY <1>1, TakenFacts
<1>4. z = IF last = {} THEN u ELSE Released(u, CHOOSE x \in last : TRUE)
  BY DEF Arrives, ListArrives, Without, LastWaits, Unwaited
<1>5. Committed(p, q, t)
  <2> HIDE DEF p
  <2> QED BY <1>2, <1>3, CommittedFacts
<1>6. Client(t) /\ Stored(s, q, t) /\ Repaints(s, q, t)
  BY <1>1, CommittedAdvances
<1>7. Taken(s, u, last)
  <2>1. Committed(Without(s, q), q, t)
    BY <1>5
  <2> HIDE DEF p, t
  <2> QED BY <2>1, ListTaken
<1> HIDE DEF p, t, z
<1>8. SameRest(s, t) /\ t.reqs = s.reqs \ {q} /\ t.waits = s.waits
  BY <1>3, <1>5 DEF Committed, SameRest, SameNet
<1>9. Sound(t)
  BY <1>1, <1>6, <1>8, CommittedSound
<1>10. Sound(u) \/ \E x \in last : x.then = "overview"
  BY <1>6, <1>9, UnwaitedSound
<1> HIDE DEF u, last
<1>11. CASE last = {}
  BY <1>4, <1>10, <1>11
<1>12. CASE last # {}
  <2>1. PICK x : x = CHOOSE y \in last : TRUE
    OBVIOUS
  <2>2. x \in last /\ \A y \in last : y = x
    BY <1>7, <1>12, <2>1 DEF Taken
  <2>3. z = Released(u, x)
    BY <1>4, <1>12, <2>1
  <2>4. Sound(u) \/ x.then = "overview"
    BY <1>10, <2>2
  <2> QED BY <1>1, <1>7, <2>2, <2>3, <2>4, ReleasedSound
<1> QED BY <1>11, <1>12

LEMMA ArrivesSound ==
  ASSUME NEW s, BrowserInv(s), Contents(s), Light(s), Sound(s), mode \in Modes,
         NEW q \in s.reqs, q.ans # None
  PROVE  Sound(Arrives(s, q))
<1>1. Client(s) /\ Net(s) /\ q.kind \in {"list", "detail", "runs", "resolve"}
  BY DEF BrowserInv, Client, Browser, RequestRecord
<1> QED BY <1>1, RunAnswerSound, ResolveSound, ListSound

\* The screen and what it shows are as they were, and so is what is asked for.
LEMMA SameSound ==
  ASSUME NEW s, NEW t, SameScreen(s, t), Sound(s), Busy(s) => Busy(t), Moved(s) => Moved(t),
         t.snap = s.snap, t.detail = s.detail, t.list = s.list,
         t.hash.view = s.hash.view, t.hash.ws = s.hash.ws, t.hash.run = s.hash.run
  PROVE  Sound(t)
<1>1. Disclosed(t) = Disclosed(s) /\ Throws(t) = Throws(s) /\ ListsOf(t) = ListsOf(s)
  BY DEF Disclosed, Throws, ListsOf, Deep
<1>2. Fits(s) => Fits(t)
  BY DEF Fits, KindsAt, Deep, Subject, SameScreen
<1>3. Faithful(s) => Faithful(t)
  BY <1>1, <1>2 DEF Faithful, RunTrue, RunsTrue, OverviewTrue, SameScreen
<1> QED BY <1>3 DEF Sound, Plain, SameScreen

LEMMA SameViewSound ==
  ASSUME NEW s, NEW t, SameView(s, t), SameHeld(s, t), Sound(s)
  PROVE  Sound(t)
<1>1. Busy(s) => Busy(t)
  BY DEF SameView, SameNet, Busy, ListComing
<1>2. Moved(s) => Moved(t)
  BY DEF SameView, Moved
<1>3. /\ SameScreen(s, t) /\ t.snap = s.snap /\ t.detail = s.detail /\ t.list = s.list
      /\ t.hash = s.hash
  BY DEF SameView, SameHeld
<1> QED BY <1>1, <1>2, <1>3, SameSound

\* The lists of some sources are asked for again.
LEMMA RefetchSound ==
  ASSUME NEW s, Client(s), Net(s), Set, NEW W \in SUBSET Workspaces, W # {},
         NEW then \in {"deep", "nothing"}, Sound(s)
  PROVE  Sound(RefetchWorkspaceList(s, W, then, None))
<1> DEFINE t == RefetchWorkspaceList(s, W, then, None)
<1>1. None \in Maybe(Runs) /\ then \in {"land", "overview", "deep", "resolve", "nothing"}
  BY DEF Maybe
<1>2. Passes(s, t) /\ SameScreen(s, t) /\ SameHeld(s, t)
  BY <1>1, RefetchPasses
<1>3. Refetched(s, t, W, then)
  BY <1>1, RefetchFacts
<1>4. Gains(s, t)
  BY <1>3, RefetchGains
<1> HIDE DEF t
<1>5. Sound(t)
  BY <1>2, <1>4, GainsSound DEF SameHeld
<1> QED BY <1>5 DEF t

LEMMA InvalidationSound ==
  ASSUME NEW s, Client(s), Net(s), mode \in Modes, Sound(s), NEW e, e.seq \in Nat, e.ws \in Sources
  PROVE  Sound(HandleInvalidation(s, e))
<1> DEFINE t == [s EXCEPT !.lastEventId = IF @ = None \/ e.seq > @ THEN e.seq ELSE @]
           W == IF Anomalous(s, e) THEN Workspaces ELSE {e.ws}
           then == IF Deep(s.hash) /\ s.hash.ws \in W THEN "deep" ELSE "nothing"
           z == HandleInvalidation(s, e)
<1>0. SUFFICES Sound(z)
  OBVIOUS
<1>1. z = IF ~Set THEN RefreshSingleFlight(t) ELSE RefetchWorkspaceList(t, W, then, None)
  BY DEF HandleInvalidation
<1>2. Client(t) /\ SameView(s, t) /\ SameHeld(s, t)
  BY DEF Client, Browser, SameView, SameNet, SameScreen, SameHeld, Maybe
<1> HIDE DEF t, z
<1>3. Net(t) /\ Sound(t)
  BY <1>2, SameViewSound DEF SameView, SameNet, Net, Listed
<1>4. Set => W \in SUBSET Workspaces /\ W # {}
  BY ClientAssumption DEF Sources, Set
<1>5. then \in {"deep", "nothing"}
  OBVIOUS
<1> HIDE DEF W, then
<1>6. Set => Sound(RefetchWorkspaceList(t, W, then, None))
  BY <1>2, <1>3, <1>4, <1>5, RefetchSound
<1>7. Sound(RefreshSingleFlight(t))
  BY <1>2, <1>3, SingleFlightSound
<1> QED BY <1>1, <1>6, <1>7

LEMMA StreamSound ==
  ASSUME NEW s, Client(s), Net(s), mode \in Modes, Sound(s), NEW z \in {StreamOpened(s), StreamFailed(s)}
  PROVE  Sound(z)
<1>1. PICK t : /\ Client(t) /\ Net(t) /\ SameView(s, t) /\ SameHeld(s, t)
               /\ z \in {t, RefreshSingleFlight(t)}
  BY StreamQuiet
<1> QED BY <1>1, SameViewSound, SingleFlightSound

LEMMA GoToSound ==
  ASSUME NEW s, BrowserInv(s), ~s.pending, NEW r, AddressFits(r), Sound(s)
  PROVE  Sound(GoTo(s, r))
<1> DEFINE t == GoTo(s, r)
<1>0. SUFFICES Sound(t)
  OBVIOUS
<1>1. /\ Client(s) /\ s.base = UnderlyingKey(s.hash)
      /\ s.hash \in AddressType /\ r \in AddressType
  BY DEF BrowserInv, Addressed, Client, Browser, AddressFits, WellFormed, AddressType
<1>2. /\ t.reqs = s.reqs /\ t.waits = s.waits /\ t.snap = s.snap /\ t.detail = s.detail
      /\ t.list = s.list /\ t.again = s.again /\ t.hash = r /\ t.pending = (r # s.hash)
      /\ t.base = s.base /\ SameScreen(s, t)
  BY <1>1 DEF GoTo, Client, Browser, SameScreen
<1> HIDE DEF t
<1>3. CASE Moved(t)
  BY <1>3 DEF Sound
<1>4. CASE ~Moved(t)
  <2>1. r.view = s.hash.view /\ r.ws = s.hash.ws /\ r.run = s.hash.run
    <3>1. UnderlyingKey(s.hash) = UnderlyingKey(r)
      BY <1>1, <1>2, <1>4 DEF Moved
    <3> QED BY <1>1, <3>1 DEF UnderlyingKey, AddressType
  <2>2. Busy(s) => Busy(t)
    BY <1>2, <2>1 DEF Busy, ListComing
  <2>3. ~Moved(s)
    BY DEF Moved
  <2> QED BY <1>2, <2>1, <2>2, <2>3, SameSound
<1> QED BY <1>3, <1>4

LEMMA ServerSound ==
  ASSUME NEW s, Client(s), Sound(s), NEW q \in s.reqs, NEW p \in RequestRecord,
         p.kind = q.kind, p.ws = q.ws, p.fresh = q.fresh
  PROVE  Sound([s EXCEPT !.reqs = (@ \ {q}) \cup {p}])
<1> DEFINE t == [s EXCEPT !.reqs = (@ \ {q}) \cup {p}]
<1>0. SUFFICES Sound(t)
  OBVIOUS
<1>1. /\ t.reqs = (s.reqs \ {q}) \cup {p} /\ t.waits = s.waits /\ SameHeld(s, t) /\ SameScreen(s, t)
      /\ t.again = s.again /\ t.hash = s.hash /\ t.pending = s.pending /\ t.base = s.base
  BY DEF Client, Browser, SameHeld, SameScreen
<1> HIDE DEF t
<1>2. \A o \in s.reqs : o \in t.reqs \/ o = q
  BY <1>1
<1>3. p \in t.reqs
  BY <1>1
<1>4. Busy(s) => Busy(t)
  BY <1>1, <1>2, <1>3 DEF Busy, ListComing
<1>5. Moved(s) => Moved(t)
  BY <1>1 DEF Moved
<1> QED BY <1>1, <1>4, <1>5, SameSound DEF SameHeld

\* Only the pane moves: the record of the failure is replayed, or what was shown
\* of what is held is shown again.
LEMMA ManualSound ==
  ASSUME NEW s, BrowserInv(s), ManualOnly(Handled(s)), Sound(s)
  PROVE  Sound(ManualMoved(Handled(s)))
<1> DEFINE h == Handled(s)
           t == [h EXCEPT !.manual = h.hash.manual]
           z == ManualMoved(h)
<1>0. SUFFICES Sound(z)
  OBVIOUS
<1>1. /\ Client(s) /\ Client(h) /\ Net(h) /\ h.pending = FALSE /\ h.hash = s.hash /\ h.base = s.base
      /\ SameHeld(s, h) /\ SameScreen(s, h) /\ h.reqs = s.reqs /\ h.waits = s.waits
  BY HandledFacts, HandledHeld DEF BrowserInv
<1>2. h.again = s.again
  BY DEF Handled, BrowserInv, Client, Browser
<1>3. ~Moved(s) /\ s.painted.kind # "blank"
  BY <1>1 DEF ManualOnly, Moved, SameScreen
<1>4. z = IF t.lastPaint # None THEN ReplayLastPaint(t) ELSE RenderCurrentGuarded(t)
  BY DEF ManualMoved
<1> HIDE DEF h, z
<1>5. /\ Client(t) /\ t.list = h.list /\ t.reqs = h.reqs /\ t.waits = h.waits /\ SameScreen(h, t)
      /\ t.hash = h.hash /\ t.again = h.again
  BY <1>1 DEF Client, Browser, AddressType, SameScreen
<1> HIDE DEF t
<1>6. Net(t)
  BY <1>1, <1>5 DEF Net, Listed
<1>7. CASE t.lastPaint # None
  <2>1. Failed(z)
    BY <1>4, <1>5, <1>7, ReplayShown
  <2> QED BY <2>1 DEF Sound, Plain, Failed
<1>8. CASE t.lastPaint = None
  <2>1. Passes(t, z) /\ Gains(t, z) /\ Painted(z)
    BY <1>4, <1>5, <1>6, <1>8, GuardedPasses, GuardedPaints DEF Paints
  <2>2. Faithful(s) \/ Busy(s)
    <3>1. s.painted.kind # "failure"
      BY <1>1, <1>5, <1>8 DEF BrowserInv, Recorded, SameScreen
    <3> QED BY <1>3, <3>1 DEF Sound, Plain
  <2>3. CASE Busy(s)
    <3>1. Busy(t)
      BY <1>1, <1>2, <1>5, <2>3 DEF Busy, ListComing
    <3> QED BY <2>1, <3>1 DEF Gains, Sound
  <2>4. CASE Faithful(s)
    <3>1. Set /\ s.hash.view = "runs" => s.list # None
      BY <1>1, <1>5, <1>8, <2>4 DEF Faithful, Fits, KindsAt, Deep, RunsTrue, BrowserInv, Recorded, SameScreen
    <3>2. z.hash = s.hash /\ z.list = s.list
      BY <1>1, <1>5, <2>1 DEF Passes, Sheds, Lasts, SameAddress, SameHeld
    <3> QED BY <2>1, <3>1, <3>2, PaintedFaithful DEF Unread, Sound
  <2> QED BY <2>2, <2>3, <2>4
<1> QED BY <1>7, <1>8

LEMMA RouteSound ==
  ASSUME NEW s, BrowserInv(s), Sound(s), mode \in Modes
  PROVE  Sound(RouteChanged(Handled(s)))
<1> DEFINE h == Handled(s)
           z == RouteChanged(h)
<1>0. SUFFICES Sound(z)
  OBVIOUS
<1>1. CASE ManualOnly(h)
  <2>1. z = ManualMoved(h)
    BY <1>1 DEF RouteChanged
  <2> HIDE DEF z
  <2> QED BY <1>1, <2>1, ManualSound
<1>2. CASE ~ManualOnly(h)
  <2>1. PICK x : Enters(Routed(h), x, z, h.force)
    BY <1>2, RouteEnters
  <2>2. Client(x) /\ Net(x)
    BY <2>1 DEF Enters
  <2>3. CASE z = RefreshSingleFlight(x)
    <3> HIDE DEF z
    <3> QED BY <2>2, <2>3, SingleFlightSound
  <2>4. CASE z # RefreshSingleFlight(x)
    <3> DEFINE g == RenderCurrentGuarded(x)
    <3>1. z \in {g, RefreshSingleFlight(g)} /\ ~Unread(x)
      BY <2>1, <2>4 DEF Enters
    <3> HIDE DEF z
    <3>2. Passes(x, g) /\ Gains(x, g) /\ Painted(g)
      BY <2>2, GuardedPasses, GuardedPaints DEF Paints
    <3> HIDE DEF g
    <3>3. ~Unread(g)
      BY <3>1, <3>2 DEF Unread, Passes, Sheds, Lasts, SameAddress
    <3>4. Sound(g)
      BY <3>2, <3>3, PaintedFaithful DEF Sound
    <3>5. Sound(RefreshSingleFlight(g))
      BY <3>2, SingleFlightSound DEF Gains
    <3> QED BY <3>1, <3>4, <3>5
  <2> QED BY <2>3, <2>4
<1> QED BY <1>1, <1>2

-----------------------------------------------------------------------------
(***************************************************************************)
(* What the stream announces.                                              *)
(***************************************************************************)
\* Nothing that was told, or is on its way, is of a version to come: V has the
\* versions of the sources, h the hub and k the wire.
Foretold(e, V) == \A w \in All : e.at[w] <= V[w]
Announced(T, V) == T \in [All -> Nat] /\ \A w \in All : T[w] <= V[w]
Hinted(h, k, V) ==
    /\ h.mail # None => Foretold(h.mail, V)
    /\ h.queued # None => Foretold(h.queued, V)
    /\ \A i \in 1 .. Len(k) : Foretold(k[i], V)
Promised(h, k, V, T) == Announced(T, V) /\ Hinted(h, k, V)

ToldInv == Promised(hub, wire, ver, told) /\ Tells(b, told) /\ Sound(b)
StillTold == Promised(hub', wire', ver', told') /\ Tells(b', told') /\ Sound(b')

\* The versions of the sources only grow.
LEMMA VersionsGrow ==
  ASSUME ClientInv, ClientInv', [Next]_vars
  PROVE  ver \in [All -> Nat] /\ ver' \in [All -> Nat] /\ \A w \in All : ver[w] <= ver'[w]
<1>1. ver \in [All -> Nat] /\ ver' \in [All -> Nat]
  <2>1. ver \in [All -> 0 .. budget.changes] /\ ver' \in [All -> 0 .. budget'.changes]
    BY DEF ClientInv, Outside
  <2>2. (\A w \in All : ver[w] \in Nat) /\ \A w \in All : ver'[w] \in Nat
    BY <2>1
  <2> QED BY <2>1, <2>2
<1>2. ASSUME NEW w \in Sources, Publish(w) PROVE \A x \in All : ver[x] <= ver'[x]
  <2>1. ver' = [ver EXCEPT ![w] = @ + 1] /\ w \in All
    BY <1>2 DEF Publish, Sources, All
  <2> QED BY <1>1, <2>1
<1>3. CASE ver' = ver
  BY <1>1, <1>3
<1>4. ver' = ver \/ \E w \in Sources : Publish(w)
  BY DEF vars, Next, Relay, HubRestarts, StreamOpens, StreamBreaks, DeliverEvent, ServerAnswers,
         ReceiveAnswer, HashChange, Navigate, ToggleManual, Refetch, Retry, RetrySource, Operator
<1> QED BY <1>1, <1>2, <1>3, <1>4

\* What was told stays so as they grow.
LEMMA ForetoldGrows ==
  ASSUME NEW e \in Hints, NEW V \in [All -> Nat], NEW V2 \in [All -> Nat], \A w \in All : V[w] <= V2[w],
         Foretold(e, V)
  PROVE  Foretold(e, V2)
BY DEF Foretold, Hints

LEMMA PromisedGrows ==
  ASSUME Outside, Promised(hub, wire, ver, told),
         ver \in [All -> Nat], ver' \in [All -> Nat], \A w \in All : ver[w] <= ver'[w]
  PROVE  Promised(hub, wire, ver', told)
<1>1. /\ hub.mail \in Maybe(Hints) /\ hub.queued \in Maybe(Hints)
      /\ \A i \in 1 .. Len(wire) : wire[i] \in Hints
  BY DEF Outside
<1>2. Announced(told, ver')
  BY DEF Promised, Announced
<1>3. Hinted(hub, wire, ver')
  BY <1>1, ForetoldGrows DEF Promised, Hinted, Maybe
<1> QED BY <1>2, <1>3 DEF Promised

\* The hub publishes, delivers and restarts.
LEMMA HubTold ==
  ASSUME ClientInv, ClientInv', [Next]_vars, ToldInv,
         (\E w \in Sources : Publish(w)) \/ Relay \/ HubRestarts
  PROVE  StillTold
<1>1. /\ Outside /\ Promised(hub, wire, ver, told) /\ told' = told /\ b' = b
      /\ hub \in [on: BOOLEAN, seq: Nat, mail: Maybe(Hints), queued: Maybe(Hints)] /\ wire \in Seq(Hints)
  BY DEF ClientInv, Outside, ToldInv, Publish, Relay, HubRestarts
<1>2. ver \in [All -> Nat] /\ ver' \in [All -> Nat] /\ \A w \in All : ver[w] <= ver'[w]
  BY VersionsGrow
<1>3. Announced(told, ver') /\ Hinted(hub, wire, ver')
  BY <1>1, <1>2, PromisedGrows DEF Promised
<1>4. Hinted(hub', wire', ver')
  <2>1. ASSUME NEW w \in Sources, Publish(w) PROVE Hinted(hub', wire', ver')
    <3> DEFINE hint == [seq |-> hub.seq + 1, ws |-> w, at |-> ver']
    <3>1. /\ wire' = wire
          /\ hub' = [hub EXCEPT !.seq = @ + 1,
                                !.mail = IF hub.on /\ @ = None THEN hint ELSE @,
                                !.queued = IF hub.on /\ hub.mail # None THEN hint ELSE @]
      BY <2>1 DEF Publish
    <3>2. Foretold(hint, ver')
      BY <1>2 DEF Foretold
    <3> HIDE DEF hint
    <3>3. hub'.mail \in {hint, hub.mail} /\ hub'.queued \in {hint, hub.queued}
      BY <1>1, <3>1
    <3> QED BY <1>3, <3>1, <3>2, <3>3 DEF Hinted
  <2>2. CASE Relay
    <3>1. /\ hub.mail # None /\ hub'.mail = hub.queued /\ hub'.queued = None
          /\ wire' = Append(wire, hub.mail)
      BY <1>1, <2>2 DEF Relay
    <3>2. hub.mail \in Hints
      BY <1>1, <3>1 DEF Maybe
    <3>3. ASSUME NEW i \in 1 .. Len(wire') PROVE Foretold(wire'[i], ver')
      <4>1. Len(wire') = Len(wire) + 1 /\ wire'[Len(wire) + 1] = hub.mail
            /\ \A j \in 1 .. Len(wire) : wire'[j] = wire[j]
        BY <1>1, <3>1, <3>2
      <4>2. Len(wire) \in Nat
        BY <1>1
      <4>3. i = Len(wire) + 1 \/ i \in 1 .. Len(wire)
        BY <4>1, <4>2
      <4> QED BY <1>3, <3>1, <4>1, <4>3 DEF Hinted
    <3> QED BY <1>3, <3>1, <3>3 DEF Hinted
  <2>3. CASE HubRestarts
    <3>1. hub'.mail = hub.mail /\ hub'.queued = None /\ wire' = wire
      BY <1>1, <2>3 DEF HubRestarts
    <3> QED BY <1>3, <3>1 DEF Hinted
  <2> QED BY <2>1, <2>2, <2>3
<1> QED BY <1>1, <1>3, <1>4 DEF ToldInv, StillTold, Promised

\* A step that neither tells nor changes a source.
LEMMA PromisedStays ==
  ASSUME ToldInv, ver' = ver, hub' = hub, wire' = wire, told' = told, Tells(b', told), Sound(b')
  PROVE  StillTold
BY DEF ToldInv, StillTold

\* The stream opens or breaks: what was on its way is gone.
LEMMA OpenTold ==
  ASSUME ClientInv, ToldInv, StreamOpens \/ StreamBreaks
  PROVE  StillTold
<1>1. /\ Client(b) /\ Net(b) /\ mode \in Modes /\ ver' = ver /\ told' = told
      /\ hub \in [on: BOOLEAN, seq: Nat, mail: Maybe(Hints), queued: Maybe(Hints)]
      /\ Promised(hub, wire, ver, told) /\ Tells(b, told) /\ Sound(b)
  BY DEF ClientInv, Outside, BrowserInv, ToldInv, StreamOpens, StreamBreaks
<1>2. b' \in {StreamOpened(b), StreamFailed(b)}
  BY DEF StreamOpens, StreamBreaks
<1>3. Tells(b', told) /\ Sound(b')
  BY <1>1, <1>2, StreamTells, StreamSound
<1>4. hub'.mail = None /\ hub'.queued = None /\ wire' \in {wire, <<>>}
  BY <1>1 DEF StreamOpens, StreamBreaks
<1>5. Hinted(hub', wire', ver)
  BY <1>1, <1>4 DEF Promised, Hinted
<1> QED BY <1>1, <1>3, <1>5 DEF StillTold, Promised

\* An event is delivered: it tells no more than the sources have.
LEMMA DeliveryTold ==
  ASSUME ClientInv, ContentInv, ToldInv, DeliverEvent
  PROVE  StillTold
<1>1. /\ Client(b) /\ Net(b) /\ mode \in Modes /\ ver' = ver /\ hub' = hub /\ wire \in Seq(Hints)
      /\ Promised(hub, wire, ver, told) /\ Tells(b, told) /\ Sound(b)
  BY DEF ClientInv, Outside, BrowserInv, ToldInv, DeliverEvent
<1>2. PICK e : e = Head(wire)
  OBVIOUS
<1>3. /\ wire # <<>> /\ wire' = Tail(wire) /\ b' = HandleInvalidation(b, e)
      /\ told' = [w \in All |-> IF Anomalous(b, e) \/ w = e.ws THEN e.at[w] ELSE told[w]]
  BY <1>2 DEF DeliverEvent, Anomalous
<1>4. e \in Hints /\ e = wire[1] /\ 1 \in 1 .. Len(wire)
  BY <1>1, <1>2, <1>3
<1>5. e.seq \in Nat /\ e.ws \in Sources /\ e.at \in [All -> Nat]
  BY <1>4 DEF Hints
<1>6. Foretold(e, ver) /\ Announced(told, ver)
  BY <1>1, <1>4 DEF Promised, Hinted
<1>7. Announced(told', ver)
  <2>1. \A w \in All : told'[w] \in {e.at[w], told[w]}
    BY <1>3
  <2>2. \A w \in All : e.at[w] \in Nat /\ told[w] \in Nat
    BY <1>5, <1>6 DEF Announced
  <2>3. told' \in [All -> Nat]
    <3>1. \A w \in All : (IF Anomalous(b, e) \/ w = e.ws THEN e.at[w] ELSE told[w]) \in Nat
      BY <2>2
    <3> QED BY <1>3, <3>1
  <2> QED BY <1>6, <2>1, <2>3 DEF Announced, Foretold
<1>8. Hinted(hub, wire', ver)
  <2>1. \A i \in 1 .. Len(wire') : i + 1 \in 1 .. Len(wire) /\ wire'[i] = wire[i + 1]
    BY <1>1, <1>3
  <2> QED BY <1>1, <2>1 DEF Promised, Hinted
<1>9. ~Anomalous(b, e) => \A w \in Sources \ {e.ws} : told'[w] = told[w]
  BY <1>3 DEF Sources, All
<1>10. Tells(b', told')
  <2>1. Contents(b)
    BY DEF ContentInv
  <2>2. Tells(HandleInvalidation(b, e), told')
    <3> DEFINE U == told'
    <3>1. ~Anomalous(b, e) => \A w \in Sources \ {e.ws} : U[w] = told[w]
      BY <1>9
    <3> HIDE DEF U
    <3>2. Tells(HandleInvalidation(b, e), U)
      BY <1>1, <1>5, <2>1, <3>1, InvalidationTells
    <3> QED BY <3>2 DEF U
  <2> QED BY <1>3, <2>2
<1>11. Sound(b')
  BY <1>1, <1>3, <1>5, InvalidationSound
<1> QED BY <1>1, <1>7, <1>8, <1>10, <1>11 DEF StillTold, Promised

\* An answer is received, or a hashchange dispatched.
LEMMA BrowserTold ==
  ASSUME ClientInv, LightInv, ContentInv, ToldInv, (\E q \in b.reqs : ReceiveAnswer(q)) \/ HashChange
  PROVE  StillTold
<1>1. /\ BrowserInv(b) /\ Client(b) /\ Net(b) /\ Light(b) /\ Contents(b) /\ mode \in Modes
      /\ Tells(b, told) /\ Sound(b)
      /\ ver' = ver /\ hub' = hub /\ wire' = wire /\ told' = told
  BY DEF ClientInv, LightInv, Outside, BrowserInv, ContentInv, ToldInv, ReceiveAnswer, HashChange
<1>2. ASSUME NEW q \in b.reqs, ReceiveAnswer(q) PROVE Tells(b', told) /\ Sound(b')
  <2>1. q.ans # None /\ b' = Arrives(b, q)
    BY <1>2 DEF ReceiveAnswer
  <2>2. q.kind \in {"list", "detail", "runs", "resolve"}
    BY <1>1 DEF Client, Browser, RequestRecord
  <2>3. Tells(Arrives(b, q), told)
    BY <1>1, <2>1, <2>2, RunAnswerTells, ResolveTells, ListTells
  <2>4. Sound(Arrives(b, q))
    BY <1>1, <2>1, ArrivesSound
  <2> QED BY <2>1, <2>3, <2>4
<1>3. ASSUME HashChange PROVE Tells(b', told) /\ Sound(b')
  <2>1. b' = RouteChanged(Handled(b))
    BY <1>3 DEF HashChange, Handled
  <2> QED BY <1>1, <2>1, RouteTells, RouteSound
<1> QED BY <1>1, <1>2, <1>3, PromisedStays

\* A request is answered from its source as it now is.
LEMMA ServerTold ==
  ASSUME ClientInv, ToldInv, NEW q \in b.reqs, ServerAnswers(q)
  PROVE  StillTold
<1>1. /\ Client(b) /\ Net(b) /\ q \in RequestRecord /\ q.ans = None
      /\ Announced(told, ver) /\ Tells(b, told) /\ Sound(b)
      /\ ver' = ver /\ hub' = hub /\ wire' = wire /\ told' = told
  BY DEF ClientInv, BrowserInv, Client, Browser, ToldInv, Promised, ServerAnswers
<1>2. PICK out \in Answers(q.kind), run \in Runs \cup {None} :
        b' = [b EXCEPT !.reqs = (@ \ {q}) \cup
               {[q EXCEPT !.ans = [out |-> out, run |-> run, ver |-> ver[q.ws]]]}]
  BY DEF ServerAnswers
<1> DEFINE ans == [out |-> out, run |-> run, ver |-> ver[q.ws]]
           p == [q EXCEPT !.ans = ans]
<1>3. out \in Outcomes
  BY DEF Answers, RunFailures, Outcomes, FetchFailures, Absences
<1>4. ver \in [All -> Versions]
  <2>1. ver \in [All -> 0 .. budget.changes] /\ budget.changes \in Nat /\ budget.changes <= MaxChanges
    BY DEF ClientInv, Outside
  <2> QED BY ONLY <2>1, CountsAreVersions
<1>5. ans \in AnswerRecord /\ ans.ver = ver[q.ws] /\ q.ws \in All
  <2>1. q.ws \in All /\ run \in Maybe(Runs)
    BY <1>1, <1>2 DEF RequestRecord, Maybe
  <2> QED BY <1>3, <1>4, <2>1 DEF AnswerRecord
<1>6. b' = [b EXCEPT !.reqs = (@ \ {q}) \cup {p}]
  BY <1>2
<1> HIDE DEF ans
<1>7. /\ p \in RequestRecord /\ p.kind = q.kind /\ p.ws = q.ws /\ p.run = q.run
      /\ p.fresh = q.fresh /\ p.ans = ans
  BY <1>1, <1>5 DEF RequestRecord, Maybe
<1> HIDE DEF p
<1>8. p.ans.ver >= told[q.ws]
  <2>1. ver[q.ws] \in Nat /\ told[q.ws] \in Nat /\ told[q.ws] <= ver[q.ws]
    BY <1>1, <1>4, <1>5, VersionsAreNat DEF Announced
  <2> QED BY <1>5, <1>7, <2>1
<1>9. Tells(b', told) /\ Sound(b')
  BY <1>1, <1>6, <1>7, <1>8, ServerTells, ServerSound
<1> QED BY <1>1, <1>9, PromisedStays

LEMMA SameViewTells ==
  ASSUME NEW s, NEW t, SameView(s, t), SameHeld(s, t), NEW T, Tells(s, T)
  PROVE  Tells(t, T)
<1>1. /\ t.reqs = s.reqs /\ t.waits = s.waits /\ t.hash = s.hash /\ t.pending = s.pending
      /\ t.routed = s.routed /\ t.base = s.base /\ t.again = s.again
      /\ t.snap = s.snap /\ t.detail = s.detail
  BY DEF SameView, SameNet, SameHeld
<1> QED BY ONLY <1>1, Tells(s, T)
        DEF Tells, ListsTold, RunTold, Pursued, DeepWait, AnswersTold, DetailTold, Asking, Surveyed,
            Routes, Fetched, Moved, At

\* The operator acts.
LEMMA ActTold ==
  ASSUME ClientInv, ContentInv, ToldInv,
         \/ \E v \in Visitable : Navigate(v)
         \/ ToggleManual \/ Refetch \/ Retry
         \/ \E w \in Sources : RetrySource(w)
  PROVE  StillTold
<1>1. /\ BrowserInv(b) /\ Client(b) /\ Net(b) /\ AddressFits(b.hash) /\ mode \in Modes
      /\ b.hash.manual \in BOOLEAN /\ Contents(b) /\ Tells(b, told) /\ Sound(b)
  BY DEF ClientInv, Outside, BrowserInv, Client, AddressFits, WellFormed, ContentInv, ToldInv
<1>2. ASSUME NEW next, Operator(next), Tells(next, told), Sound(next) PROVE StillTold
  BY <1>2, PromisedStays DEF Operator
<1>3. Tells(RefreshSingleFlight(b), told) /\ Sound(RefreshSingleFlight(b))
  BY <1>1, SingleFlightTells, SingleFlightSound DEF Tells
<1>4. ASSUME NEW s, BrowserInv(s), ~s.pending, Tells(s, told), Sound(s), NEW r, AddressFits(r)
      PROVE  Tells(GoTo(s, r), told) /\ Sound(GoTo(s, r))
  BY <1>4, GoToTells, GoToSound
<1>5. ASSUME NEW v \in Visitable, Navigate(v) PROVE StillTold
  <2> DEFINE r == Address(v, b.hash.manual)
  <2>1. AddressFits(r)
    BY <1>1, VisitsFit
  <2>2. Operator(GoTo(b, r)) /\ ~b.pending
    BY <1>5 DEF Navigate, Operator
  <2> HIDE DEF r
  <2> QED BY <1>1, <1>2, <1>4, <2>1, <2>2
<1>6. ASSUME ToggleManual PROVE StillTold
  <2> DEFINE r == [Canonical(b.hash) EXCEPT !.manual = ~@]
  <2>1. AddressFits(r)
    BY <1>1, AddressesFit
  <2>2. Operator(GoTo(b, r)) /\ ~b.pending
    BY <1>6 DEF ToggleManual, Operator
  <2> HIDE DEF r
  <2> QED BY <1>1, <1>2, <1>4, <2>1, <2>2
<1>7. ASSUME Refetch PROVE StillTold
  BY <1>2, <1>3, <1>7 DEF Refetch
<1>8. ASSUME Retry PROVE StillTold
  <2> DEFINE r == [Canonical(b.hash) EXCEPT !.follow = TRUE]
             f == [b EXCEPT !.force = TRUE]
  <2>1. Operator(IF b.hash.run # None /\ b.hash # r THEN GoTo(f, r) ELSE RefreshSingleFlight(b))
    BY <1>8 DEF Retry
  <2>2. b.hash.run # None => AddressFits(r)
    BY <1>1, AddressesFit
  <2>3. Client(f) /\ SameView(b, f) /\ SameHeld(b, f)
    BY <1>1 DEF Client, Browser, SameView, SameNet, SameScreen, SameHeld
  <2> HIDE DEF r, f
  <2>4. BrowserInv(f) /\ ~f.pending
    BY <1>1, <2>1, <2>3, SameViewInv DEF Operator, SameView
  <2>5. Tells(f, told) /\ Sound(f)
    BY <1>1, <2>3, SameViewTells, SameViewSound
  <2>6. CASE b.hash.run # None /\ b.hash # r
    BY <1>2, <1>4, <2>1, <2>2, <2>4, <2>5, <2>6
  <2>7. CASE ~(b.hash.run # None /\ b.hash # r)
    BY <1>2, <1>3, <2>1, <2>7
  <2> QED BY <2>6, <2>7
<1>9. ASSUME NEW w \in Sources, RetrySource(w) PROVE StillTold
  <2> DEFINE z == RefetchWorkspaceList(b, {w}, "nothing", None)
  <2>1. w \in b.painted.stale /\ Operator(z)
    BY <1>9 DEF RetrySource
  <2>2. w \in Workspaces
    BY <1>1, <2>1 DEF Client, Browser, ViewType
  <2>3. Set
    BY <1>9, <2>2, ClientAssumption DEF Sources, Set
  <2>4. Tells(z, told)
    BY <1>1, <2>2, <2>3, RetryTells
  <2>5. {w} \in SUBSET Workspaces /\ {w} # {}
    BY <2>2
  <2>6. Sound(z)
    BY <1>1, <2>3, <2>5, RefetchSound
  <2> HIDE DEF z
  <2> QED BY <1>2, <2>1, <2>4, <2>6
<1> QED BY <1>5, <1>6, <1>7, <1>8, <1>9

\* The mode is read by all of it, and never changes.
LEMMA ToldPrimed ==
  ASSUME mode' = mode, StillTold
  PROVE  ToldInv'
<1>1. Set' <=> Set
  BY DEF Set
<1>2. Tells(b, told)'
  BY <1>1 DEF StillTold, Tells, ListsTold, RunTold, Pursued, DeepWait, AnswersTold, DetailTold, Asking,
              Surveyed, Routes, Fetched, Moved, UnderlyingKey, At, Subject
<1>3. Throws(b)' = Throws(b') /\ Disclosed(b)' = Disclosed(b') /\ ListsOf(b)' = ListsOf(b')
  BY <1>1 DEF Throws, Deep, Disclosed, ListsOf
<1>4. RunTrue(b)' <=> RunTrue(b')
  BY <1>3 DEF RunTrue, Only
<1>5. RunsTrue(b)' <=> RunsTrue(b')
  BY <1>3 DEF RunsTrue, Only
<1>6. OverviewTrue(b)' <=> OverviewTrue(b')
  BY <1>3 DEF OverviewTrue
<1>7. Fits(b)' <=> Fits(b')
  BY DEF Fits, KindsAt, Deep, Subject
<1>8. Faithful(b)' <=> Faithful(b')
  BY <1>1, <1>4, <1>5, <1>6, <1>7 DEF Faithful
<1>9. Sound(b)'
  BY <1>8 DEF StillTold, Sound, Plain, Busy, ListComing, Moved, UnderlyingKey
<1>10. Promised(hub, wire, ver, told)'
  BY DEF StillTold, Promised, Announced, Hinted, Foretold
<1> QED BY <1>2, <1>9, <1>10 DEF ToldInv

LEMMA InitTold ==
  Init => ToldInv
<1> SUFFICES ASSUME Init PROVE ToldInv
  OBVIOUS
<1>1. PICK v \in Visitable : mode \in Modes /\ b = Boot(Address(v, v.manual))
  BY DEF Init
<1>2. v.manual \in BOOLEAN
  BY ClientAssumption DEF Visitable, WellFormed
<1>3. AddressFits(Address(v, v.manual))
  BY <1>2, VisitsFit
<1>4. Tells(b, told) /\ Underway(b)
  BY <1>1, <1>3, BootTells
<1>5. Sound(b)
  BY <1>4 DEF Underway, Sound, Plain
<1>6. Announced(told, ver)
  BY DEF Init, Announced
<1>7. Hinted(hub, wire, ver)
  BY DEF Init, Hinted
<1> QED BY <1>4, <1>5, <1>6, <1>7 DEF ToldInv, Promised

LEMMA NextTold ==
  ClientInv /\ LightInv /\ ContentInv /\ ToldInv /\ [Next]_vars
    => (ClientInv /\ LightInv /\ ContentInv /\ ToldInv)'
<1> SUFFICES ASSUME ClientInv, LightInv, ContentInv, ToldInv, [Next]_vars
             PROVE  (ClientInv /\ LightInv /\ ContentInv /\ ToldInv)'
  OBVIOUS
<1>1. ClientInv' /\ LightInv' /\ ContentInv'
  BY NextContent
<1>2. ASSUME UNCHANGED vars PROVE StillTold
  BY <1>2, PromisedStays DEF vars, ToldInv
<1>3. ASSUME Next PROVE StillTold
  <2>1. ASSUME (\E w \in Sources : Publish(w)) \/ Relay \/ HubRestarts PROVE StillTold
    BY <1>1, <2>1, HubTold
  <2>2. ASSUME StreamOpens \/ StreamBreaks PROVE StillTold
    BY <2>2, OpenTold
  <2>3. ASSUME DeliverEvent PROVE StillTold
    BY <2>3, DeliveryTold
  <2>4. ASSUME (\E q \in b.reqs : ReceiveAnswer(q)) \/ HashChange PROVE StillTold
    BY <2>4, BrowserTold
  <2>5. ASSUME NEW q \in b.reqs, ServerAnswers(q) PROVE StillTold
    BY <2>5, ServerTold
  <2>6. ASSUME \/ \E v \in Visitable : Navigate(v)
               \/ ToggleManual \/ Refetch \/ Retry
               \/ \E w \in Sources : RetrySource(w)
        PROVE  StillTold
    BY <2>6, ActTold
  <2> QED BY <1>3, <2>1, <2>2, <2>3, <2>4, <2>5, <2>6 DEF Next
<1>4. StillTold
  BY <1>2, <1>3
<1> QED BY <1>1, <1>4, ModeStays, ToldPrimed

-----------------------------------------------------------------------------
(***************************************************************************)
(* Theorems.                                                               *)
(***************************************************************************)
\* In every state what is held or answered is as new as what was told, or is
\* known to be stale, or is asked for again; the screen shows what is held, or
\* will be painted; and nothing that was told or is on its way is of a version
\* to come.
THEOREM ToldInvariant ==
  Spec => []ToldInv
<1>1. Init => ClientInv /\ LightInv /\ ContentInv /\ ToldInv
  BY InitInv, InitContent, InitTold DEF LightInv
<1> QED BY <1>1, NextTold, PTL DEF Spec

\* At rest nothing is asked for, and no address waits to be handled.
LEMMA RestIsQuiet ==
  ASSUME NEW s, BrowserInv(s), s.reqs = {}, ~s.pending
  PROVE  ~Busy(s) /\ ~Moved(s) /\ ~s.again /\ ~DeepWait(s) /\ ~Asking(s) /\ \A w : ~Fetched(s, w)
<1>1. s.waits = {}
  BY DEF BrowserInv, Net, Listed
<1>2. ~s.again
  BY <1>1 DEF BrowserInv, Flying, AwaitedIn
<1> QED BY <1>1, <1>2 DEF Busy, ListComing, Moved, DeepWait, Asking, Fetched

\* The rows that are held of a source at rest are as new as told, or the source
\* is known to be stale.
LEMMA RestingLists ==
  ASSUME NEW s, Client(s), Set, NEW T \in [All -> Nat], Tells(s, T),
         \A w : ~Fetched(s, w), NEW w \in Workspaces, s.snap[w].list # None
  PROVE  s.snap[w].list >= T[w] \/ s.snap[w].listErr
BY DEF Tells, ListsTold

\* So is the projection that is held of the address.
LEMMA RestingDetail ==
  ASSUME NEW s, BrowserInv(s), Contents(s), s.reqs = {}, ~s.pending, NEW T \in [All -> Nat], Tells(s, T),
         Deep(s.hash), s.detail # None
  PROVE  /\ At(s) = Subject(s.hash)
         /\ s.detail.ver >= T[s.detail.ws] \/ (Set /\ s.snap[s.detail.ws].detailErr)
<1>1. ~Moved(s) /\ ~s.again /\ ~DeepWait(s) /\ ~Asking(s)
  BY RestIsQuiet
<1>2. At(s) = Subject(s.hash)
  BY <1>1 DEF Contents, DetailAt
<1>3. s.routed = Subject(s.hash)
  BY DEF BrowserInv, Addressed
<1>4. DetailTold(s, T)
  BY <1>1 DEF Tells, RunTold, Pursued
<1> QED BY <1>1, <1>2, <1>3, <1>4 DEF DetailTold

\* What a delivered event announced is on the screen of a client at rest, or
\* the screen says that the source is stale: whatever was superseded, failed,
\* coalesced, lost with the stream or answered late, a run, the run list of a
\* source and the overview are never left painted from an older snapshot as
\* if they were current.
THEOREM ToldIsShownCorrect ==
  Spec => []ToldIsShown
<1>1. ClientInv /\ ContentInv /\ ToldInv => ToldIsShown
  <2> SUFFICES ASSUME BrowserInv(b), Contents(b), ToldInv, b.reqs = {}, ~b.pending
               PROVE  ToldIsShown
    BY DEF ClientInv, ContentInv, ToldIsShown, Settled
  <2>1. /\ Client(b) /\ told \in [All -> Nat] /\ Tells(b, told) /\ Sound(b)
    BY DEF BrowserInv, ToldInv, Promised, Announced
  <2>2. ~Busy(b) /\ ~Moved(b) /\ ~b.again /\ \A w : ~Fetched(b, w)
    BY RestIsQuiet
  <2>3. ASSUME b.painted.kind \in {"run", "runs", "overview"} PROVE Faithful(b)
    BY <2>1, <2>2, <2>3 DEF Sound, Plain
  <2>4. b.hash.view \in {"workspaces", "runs", "detail", "unit", "invalid"} /\ b.hash.ws \in All
    BY <2>1 DEF Client, Browser, AddressType
  <2>5. ASSUME b.painted.kind = "run" PROVE Current(b.painted.ws)
    <3>1. Fits(b) /\ RunTrue(b)
      BY <2>3, <2>5 DEF Faithful
    <3>2. Deep(b.hash) /\ b.hash.view # "runs" /\ b.painted.ws = b.hash.ws
      BY <2>4, <2>5, <3>1 DEF Fits, KindsAt, Deep, Subject
    <3>3. /\ b.detail # None /\ b.detail.run = b.hash.run
          /\ b.painted.ver = Only(b.detail.ws, b.detail.ver) /\ Disclosed(b) \subseteq b.painted.stale
      BY <3>1 DEF RunTrue
    <3>4. /\ At(b) = Subject(b.hash)
          /\ b.detail.ver >= told[b.detail.ws] \/ (Set /\ b.snap[b.detail.ws].detailErr)
      BY <2>1, <3>2, <3>3, RestingDetail
    <3>5. b.detail.ws = b.hash.ws
      BY <3>4 DEF At, Subject
    <3>6. b.painted.ver[b.hash.ws] = b.detail.ver
      BY <2>4, <3>3, <3>5 DEF Only
    <3>7. CASE b.detail.ver >= told[b.detail.ws]
      BY <3>2, <3>3, <3>5, <3>6, <3>7, <2>1, HeldTypes DEF Current
    <3>8. CASE Set /\ b.snap[b.detail.ws].detailErr
      <4>1. b.snap[b.hash.ws].detail = b.detail /\ b.hash.ws # None
        BY <3>3, <3>5, <3>8, ClientAssumption DEF Contents, Mirror
      <4>2. b.hash.ws \in Disclosed(b)
        BY <3>2, <3>3, <3>5, <3>8, <4>1 DEF Disclosed
      <4> QED BY <3>2, <3>3, <4>2 DEF Current
    <3> QED BY <3>4, <3>7, <3>8
  <2>6. ASSUME Set, b.painted.kind = "runs" PROVE Current(b.painted.ws)
    <3>1. Fits(b) /\ RunsTrue(b)
      BY <2>3, <2>6 DEF Faithful
    <3>2. b.hash.view = "runs" /\ b.painted.ws = b.hash.ws
      BY <2>4, <2>6, <3>1 DEF Fits, KindsAt, Deep, Subject
    <3>3. b.hash.ws \in Workspaces /\ b.hash.ws # None
      BY <2>1, <2>4, <2>6, <3>2, ClientAssumption DEF Client, AddressFits, All
    <3>4. b.list # None /\ b.list = b.snap[b.hash.ws].list
      BY <2>2, <2>6, <3>1, <3>2 DEF RunsTrue, Contents, RowsAt
    <3>5. b.painted.ver = Only(b.hash.ws, b.list) /\ Disclosed(b) \subseteq b.painted.stale
      BY <3>1 DEF RunsTrue
    <3>6. b.painted.ver[b.hash.ws] = b.list
      BY <2>4, <3>5 DEF Only
    <3>7. b.snap[b.hash.ws].list >= told[b.hash.ws] \/ b.snap[b.hash.ws].listErr
      BY <2>1, <2>2, <2>6, <3>3, <3>4, RestingLists
    <3>8. CASE b.snap[b.hash.ws].listErr
      <4>1. b.hash.ws \in Disclosed(b)
        BY <2>6, <3>2, <3>3, <3>4, <3>8 DEF Disclosed
      <4> QED BY <3>2, <3>5, <4>1 DEF Current
    <3>9. CASE b.snap[b.hash.ws].list >= told[b.hash.ws]
      BY <3>2, <3>4, <3>6, <3>9 DEF Current
    <3> QED BY <3>7, <3>8, <3>9
  <2>7. ASSUME b.painted.kind = "overview" PROVE \A w \in Workspaces : Current(w)
    <3>1. Fits(b)
      BY <2>3, <2>7 DEF Faithful
    <3>2. b.hash.view = "workspaces"
      BY <2>4, <2>7, <3>1 DEF Fits, KindsAt, Deep
    <3>3. ASSUME NEW w \in Workspaces PROVE Current(w)
      <4>1. b.painted.ver = ListsOf(b) /\ (b.snap[w].listErr => w \in b.painted.stale)
        BY <2>3, <2>7, <3>3 DEF Faithful, OverviewTrue
      <4>2. Set /\ w # None /\ w \in All
        BY <2>1, <3>2, ClientAssumption DEF Client, AddressFits, All
      <4>3. b.painted.ver[w] = b.snap[w].list
        BY <4>1, <4>2 DEF ListsOf
      <4>4. b.snap[w].list # None \/ b.snap[w].listErr
        BY <2>1, <2>2, <3>2 DEF Tells, Surveyed
      <4>5. b.snap[w].list # None => b.snap[w].list >= told[w] \/ b.snap[w].listErr
        BY <2>1, <2>2, <4>2, RestingLists
      <4> QED BY <4>1, <4>3, <4>4, <4>5 DEF Current
    <3> QED BY <3>3
  <2> QED BY <2>5, <2>6, <2>7 DEF ToldIsShown
<1> QED BY <1>1, ClientInvariant, ContentInvariant, ToldInvariant, PTL
-----------------------------------------------------------------------------
(***************************************************************************)
(* Only the operator, and the hashchange that follows, move the address    *)
(* and the pane, or force a retry.                                         *)
(***************************************************************************)
Steady(s, t) ==
    /\ DOMAIN t = DOMAIN s
    /\ t.hash = s.hash /\ t.pending = s.pending /\ t.base = s.base
    /\ t.manual = s.manual /\ t.force = s.force
Whole(s) == {"hash", "pending", "base", "manual", "force"} \subseteq DOMAIN s

LEMMA SteadyTwice ==
  ASSUME NEW s, NEW t, NEW u
  PROVE  /\ Steady(s, t) /\ Whole(s) => Whole(t)
         /\ Steady(s, t) /\ Steady(t, u) => Steady(s, u)
         /\ Steady(s, s)
BY DEF Steady, Whole

LEMMA PaintSteady ==
  ASSUME NEW s, Whole(s), NEW v, NEW p
  PROVE  /\ Steady(s, [s EXCEPT !.lastPaint = p])
         /\ Steady(s, ReplaceContent(s, v)) /\ Steady(s, ReplaceContent([s EXCEPT !.lastPaint = p], v))
<1> DEFINE u == [s EXCEPT !.lastPaint = p]
<1>1. Steady(s, u) /\ Whole(u)
  BY DEF Whole, Steady
<1>2. ASSUME NEW z, Whole(z) PROVE Steady(z, ReplaceContent(z, v))
  BY <1>2 DEF Whole, Steady, ReplaceContent
<1> QED BY <1>1, <1>2, SteadyTwice

LEMMA FailureSteady ==
  ASSUME NEW s, Whole(s)
  PROVE  /\ \A w, run, cls, failure : Steady(s, RenderFollowErrorView(s, w, run, cls, failure))
         /\ \A failure : Steady(s, RenderUnavailable(s, failure))
         /\ Steady(s, RenderMonitorDefect(s))
         /\ \A cls, failure : Steady(s, FollowOr(s, cls, failure))
<1>1. \A w, run, cls, failure : Steady(s, RenderFollowErrorView(s, w, run, cls, failure))
  BY PaintSteady DEF RenderFollowErrorView
<1>2. \A failure : Steady(s, RenderUnavailable(s, failure))
  BY PaintSteady DEF RenderUnavailable
<1>3. Steady(s, RenderMonitorDefect(s))
  BY PaintSteady DEF RenderMonitorDefect
<1> QED BY <1>1, <1>2, <1>3 DEF FollowOr

LEMMA CurrentSteady ==
  ASSUME NEW s, Whole(s)
  PROVE  Steady(s, RenderWorkspaceOverview(s)) /\ Steady(s, RenderCurrent(s))
<1> DEFINE t == [s EXCEPT !.lastPaint = None]
<1>1. Steady(s, t) /\ Whole(t)
  BY PaintSteady, SteadyTwice
<1> HIDE DEF t
<1>2. ASSUME NEW z, Whole(z)
      PROVE  /\ Steady(z, RenderWorkspaceOverview(z)) /\ Steady(z, RenderRuns(z))
             /\ Steady(z, RenderUnit(z)) /\ Steady(z, RenderDetail(z))
  <2>1. Steady(z, RenderWorkspaceOverview(z)) /\ Steady(z, RenderRuns(z))
    BY <1>2, PaintSteady DEF RenderWorkspaceOverview, RenderRuns
  <2>2. Steady(z, PaintDetail(z))
    BY <1>2, PaintSteady, SteadyTwice DEF PaintDetail
  <2> QED BY <1>2, <2>1, <2>2, FailureSteady DEF RenderUnit, RenderDetail
<1>3. Steady(t, RenderUnavailable(t, None))
  BY <1>1, FailureSteady
<1>4. Steady(t, RenderCurrent(s))
  BY <1>1, <1>2, <1>3 DEF RenderCurrent, t
<1> QED BY <1>1, <1>2, <1>4, SteadyTwice

LEMMA RefreshSteady ==
  ASSUME NEW s, Whole(s)
  PROVE  /\ Steady(s, Refresh(s)) /\ Steady(s, RefreshSingleFlight(s)) /\ Steady(s, Landed(s))
         /\ \A W, then, run : Steady(s, RefetchWorkspaceList(s, W, then, run))
<1>1. ASSUME NEW z, Whole(z)
      PROVE  /\ \A W, then, run : Steady(z, RefetchWorkspaceList(z, W, then, run))
             /\ \A kind, w, run : Steady(z, Fetch(z, kind, w, run))
  BY <1>1 DEF Whole, Steady, RefetchWorkspaceList, Fetch
<1>2. ASSUME NEW z, Whole(z) PROVE Steady(z, Refresh(z))
  <2> DEFINE r == z.hash
             t == [Bump(z) EXCEPT !.routed = Subject(r), !.flight = TRUE]
             d == [t EXCEPT !.detail = None, !.detailId = None, !.conflict = FALSE]
  <2>1. Steady(z, t)
    BY <1>2 DEF Whole, Steady, Bump
  <2>2. Refresh(z) = CASE r.view = "invalid" -> [RenderCurrent(t) EXCEPT !.flight = FALSE]
                       [] r.view = "workspaces" -> RefetchWorkspaceList(t, Workspaces, "overview", None)
                       [] r.view = "runs" /\ Set -> RefetchWorkspaceList(t, {r.ws}, "land", None)
                       [] r.view = "runs" /\ ~Set -> Fetch(d, "runs", None, None)
                       [] OTHER -> Fetch(t, "detail", r.ws, r.run)
    BY DEF Refresh
  <2> HIDE DEF t
  <2>3. Whole(t)
    BY <1>2, <2>1, SteadyTwice
  <2>4. Steady(t, d)
    BY <2>3 DEF Whole, Steady
  <2> HIDE DEF d
  <2>5. Steady(t, Fetch(d, "runs", None, None))
    BY <1>1, <2>3, <2>4, SteadyTwice
  <2> DEFINE c == RenderCurrent(t)
  <2>6. Steady(t, c)
    BY <2>3, CurrentSteady
  <2> HIDE DEF c
  <2>7. Steady(t, [c EXCEPT !.flight = FALSE])
    BY <2>3, <2>6 DEF Whole, Steady
  <2>8. Steady(t, Refresh(z))
    BY <1>1, <2>2, <2>3, <2>5, <2>7 DEF c
  <2> QED BY <2>1, <2>8, SteadyTwice
<1>3. Steady(s, [s EXCEPT !.again = TRUE]) /\ Steady(s, [s EXCEPT !.flight = FALSE])
  BY DEF Whole, Steady
<1>4. Steady(s, [s EXCEPT !.flight = FALSE, !.again = FALSE])
  BY DEF Whole, Steady
<1>5. Steady(s, RefreshSingleFlight(s))
  BY <1>2, <1>3 DEF RefreshSingleFlight
<1>6. Steady(s, Landed(s))
  BY <1>2, <1>3, <1>4, SteadyTwice DEF Landed
<1> QED BY <1>1, <1>2, <1>5, <1>6

LEMMA ProjectionFailureSteady ==
  ASSUME NEW s, Whole(s), NEW failure
  PROVE  Steady(s, RenderProjectionFailure(s, failure))
<1> DEFINE r == s.hash
           unavailable == r.run # None /\ failure # "render"
           loss == r.run # None /\ failure \in Losses
           for == IF loss THEN r.run ELSE None
           u == [s EXCEPT !.detail = IF unavailable THEN None ELSE @,
                          !.conflict = @ /\ ~unavailable,
                          !.detailId = IF loss THEN None ELSE @,
                          !.resTried = IF @ # for THEN None ELSE @,
                          !.dead = IF loss THEN [run |-> r.run, failure |-> failure] ELSE None]
           t == Classify(s, failure)
<1>1. Steady(s, u)
  BY DEF Whole, Steady
<1>2. t = IF loss /\ ~HeldRows(u, r.ws) THEN AcquireInventoryForResolution(u, r) ELSE u
  BY DEF Classify
<1> HIDE DEF u, t
<1>3. ASSUME NEW z, Whole(z) PROVE Steady(z, AcquireInventoryForResolution(z, r))
  <2> DEFINE y == [z EXCEPT !.resBusy = TRUE, !.resTried = r.run]
  <2>1. Steady(z, y)
    BY <1>3 DEF Whole, Steady
  <2>2. AcquireInventoryForResolution(z, r)
          = IF z.resBusy \/ z.resTried = r.run THEN z
            ELSE IF Set THEN RefetchWorkspaceList(y, {r.ws}, "resolve", r.run)
                        ELSE Fetch(y, "resolve", None, r.run)
    BY DEF AcquireInventoryForResolution
  <2> HIDE DEF y
  <2>3. Whole(y)
    BY <1>3, <2>1, SteadyTwice
  <2>4. Steady(y, Fetch(y, "resolve", None, r.run))
    BY <2>3 DEF Whole, Steady, Fetch
  <2>5. Steady(y, RefetchWorkspaceList(y, {r.ws}, "resolve", r.run))
    BY <2>3, RefreshSteady
  <2> QED BY <2>1, <2>2, <2>4, <2>5, SteadyTwice
<1>4. Steady(s, t) /\ Whole(t)
  BY <1>1, <1>2, <1>3, SteadyTwice
<1>5. ASSUME NEW z, Whole(z) PROVE Steady(z, [z EXCEPT !.detail = None, !.conflict = FALSE])
  BY <1>5 DEF Whole, Steady
<1>6. ASSUME NEW z, Steady(t, z) PROVE Steady(s, z) /\ Steady(s, [z EXCEPT !.detail = None, !.conflict = FALSE])
  BY <1>4, <1>5, <1>6, SteadyTwice
<1>7. /\ \A cls : Steady(t, RenderFollowErrorView(t, r.ws, r.run, cls, failure))
      /\ Steady(t, RenderUnavailable(t, failure))
  BY <1>4, FailureSteady
<1> QED BY <1>6, <1>7 DEF RenderProjectionFailure, t

LEMMA GuardedSteady ==
  ASSUME NEW s, Whole(s)
  PROVE  /\ \A thrown : Steady(s, RenderError(s, thrown))
         /\ Steady(s, RenderCurrentGuarded(s))
<1>1. ASSUME NEW z, Whole(z) PROVE \A thrown : Steady(z, RenderError(z, thrown))
  BY <1>1, FailureSteady, ProjectionFailureSteady DEF RenderError
<1>2. Steady(s, RenderCurrent(s)) /\ Whole(RenderCurrent(s))
  BY CurrentSteady, SteadyTwice
<1> QED BY <1>1, <1>2, SteadyTwice DEF RenderCurrentGuarded

LEMMA DetailSteady ==
  ASSUME NEW s, Whole(s), NEW q
  PROVE  Steady(s, SetDetailArrives(s, q)) /\ Steady(s, SingleDetailArrives(s, q)) /\ Steady(s, RunsArrives(s, q))
<1> DEFINE p == Projection(q)
           confirmed == q.ans.run = q.run
<1>1. ASSUME NEW z, Whole(z), NEW failure PROVE Steady(z, SetDetailFailed(z, q, failure))
  <2> DEFINE t == [z EXCEPT !.snap[q.ws].detailErr = TRUE]
             u == [t EXCEPT !.detail = t.snap[q.ws].detail, !.detailId = q.run, !.detailWs = q.ws,
                            !.conflict = FALSE]
  <2>1. Steady(z, t)
    BY <1>1 DEF Whole, Steady
  <2>2. Steady(t, u)
    <3> HIDE DEF t
    <3>1. Whole(t)
      BY <1>1, <2>1, SteadyTwice
    <3> QED BY <3>1 DEF Whole, Steady
  <2>3. \/ SetDetailFailed(z, q, failure) = RenderCurrentGuarded(u)
        \/ SetDetailFailed(z, q, failure) = RenderProjectionFailure(t, failure)
    BY DEF SetDetailFailed
  <2> HIDE DEF t, u
  <2> QED BY <1>1, <2>1, <2>2, <2>3, SteadyTwice, GuardedSteady, ProjectionFailureSteady
<1>2. Steady(s, SetDetailArrives(s, q))
  <2> DEFINE t == [s EXCEPT !.conflict = ~confirmed, !.detail = p,
                            !.detailId = IF confirmed THEN q.run ELSE None,
                            !.detailWs = IF confirmed THEN q.ws ELSE None,
                            !.snap[q.ws] = IF confirmed
                                           THEN [@ EXCEPT !.detail = p, !.detailErr = FALSE]
                                           ELSE @]
             c == RenderCurrent(t)
             z == SetDetailArrives(s, q)
  <2>1. Steady(s, t)
    BY DEF Whole, Steady
  <2>2. z = CASE q.ans.out \in FetchFailures -> SetDetailFailed(s, q, q.ans.out)
              [] q.ans.out \notin FetchFailures /\ Throws(t) = None -> DropConflict(c)
              [] q.ans.out \notin FetchFailures /\ Throws(t) = "defect" -> RenderMonitorDefect(c)
              [] OTHER -> SetDetailFailed(c, q, "render")
    BY DEF SetDetailArrives
  <2> HIDE DEF t, z
  <2>3. Steady(s, c) /\ Whole(c)
    BY <2>1, CurrentSteady, SteadyTwice
  <2> HIDE DEF c
  <2>4. Steady(c, DropConflict(c))
    BY <2>3 DEF Whole, Steady, DropConflict
  <2>5. Steady(c, RenderMonitorDefect(c)) /\ Steady(c, SetDetailFailed(c, q, "render"))
    BY <1>1, <2>3, FailureSteady
  <2>6. Steady(s, SetDetailFailed(s, q, q.ans.out))
    BY <1>1
  <2> QED BY <2>2, <2>3, <2>4, <2>5, <2>6, SteadyTwice DEF z
<1>3. Steady(s, SingleDetailArrives(s, q))
  <2> DEFINE t == [s EXCEPT !.conflict = ~confirmed, !.detail = p,
                            !.detailId = IF confirmed THEN q.run ELSE None]
             c == RenderCurrent(t)
             z == SingleDetailArrives(s, q)
  <2>1. Steady(s, t)
    BY DEF Whole, Steady
  <2>2. z = CASE q.ans.out \in FetchFailures -> RenderProjectionFailure(s, q.ans.out)
              [] q.ans.out \notin FetchFailures /\ Throws(t) # None -> RenderError(c, Throws(t))
              [] q.ans.out \notin FetchFailures /\ Throws(t) = None /\ confirmed -> c
              [] OTHER -> [c EXCEPT !.detail = None, !.conflict = FALSE]
    BY DEF SingleDetailArrives
  <2> HIDE DEF t, z
  <2>3. Steady(s, c) /\ Whole(c)
    BY <2>1, CurrentSteady, SteadyTwice
  <2> HIDE DEF c
  <2>4. Steady(c, [c EXCEPT !.detail = None, !.conflict = FALSE])
    BY <2>3 DEF Whole, Steady
  <2>5. Steady(c, RenderError(c, Throws(t))) /\ Steady(s, RenderProjectionFailure(s, q.ans.out))
    BY <2>3, GuardedSteady, ProjectionFailureSteady
  <2> QED BY <2>2, <2>3, <2>4, <2>5, SteadyTwice DEF z
<1>4. Steady(s, RunsArrives(s, q))
  <2> DEFINE t == [s EXCEPT !.list = q.ans.ver, !.detail = None, !.detailId = None, !.conflict = FALSE]
  <2>1. Steady(s, t)
    BY DEF Whole, Steady
  <2>2. RunsArrives(s, q) = IF q.ans.out \in FetchFailures THEN RenderProjectionFailure(s, q.ans.out)
                            ELSE RenderCurrentGuarded(t)
    BY DEF RunsArrives
  <2> HIDE DEF t
  <2> QED BY <2>1, <2>2, SteadyTwice, GuardedSteady, ProjectionFailureSteady
<1> QED BY <1>2, <1>3, <1>4

LEMMA ListSteady ==
  ASSUME NEW s, Whole(s), NEW q
  PROVE  Steady(s, ListArrives(s, q)) /\ \A run : Steady(s, Resolved(s, run))
<1>1. ASSUME NEW z, Whole(z) PROVE \A run : Steady(z, Resolved(z, run))
  <2> TAKE run
  <2> DEFINE t == IF z.dead # None /\ z.dead.run = run /\ z.hash.run = run /\ z.painted.kind = "failure"
                  THEN RenderProjectionFailure(z, z.dead.failure) ELSE z
  <2>1. Steady(z, t) /\ Whole(t)
    BY <1>1, SteadyTwice, ProjectionFailureSteady
  <2>2. Resolved(z, run) = [t EXCEPT !.resBusy = FALSE]
    BY DEF Resolved
  <2> HIDE DEF t
  <2> QED BY <2>1, <2>2 DEF Whole, Steady
<1>2. ASSUME NEW z, Whole(z), NEW x PROVE Steady(z, Released(z, x))
  <2>1. Steady(z, RenderWorkspaceOverview(z)) /\ Whole(RenderWorkspaceOverview(z))
    BY <1>2, CurrentSteady, SteadyTwice
  <2>2. Steady(z, Landed(IF x.fresh THEN RenderWorkspaceOverview(z) ELSE z))
    BY <1>2, <2>1, RefreshSteady, SteadyTwice
  <2>3. Steady(z, Landed(z)) /\ Steady(z, RefreshSingleFlight(z)) /\ Steady(z, z)
    BY <1>2, RefreshSteady, SteadyTwice
  <2> QED BY <1>1, <1>2, <2>2, <2>3 DEF Released
<1>3. ASSUME NEW z, Whole(z) PROVE Steady(z, ListPainted(z, q))
  <2> DEFINE u == [z EXCEPT !.list = z.snap[q.ws].list]
  <2>1. Steady(z, u)
    BY <1>3 DEF Whole, Steady
  <2>2. ListPainted(z, q) \in {RenderWorkspaceOverview(z), RenderCurrentGuarded(u),
                               RenderProjectionFailure(z, q.ans.out), z}
    BY DEF ListPainted
  <2> HIDE DEF u
  <2>3. Steady(z, RenderCurrentGuarded(u))
    BY <1>3, <2>1, GuardedSteady, SteadyTwice
  <2> QED BY <1>3, <2>2, <2>3, CurrentSteady, ProjectionFailureSteady, SteadyTwice
<1>4. Steady(s, ListCommitted(s, q))
  <2> DEFINE ok == [s EXCEPT !.snap[q.ws].list = q.ans.ver, !.snap[q.ws].listErr = FALSE]
             bad == [s EXCEPT !.snap[q.ws].listErr = TRUE]
  <2>1. Steady(s, ok)
    BY DEF Whole, Steady
  <2>2. Steady(s, bad)
    BY DEF Whole, Steady
  <2>3. ListCommitted(s, q) = IF ~q.fresh THEN s
                              ELSE ListPainted(IF q.ans.out = "ok" THEN ok ELSE bad, q)
    BY DEF ListCommitted
  <2> HIDE DEF ok, bad
  <2> QED BY <1>3, <2>1, <2>2, <2>3, SteadyTwice
<1>5. Steady(s, ListArrives(s, q))
  <2> DEFINE one == <<q.ws, q.id>>
             t == ListCommitted(s, q)
             last == {x \in t.waits : one \in x.on /\ x.on = {one}}
             u == [t EXCEPT !.waits = {[x EXCEPT !.on = @ \ {one}] : x \in @ \ last}]
  <2>1. ListArrives(s, q) = IF last = {} THEN u ELSE Released(u, CHOOSE x \in last : TRUE)
    BY DEF ListArrives
  <2> HIDE DEF t, last
  <2>2. Whole(t)
    BY <1>4, SteadyTwice DEF t
  <2>3. Steady(t, u)
    BY <2>2 DEF Whole, Steady
  <2> HIDE DEF u
  <2>4. Steady(u, Released(u, CHOOSE x \in last : TRUE))
    BY <1>2, <2>2, <2>3, SteadyTwice
  <2> QED BY <1>4, <2>1, <2>3, <2>4, SteadyTwice DEF t
<1> QED BY <1>1, <1>5

LEMMA ArrivesSteady ==
  ASSUME NEW s, Whole(s), NEW q, q.kind \in {"list", "detail", "runs", "resolve"}
  PROVE  Steady(s, Arrives(s, q))
<1> DEFINE t == [s EXCEPT !.reqs = @ \ {q}]
           u == [t EXCEPT !.list = q.ans.ver]
           z == Arrives(s, q)
<1>1. Steady(s, t) /\ Whole(t)
  BY DEF Whole, Steady
<1>2. z = CASE q.kind = "list" -> ListArrives(t, q)
            [] q.kind = "resolve" -> Resolved(IF q.fresh /\ q.ans.out = "ok" THEN u ELSE t, q.run)
            [] q.kind \in {"detail", "runs"} /\ ~q.fresh -> Landed(t)
            [] q.kind = "runs" /\ q.fresh -> Landed(RunsArrives(t, q))
            [] q.kind = "detail" /\ q.fresh ->
                 Landed(IF Set THEN SetDetailArrives(t, q) ELSE SingleDetailArrives(t, q))
  BY DEF Arrives
<1> HIDE DEF t, z
<1>3. Steady(t, u) /\ Whole(u)
  BY <1>1 DEF Whole, Steady
<1> HIDE DEF u
<1>4. ASSUME NEW y, Steady(t, y) PROVE Steady(s, y) /\ Steady(s, Landed(y)) /\ \A run : Steady(s, Resolved(y, run))
  BY <1>1, <1>4, RefreshSteady, ListSteady, SteadyTwice
<1>5. /\ Steady(t, t) /\ Steady(t, ListArrives(t, q)) /\ Steady(t, RunsArrives(t, q))
      /\ Steady(t, SetDetailArrives(t, q)) /\ Steady(t, SingleDetailArrives(t, q))
  BY <1>1, ListSteady, DetailSteady, SteadyTwice
<1>6. CASE q.kind = "list"
  BY <1>2, <1>4, <1>5, <1>6 DEF z
<1>7. CASE q.kind = "resolve"
  BY <1>2, <1>3, <1>4, <1>5, <1>7 DEF z
<1>8. CASE q.kind = "runs"
  BY <1>2, <1>4, <1>5, <1>8 DEF z
<1>9. CASE q.kind = "detail"
  BY <1>2, <1>4, <1>5, <1>9 DEF z
<1> QED BY <1>6, <1>7, <1>8, <1>9

LEMMA EventSteady ==
  ASSUME NEW s, Whole(s)
  PROVE  /\ \A e : Steady(s, HandleInvalidation(s, e))
         /\ Steady(s, StreamOpened(s)) /\ Steady(s, StreamFailed(s))
<1>1. ASSUME NEW z, Whole(z)
      PROVE  /\ Steady(z, RefreshSingleFlight(z)) /\ Steady(z, z)
             /\ \A W, then, run : Steady(z, RefetchWorkspaceList(z, W, then, run))
  BY <1>1, RefreshSteady, SteadyTwice
<1>2. ASSUME NEW e PROVE Steady(s, HandleInvalidation(s, e))
  <2> DEFINE t == [s EXCEPT !.lastEventId = IF @ = None \/ e.seq > @ THEN e.seq ELSE @]
  <2>1. Steady(s, t) /\ Whole(t)
    BY DEF Whole, Steady
  <2>2. \/ HandleInvalidation(s, e) = RefreshSingleFlight(t)
        \/ \E W, then : HandleInvalidation(s, e) = RefetchWorkspaceList(t, W, then, None)
    BY DEF HandleInvalidation
  <2> HIDE DEF t
  <2> QED BY <1>1, <2>1, <2>2, SteadyTwice
<1>3. Steady(s, StreamOpened(s))
  <2> DEFINE t == [s EXCEPT !.stream = "connected"]
             u == [t EXCEPT !.lastEventId = None]
  <2>1. Steady(s, t) /\ Whole(t)
    BY DEF Whole, Steady
  <2>2. StreamOpened(s) = IF s.stream = "down" THEN RefreshSingleFlight(u) ELSE t
    BY DEF StreamOpened
  <2> HIDE DEF t
  <2>3. Steady(t, u) /\ Whole(u)
    BY <2>1 DEF Whole, Steady
  <2> HIDE DEF u
  <2> QED BY <1>1, <2>1, <2>2, <2>3, SteadyTwice
<1>4. Steady(s, StreamFailed(s))
  <2> DEFINE t == [s EXCEPT !.stream = "down"]
  <2>1. Steady(s, t) /\ Whole(t)
    BY DEF Whole, Steady
  <2>2. StreamFailed(s) = IF s.stream = "down" THEN t ELSE RefreshSingleFlight(t)
    BY DEF StreamFailed
  <2> HIDE DEF t
  <2> QED BY <1>1, <2>1, <2>2, SteadyTwice
<1> QED BY <1>2, <1>3, <1>4
-----------------------------------------------------------------------------
(***************************************************************************)
(* What a move of the pane finds on the screen.                            *)
(***************************************************************************)
\* No projection is shown at an address that names none.
Void(s) == s.hash.view = "invalid" /\ ~Moved(s) => s.painted.kind \notin Projections

\* A run view is of the projection in hand, which a forced retry keeps on the
\* screen.
Readable(s) == ~Moved(s) \/ s.force => Legible(s)

\* In single mode rows are of the list in hand, if the address has not moved,
\* and of none if none is.
Rowless(s) == ~Set /\ s.painted.kind = "runs" /\ s.list = None => s.painted.ver[None] = None
Rows(s) == ~Set /\ ~Moved(s) /\ s.hash.view = "runs" => InHand(s)

\* A forced retry waits for its hashchange, and moves no pane.
Forced(s) == s.force => s.pending /\ Deep(s.hash) /\ s.manual = s.hash.manual
Overlaid(s) == Void(s) /\ Readable(s) /\ Rowless(s) /\ Rows(s) /\ Forced(s)

\* A failure, or nothing, is no projection.
LEMMA PlainOverlaid ==
  ASSUME NEW t, Failed(t) \/ Emptied(t)
  PROVE  Void(t) /\ Legible(t) /\ Rowless(t) /\ InHand(t)
<1>1. t.painted.kind \in {"failure", "blank"}
  BY BlankIsCalm DEF Failed, Emptied
<1> QED BY <1>1 DEF Void, Projections, Legible, Rowless, InHand

\* Nor is an address painted by what it does not have in hand.
LEMMA PaintedOverlaid ==
  ASSUME NEW t, Client(t), Painted(t)
  PROVE  Void(t) /\ Legible(t) /\ Rowless(t) /\ InHand(t)
<1>1. Legible(t) /\ InHand(t)
  BY PaintedInHand
<1>2. t.hash.view = "invalid" => t.painted.kind = "failure"
  BY DEF Painted, Fits, KindsAt, Deep
<1>3. Rowless(t)
  BY <1>1 DEF InHand, Rowless, Only, All
<1> QED BY <1>1, <1>2, <1>3 DEF Void, Projections

\* Whatever answers or events do while the address and the pane stay.
LEMMA SteadyOverlaid ==
  ASSUME NEW s, Client(s), Aimed(s), Overlaid(s), NEW t, Client(t), Steady(s, t), Growth(s, t)
  PROVE  Overlaid(t)
<1>1. t.hash = s.hash /\ (Moved(t) <=> Moved(s)) /\ t.force = s.force /\ Forced(t)
  BY DEF Steady, Moved, Overlaid, Forced
<1>2. CASE Failed(t) \/ Emptied(t)
  BY <1>1, <1>2, PlainOverlaid DEF Overlaid, Readable, Rows
<1>3. CASE Painted(t)
  BY <1>1, <1>3, PaintedOverlaid DEF Overlaid, Readable, Rows
<1>4. CASE Astray(t)
  <2>1. Moved(t) /\ Legible(t) /\ InHand(t)
    BY <1>4 DEF Astray
  <2>2. Rowless(t)
    BY <2>1 DEF InHand, Rowless, Only, All
  <2> QED BY <1>1, <2>1, <2>2 DEF Overlaid, Void, Readable, Rows
<1>5. CASE SameScreen(s, t) /\ Retains(s, t)
  <2>1. t.painted = s.painted /\ (t.detail = None \/ t.detail = s.detail)
    BY <1>5 DEF SameScreen, Retains
  <2>2. Void(t)
    BY <1>1, <2>1 DEF Overlaid, Void
  <2>3. Readable(t)
    BY <1>1, <2>1 DEF Overlaid, Readable, Legible, Throws
  <2>4. Rowless(t)
    BY <1>5, <2>1 DEF Overlaid, Rowless, Retains
  <2>5. Rows(t)
    <3> SUFFICES ASSUME ~Set, ~Moved(s), s.hash.view = "runs" PROVE InHand(t)
      BY <1>1 DEF Rows
    <3>1. s.hash.run = None
      BY DEF Client, AddressFits, WellFormed
    <3>2. ~Inquiring(s)
      BY <3>1 DEF Inquiring, Aimed
    <3>3. t.list = s.list
      BY <1>5, <3>2 DEF Retains
    <3> QED BY <1>1, <2>1, <3>3 DEF Overlaid, Rows, InHand
  <2> QED BY <1>1, <2>2, <2>3, <2>4, <2>5 DEF Overlaid
<1> QED BY <1>2, <1>3, <1>4, <1>5 DEF Growth, Redraws

\* The operator goes to another address, moves the pane, or retries.
LEMMA GoToOverlaid ==
  ASSUME NEW s, BrowserInv(s), ~s.pending, Overlaid(s), NEW r, AddressFits(r),
         NEW z, Client(z), SameScreen(s, z), SameHeld(s, z), z.hash = s.hash, z.base = s.base,
         z.manual = s.manual,
         z.force => /\ r # s.hash /\ Deep(r) /\ r.manual = s.hash.manual
                    /\ r.view = s.hash.view /\ r.ws = s.hash.ws /\ r.run = s.hash.run
  PROVE  Overlaid(GoTo(z, r))
<1> DEFINE t == GoTo(z, r)
<1>1. Client(s) /\ s.base = UnderlyingKey(s.hash) /\ s.hash \in AddressType /\ r \in AddressType
      /\ s.manual = s.hash.manual
  BY DEF BrowserInv, Addressed, Client, Browser, AddressFits, WellFormed, AddressType
<1>2. /\ t.painted = s.painted /\ t.detail = s.detail /\ t.list = s.list /\ t.hash = r
      /\ t.pending = (r # s.hash) /\ t.base = s.base /\ t.manual = s.manual /\ t.force = z.force
  BY DEF GoTo, Client, Browser, SameScreen, SameHeld
<1> HIDE DEF t
<1>3. ~Moved(s)
  BY DEF Moved
<1>4. ~Moved(t) \/ t.force => s.hash.view = r.view /\ s.hash.ws = r.ws /\ s.hash.run = r.run
  <2>1. ASSUME UnderlyingKey(s.hash) = UnderlyingKey(r)
        PROVE  s.hash.view = r.view /\ s.hash.ws = r.ws /\ s.hash.run = r.run
    BY <1>1, <2>1 DEF UnderlyingKey, AddressType
  <2> QED BY <1>1, <1>2, <2>1 DEF Moved
<1>5. Void(t) /\ Rowless(t)
  BY <1>2, <1>3, <1>4 DEF Overlaid, Void, Rowless
<1>6. Readable(t)
  BY <1>2, <1>3, <1>4 DEF Overlaid, Readable, Legible, Throws, Deep
<1>7. Rows(t)
  BY <1>2, <1>3, <1>4 DEF Overlaid, Rows, InHand
<1>8. Forced(t)
  BY <1>1, <1>2 DEF Forced
<1> QED BY <1>5, <1>6, <1>7, <1>8 DEF Overlaid, t

\* What routeChanged does before it looks at the view ends the retry.
LEMMA RoutedUnforced ==
  ASSUME NEW s, Client(s)
  PROVE  Routed(s).force = FALSE
<1> DEFINE c == Bump(s)
           u == [c EXCEPT !.manual = s.hash.manual, !.base = UnderlyingKey(s.hash), !.again = @ \/ s.flight,
                          !.routed = Subject(s.hash), !.force = FALSE]
           d == [u EXCEPT !.list = None, !.detail = None, !.detailId = None,
                          !.detailWs = None, !.conflict = FALSE]
<1>1. "force" \in DOMAIN c
  BY DEF Client, Browser, Bump
<1>2. Routed(s) = IF s.routed = Subject(s.hash) THEN u ELSE EmptyApp(d)
  BY DEF Routed
<1> HIDE DEF c
<1>3. u.force = FALSE /\ "force" \in DOMAIN u
  BY <1>1
<1> HIDE DEF u
<1>4. d.force = FALSE /\ "force" \in DOMAIN d
  BY <1>3
<1> HIDE DEF d
<1> QED BY <1>2, <1>3, <1>4 DEF EmptyApp

\* Only the pane has moved: the view is painted again.
LEMMA ManualPaints ==
  ASSUME NEW s, BrowserInv(s), ManualOnly(Handled(s))
  PROVE  LET t == [Handled(s) EXCEPT !.manual = s.hash.manual]
             z == ManualMoved(Handled(s)) IN
         /\ Client(t) /\ Net(t) /\ SameScreen(s, t) /\ SameHeld(s, t) /\ SameReqs(s, t)
         /\ t.hash = s.hash /\ t.again = s.again /\ t.force = s.force
         /\ Client(z) /\ SameRest(t, z) /\ SameNet(t, z) /\ SameScreen(s, t)
         /\ IF t.lastPaint # None THEN z = ReplayLastPaint(t) /\ Failed(z)
                                  ELSE z = RenderCurrentGuarded(t) /\ Painted(z)
<1> DEFINE h == Handled(s)
           t == [h EXCEPT !.manual = s.hash.manual]
           z == ManualMoved(h)
<1>1. /\ Client(s) /\ Client(h) /\ Net(h) /\ h.hash = s.hash
      /\ SameScreen(s, h) /\ SameHeld(s, h) /\ h.reqs = s.reqs /\ h.waits = s.waits /\ h.force = s.force
  BY HandledFacts, HandledHeld DEF BrowserInv
<1>2. h.again = s.again
  BY DEF Handled, BrowserInv, Client, Browser
<1>3. z = IF t.lastPaint # None THEN ReplayLastPaint(t) ELSE RenderCurrentGuarded(t)
  BY <1>1 DEF ManualMoved
<1> HIDE DEF h, z
<1>4. /\ Client(t) /\ SameScreen(h, t) /\ SameHeld(h, t) /\ t.reqs = h.reqs /\ t.waits = h.waits
      /\ t.hash = h.hash /\ t.again = h.again /\ t.force = h.force
  BY <1>1 DEF Client, Browser, AddressType, SameScreen, SameHeld
<1> HIDE DEF t
<1>5. Net(t) /\ SameScreen(s, t) /\ SameHeld(s, t) /\ SameReqs(s, t) /\ t.hash = s.hash
  BY <1>1, <1>4 DEF Net, Listed, SameScreen, SameHeld, SameReqs
<1>6. CASE t.lastPaint # None
  <2>1. Pure(t, z) /\ Failed(z) /\ z = ReplayLastPaint(t)
    BY <1>3, <1>4, <1>6, ReplayShown
  <2> QED BY <1>1, <1>2, <1>4, <1>5, <1>6, <2>1 DEF Pure, t, z, h
<1>7. CASE t.lastPaint = None
  <2>1. z = RenderCurrentGuarded(t) /\ Painted(z) /\ Passes(t, z) /\ Draws(t, z) /\ SameNet(t, z)
    BY <1>3, <1>4, <1>5, <1>7, GuardedPasses, GuardedPainted
  <2> QED BY <1>1, <1>2, <1>4, <1>5, <1>7, <2>1 DEF Passes, Draws, t, z, h
<1> QED BY <1>6, <1>7

\* The address that has been handled is painted, asked for, or both.
LEMMA RouteOverlaid ==
  ASSUME NEW s, BrowserInv(s), Pictured(s), Overlaid(s), mode \in Modes
  PROVE  Overlaid(RouteChanged(Handled(s)))
<1> DEFINE h == Handled(s)
           z == RouteChanged(h)
<1>0. SUFFICES Overlaid(z)
  OBVIOUS
<1>1. CASE ManualOnly(h)
  <2>1. z = ManualMoved(h)
    BY <1>1 DEF RouteChanged
  <2> DEFINE t == [h EXCEPT !.manual = s.hash.manual]
  <2>2. Client(z) /\ z.force = s.force /\ (Failed(z) \/ Painted(z))
    BY <1>1, <2>1, ManualPaints DEF SameRest
  <2>3. h.hash = s.hash /\ h.manual = s.manual
    BY DEF Handled, BrowserInv, Client, Browser
  <2>4. ~s.force
    BY <1>1, <2>3 DEF Overlaid, Forced, ManualOnly
  <2> HIDE DEF h, z
  <2> QED BY <2>2, <2>4, PlainOverlaid, PaintedOverlaid DEF Overlaid, Readable, Rows, Forced
<1>2. CASE ~ManualOnly(h)
  <2> DEFINE t == Routed(h)
  <2>1. PICK x : Enters(t, x, z, h.force)
    BY <1>2, RouteEnters
  <2>2. /\ Client(h) /\ Net(h) /\ Flying(h) /\ Recorded(h) /\ h.pending = FALSE /\ h.hash = s.hash
        /\ SameScreen(s, h) /\ SameHeld(s, h) /\ h.force = s.force
    BY HandledFacts, HandledHeld
  <2> HIDE DEF h, z
  <2>3. /\ Client(t) /\ t.hash = s.hash /\ ~t.pending /\ t.force = FALSE
        /\ \/ SameScreen(h, t) /\ t.list = h.list /\ t.detail = h.detail
           \/ Emptied(t) /\ t.list = None /\ t.detail = None
    BY <2>2, RoutedHeld, RoutedUnforced
  <2> HIDE DEF t
  <2>4. /\ Client(x) /\ Net(x) /\ x.force = FALSE /\ Whole(x) /\ x.hash = s.hash
        /\ x.detail = None \/ x.detail = t.detail
    BY <2>1, <2>3 DEF Enters, SameRest, Client, Browser, Whole
  <2>5. CASE z = RefreshSingleFlight(x) /\ x.hash.view # "invalid" /\ (x.detail = None \/ h.force)
             /\ (x.hash.view = "runs" => h.force \/ x.list = None)
    <3>1. Passes(x, z) /\ (SameScreen(x, z) \/ Failed(z)) /\ Steady(x, z)
      BY <2>4, <2>5, SingleFlightPasses, RefreshSteady
    <3>2. /\ z.hash = s.hash /\ z.list = x.list /\ z.force = FALSE
          /\ z.detail = None \/ z.detail = x.detail
      BY <2>4, <3>1 DEF Passes, Sheds, Lasts, SameAddress, Steady
    <3>3. Forced(z)
      BY <3>2 DEF Forced
    <3>4. CASE Failed(z) \/ Emptied(x)
      <4>1. Failed(z) \/ Emptied(z)
        BY <3>1, <3>4 DEF SameScreen, Emptied
      <4> QED BY <3>2, <3>3, <4>1, PlainOverlaid DEF Overlaid, Readable, Rows
    <3>5. CASE SameScreen(x, z) /\ SameScreen(t, x)
      <4>1. CASE Emptied(t)
        BY <3>2, <3>3, <3>5, <4>1, PlainOverlaid DEF SameScreen, Emptied, Overlaid, Readable, Rows
      <4>2. CASE SameScreen(h, t) /\ t.list = h.list /\ t.detail = h.detail
        <5>1. /\ z.painted = s.painted /\ (Set \/ z.list = s.list)
              /\ z.detail = None \/ (z.detail = s.detail /\ s.force)
          BY <2>1, <2>2, <2>4, <2>5, <3>2, <3>5, <4>2 DEF SameScreen, SameHeld, Enters
        <5>2. Legible(z)
          BY <3>2, <5>1 DEF Overlaid, Readable, Legible, Throws
        <5>3. Rowless(z)
          BY <5>1 DEF Overlaid, Rowless
        <5>4. Rows(z)
          <6> SUFFICES ASSUME ~Set, s.hash.view = "runs", s.painted.kind = "runs"
                       PROVE  z.painted.ver = Only(z.hash.ws, z.list)
            BY <3>2, <5>1 DEF Rows, InHand
          <6>1. ~s.force
            BY DEF Overlaid, Forced, Deep
          <6>2. z.list = None /\ s.hash.ws = None /\ s.painted.ws = None
            BY <2>2, <2>4, <2>5, <3>2, <6>1 DEF Pictured, Shaped, Client, AddressFits
          <6>3. s.painted.ver = Only(None, s.painted.ver[None])
            BY <6>2 DEF Pictured, Shaped
          <6>4. s.painted.ver[None] = None
            BY <5>1, <5>3, <6>2 DEF Rowless
          <6> QED BY <3>2, <5>1, <6>2, <6>3, <6>4
        <5>5. Void(z)
          BY <2>4, <2>5, <3>2 DEF Void
        <5> QED BY <3>3, <5>2, <5>3, <5>4, <5>5 DEF Overlaid, Readable
      <4> QED BY <2>3, <4>1, <4>2
    <3> QED BY <2>1, <3>1, <3>4, <3>5 DEF Enters
  <2>6. CASE z \in {RenderCurrentGuarded(x), RefreshSingleFlight(RenderCurrentGuarded(x))}
    <3> DEFINE g == RenderCurrentGuarded(x)
    <3>1. Client(g) /\ Net(g) /\ Painted(g) /\ g.force = FALSE /\ Whole(g)
      BY <2>4, GuardedPasses, GuardedPaints, GuardedSteady, SteadyTwice DEF Passes, Paints, Gains, Steady
    <3> HIDE DEF g
    <3>2. Client(z) /\ Painted(z) /\ z.force = FALSE
      BY <2>6, <3>1, SingleFlightPasses, RefreshSteady DEF Passes, Steady, g
    <3> QED BY <3>2, PaintedOverlaid DEF Overlaid, Readable, Rows, Forced
  <2> QED BY <2>1, <2>5, <2>6 DEF Enters
<1> QED BY <1>1, <1>2
-----------------------------------------------------------------------------
(***************************************************************************)
(* In every state.                                                         *)
(***************************************************************************)
OverlayInv == Overlaid(b)

\* The page boots blank, or on the failure of an address that names nothing.
LEMMA BootOverlaid ==
  ASSUME NEW r, AddressFits(r), mode \in Modes
  PROVE  Overlaid(Boot(r))
<1> DEFINE snap == [w \in Workspaces |-> [list |-> None, listErr |-> FALSE,
                                          detail |-> None, detailErr |-> FALSE]]
           s == [hash |-> r, pending |-> FALSE, routed |-> <<None, None>>, painted |-> Blank,
                 lastPaint |-> None, list |-> None, detail |-> None, detailId |-> None,
                 detailWs |-> None, conflict |-> FALSE, flight |-> FALSE, again |-> FALSE,
                 force |-> FALSE, manual |-> r.manual, base |-> UnderlyingKey(r),
                 snap |-> snap, dead |-> None, resTried |-> None, resBusy |-> FALSE,
                 lastEventId |-> None, stream |-> "connecting", reqs |-> {}, waits |-> {}]
           t == Refresh(s)
<1>1. /\ r \in AddressType /\ UnderlyingKey(r) \in AddressType /\ r.manual \in BOOLEAN
  BY DEF AddressFits, WellFormed, AddressType, UnderlyingKey
<1>2. /\ None \in All /\ \A S : None \in Maybe(S)
      /\ None \in VerOrNone /\ None \in DetailType
  BY DEF All, Maybe, VerOrNone, DetailType
<1>3. snap \in [Workspaces -> SnapRecord]
  BY <1>2 DEF SnapRecord
<1>4. Boot(r) = Refresh(s)
  BY DEF Boot
<1> HIDE DEF snap
<1>5. s \in Browser
  BY <1>1, <1>2, <1>3, BlankType DEF Browser
<1>6. /\ s.hash = r /\ s.reqs = {} /\ s.waits = {} /\ s.painted = Blank /\ s.lastPaint = None
      /\ s.force = FALSE /\ Whole(s)
  BY DEF Whole
<1> HIDE DEF s
<1>7. Client(s) /\ Net(s)
  BY <1>5, <1>6, FS_EmptySet DEF Client, Net
<1>8. t.force = FALSE /\ (SameScreen(s, t) \/ Failed(t))
  BY <1>6, <1>7, RefreshPasses, RefreshSteady DEF Steady
<1> HIDE DEF t
<1>9. Failed(t) \/ Emptied(t)
  BY <1>6, <1>8 DEF SameScreen, Emptied
<1> QED BY <1>4, <1>8, <1>9, PlainOverlaid DEF Overlaid, Readable, Rows, Forced, t

LEMMA InitOverlaid ==
  Init => OverlayInv
<1> SUFFICES ASSUME Init PROVE OverlayInv
  OBVIOUS
<1>1. PICK v \in Visitable : mode \in Modes /\ b = Boot(Address(v, v.manual))
  BY DEF Init
<1>2. v.manual \in BOOLEAN
  BY ClientAssumption DEF Visitable, WellFormed
<1>3. AddressFits(Address(v, v.manual))
  BY <1>2, VisitsFit
<1> QED BY <1>1, <1>3, BootOverlaid DEF OverlayInv

LEMMA OverlaidPrimed ==
  ASSUME mode' = mode, Overlaid(b')
  PROVE  OverlayInv'
<1>1. Set' <=> Set
  BY DEF Set
<1>2. Void(b)'
  BY DEF Overlaid, Void, Moved, UnderlyingKey, Projections
<1>3. Readable(b)'
  BY DEF Overlaid, Readable, Legible, Moved, UnderlyingKey, Throws, Deep, Only
<1>4. Rowless(b)' /\ Rows(b)'
  BY <1>1 DEF Overlaid, Rowless, Rows, InHand, Moved, UnderlyingKey, Only
<1>5. Forced(b)'
  BY DEF Overlaid, Forced, Deep
<1> QED BY <1>2, <1>3, <1>4, <1>5 DEF OverlayInv, Overlaid

\* The operator acts.
LEMMA ActOverlaid ==
  ASSUME ClientInv, OverlayInv, Client(b'), Growth(b, b'),
         \/ \E v \in Visitable : Navigate(v)
         \/ ToggleManual \/ Refetch \/ Retry
         \/ \E w \in Sources : RetrySource(w)
  PROVE  Overlaid(b')
<1>1. /\ BrowserInv(b) /\ Client(b) /\ Aimed(b) /\ AddressFits(b.hash) /\ b.hash.manual \in BOOLEAN
      /\ b.hash \in AddressType /\ Overlaid(b) /\ Whole(b)
  BY DEF ClientInv, BrowserInv, Client, Browser, AddressFits, WellFormed, OverlayInv, Whole
<1>2. ASSUME Steady(b, b') PROVE Overlaid(b')
  BY <1>1, <1>2, SteadyOverlaid
<1>3. Steady(b, RefreshSingleFlight(b)) /\ \A W, then, run : Steady(b, RefetchWorkspaceList(b, W, then, run))
  BY <1>1, RefreshSteady
<1>4. ~b.pending
  BY DEF Navigate, ToggleManual, Refetch, Retry, RetrySource, Operator
<1>5. SameScreen(b, b) /\ SameHeld(b, b) /\ ~b.force
  BY <1>1, <1>4 DEF SameScreen, SameHeld, Overlaid, Forced
<1>6. ASSUME NEW v \in Visitable, Navigate(v) PROVE Overlaid(b')
  <2> DEFINE r == Address(v, b.hash.manual)
  <2>1. AddressFits(r)
    BY <1>1, VisitsFit
  <2>2. b' = GoTo(b, r)
    BY <1>6 DEF Navigate, Operator
  <2> HIDE DEF r
  <2> QED BY <1>1, <1>4, <1>5, <2>1, <2>2, GoToOverlaid
<1>7. ASSUME ToggleManual PROVE Overlaid(b')
  <2> DEFINE r == [Canonical(b.hash) EXCEPT !.manual = ~@]
  <2>1. AddressFits(r)
    BY <1>1, AddressesFit
  <2>2. b' = GoTo(b, r)
    BY <1>7 DEF ToggleManual, Operator
  <2> HIDE DEF r
  <2> QED BY <1>1, <1>4, <1>5, <2>1, <2>2, GoToOverlaid
<1>8. ASSUME Refetch PROVE Overlaid(b')
  <2>1. b' = RefreshSingleFlight(b)
    BY <1>8 DEF Refetch, Operator
  <2> QED BY <1>2, <1>3, <2>1
<1>9. ASSUME Retry PROVE Overlaid(b')
  <2> DEFINE r == [Canonical(b.hash) EXCEPT !.follow = TRUE]
             f == [b EXCEPT !.force = TRUE]
  <2>1. b' = IF b.hash.run # None /\ b.hash # r THEN GoTo(f, r) ELSE RefreshSingleFlight(b)
    BY <1>9 DEF Retry, Operator
  <2>2. b.hash.run # None => AddressFits(r) /\ Deep(r)
    <3>1. r.view = b.hash.view /\ r.run = b.hash.run
      BY <1>1 DEF Canonical, AddressType
    <3> QED BY <1>1, <3>1, AddressesFit DEF AddressFits, WellFormed, Deep
  <2>3. r.view = b.hash.view /\ r.ws = b.hash.ws /\ r.run = b.hash.run /\ r.manual = b.hash.manual
    BY <1>1 DEF Canonical, AddressType
  <2>4. /\ Client(f) /\ SameScreen(b, f) /\ SameHeld(b, f)
        /\ f.hash = b.hash /\ f.base = b.base /\ f.manual = b.manual
    BY <1>1 DEF Client, Browser, SameScreen, SameHeld
  <2> HIDE DEF r, f
  <2>5. CASE b.hash.run # None /\ b.hash # r
    BY <1>1, <1>4, <2>1, <2>2, <2>3, <2>4, <2>5, GoToOverlaid
  <2>6. CASE ~(b.hash.run # None /\ b.hash # r)
    BY <1>2, <1>3, <2>1, <2>6
  <2> QED BY <2>5, <2>6
<1>10. ASSUME NEW w \in Sources, RetrySource(w) PROVE Overlaid(b')
  <2>1. b' = RefetchWorkspaceList(b, {w}, "nothing", None)
    BY <1>10 DEF RetrySource, Operator
  <2> QED BY <1>2, <1>3, <2>1
<1> QED BY <1>6, <1>7, <1>8, <1>9, <1>10

LEMMA NextOverlaid ==
  ClientInv /\ LightInv /\ ContentInv /\ OverlayInv /\ [Next]_vars
    => (ClientInv /\ LightInv /\ ContentInv /\ OverlayInv)'
<1> SUFFICES ASSUME ClientInv, LightInv, ContentInv, OverlayInv, [Next]_vars
             PROVE  (ClientInv /\ LightInv /\ ContentInv /\ OverlayInv)'
  OBVIOUS
<1>1. (ClientInv /\ LightInv /\ ContentInv)' /\ Growth(b, b')
  BY NextContent DEF Grown
<1>2. Client(b')
  BY <1>1, ModeStays DEF ClientInv, BrowserInv, Client, AddressFits, Set
<1>3. /\ BrowserInv(b) /\ Client(b) /\ Aimed(b) /\ Pictured(b) /\ Overlaid(b) /\ Whole(b) /\ mode \in Modes
  BY DEF ClientInv, Outside, BrowserInv, Client, Browser, ContentInv, OverlayInv, Whole
<1>4. ASSUME Steady(b, b') PROVE Overlaid(b')
  BY <1>1, <1>2, <1>3, <1>4, SteadyOverlaid
<1>5. ASSUME b' = b PROVE Overlaid(b')
  BY <1>3, <1>5
<1>6. ASSUME Next PROVE Overlaid(b')
  <2>1. ASSUME (\E w \in Sources : Publish(w)) \/ Relay \/ HubRestarts PROVE Overlaid(b')
    BY <1>5, <2>1 DEF Publish, Relay, HubRestarts
  <2>2. ASSUME StreamOpens \/ StreamBreaks \/ DeliverEvent PROVE Overlaid(b')
    <3>1. \/ b' \in {StreamOpened(b), StreamFailed(b)}
          \/ \E e : b' = HandleInvalidation(b, e)
      BY <2>2 DEF StreamOpens, StreamBreaks, DeliverEvent
    <3> QED BY <1>3, <1>4, <3>1, EventSteady
  <2>3. ASSUME NEW q \in b.reqs, ReceiveAnswer(q) PROVE Overlaid(b')
    <3>1. b' = Arrives(b, q)
      BY <2>3 DEF ReceiveAnswer
    <3>2. q.kind \in {"list", "detail", "runs", "resolve"}
      BY <1>3, <2>3 DEF Client, Browser, RequestRecord
    <3> QED BY <1>3, <1>4, <3>1, <3>2, ArrivesSteady
  <2>4. ASSUME NEW q \in b.reqs, ServerAnswers(q) PROVE Overlaid(b')
    <3>1. PICK R : b' = [b EXCEPT !.reqs = R]
      BY <2>4 DEF ServerAnswers
    <3>2. Steady(b, b')
      BY <1>3, <3>1 DEF Whole, Steady
    <3> QED BY <1>4, <3>2
  <2>5. ASSUME HashChange PROVE Overlaid(b')
    <3>1. b' = RouteChanged(Handled(b))
      BY <2>5 DEF HashChange, Handled
    <3> QED BY <1>3, <3>1, RouteOverlaid
  <2>6. ASSUME \/ \E v \in Visitable : Navigate(v)
               \/ ToggleManual \/ Refetch \/ Retry
               \/ \E w \in Sources : RetrySource(w)
        PROVE  Overlaid(b')
    BY <1>1, <1>2, <2>6, ActOverlaid
  <2> QED BY <1>6, <2>1, <2>2, <2>3, <2>4, <2>5, <2>6 DEF Next
<1>7. Overlaid(b')
  BY <1>5, <1>6 DEF vars
<1> QED BY <1>1, <1>7, ModeStays, OverlaidPrimed
-----------------------------------------------------------------------------
(***************************************************************************)
(* The view under the pane, painted again.                                 *)
(***************************************************************************)
\* A failure is painted again with the record of the call that painted it.
LEMMA ReplayRecords ==
  ASSUME NEW s, Client(s), s.lastPaint # None
  PROVE  LET t == ReplayLastPaint(s) IN
         /\ Failed(t) /\ t.lastPaint # None /\ t.lastPaint.by = s.lastPaint.by
         /\ s.lastPaint.by = "follow" => t.lastPaint.cls = s.lastPaint.cls
         /\ s.lastPaint.by = "unavailable" =>
              t.lastPaint.failure = s.lastPaint.failure /\ t.painted.run = s.hash.run
<1> DEFINE p == s.lastPaint
           u == [s EXCEPT !.lastPaint = None]
           t == ReplayLastPaint(s)
<1>1. /\ p.ws \in All /\ p.run \in Maybe(Runs)
      /\ p.cls \in Maybe(ViewClasses) /\ p.failure \in Maybe(Failures)
      /\ p.by \in {"follow", "unavailable", "defect"}
  BY DEF Client, Browser, PaintRecords, Maybe, Failures, FetchFailures, Absences, Losses
<1>2. Client(u) /\ u.hash = s.hash /\ "lastPaint" \in DOMAIN u
  BY DEF Client, Browser, Maybe
<1>3. Failed(t)
  BY ReplayShown
<1>4. /\ s.hash.ws \in All /\ s.hash.run \in Maybe(Runs)
      /\ None \in All /\ \A S : None \in Maybe(S)
  BY DEF Client, AddressFits, WellFormed, Maybe, All
<1>5. ASSUME NEW q \in PaintRecords, NEW v \in ViewType, t = ReplaceContent([u EXCEPT !.lastPaint = q], v)
      PROVE  t.lastPaint = q /\ t.painted.run = v.run
  <2> DEFINE y == [u EXCEPT !.lastPaint = q]
  <2> HIDE DEF u, t
  <2>1. Client(y) /\ y.lastPaint = q
    BY <1>2 DEF Client, Browser, Maybe
  <2> HIDE DEF y
  <2> QED BY <1>5, <2>1, ReplaceShows DEF y
<1>6. CASE p.by = "follow"
  <2> DEFINE q == [by |-> "follow", ws |-> p.ws, run |-> p.run, cls |-> p.cls, failure |-> p.failure]
             offer == Offered(u, p.ws, p.run)
             v == FailureView(p.ws, p.run, p.cls, offer)
  <2>1. t = ReplaceContent([u EXCEPT !.lastPaint = q], v)
    BY <1>6 DEF ReplayLastPaint, RenderFollowErrorView
  <2>2. q \in PaintRecords /\ q.by = "follow" /\ q.cls = p.cls
    BY <1>1 DEF PaintRecords, Failures, FetchFailures, Absences, Losses, Maybe
  <2>3. offer \in BOOLEAN
    BY <1>2, OfferedType
  <2> HIDE DEF offer
  <2>4. v \in ViewType
    BY <1>1, <2>3, FailureViewFacts
  <2> HIDE DEF q, v, u, t, p
  <2>5. t.lastPaint = q
    BY <1>5, <2>1, <2>2, <2>4
  <2>6. q # None
    BY <2>2, ClientAssumption
  <2> QED BY <1>3, <1>6, <2>2, <2>5, <2>6 DEF p, t
<1>7. CASE p.by = "unavailable"
  <2> DEFINE q == [by |-> "unavailable", ws |-> None, run |-> None, cls |-> None, failure |-> p.failure]
             offer == Offered(u, s.hash.ws, s.hash.run)
             loss == s.hash.run # None /\ p.failure \in Losses
             dropped == s.hash.run # None /\ p.failure \in {"capped", "limit"}
             cls == CASE loss /\ offer -> "resolved_child"
                      [] dropped /\ ~(loss /\ offer) -> "dropped_parent"
                      [] loss /\ ~offer /\ ~dropped -> "not_found"
                      [] OTHER -> "projection_unavailable"
             panel == offer /\ cls # "dropped_parent"
             v == FailureView(s.hash.ws, s.hash.run, cls, panel)
  <2>1. t = ReplaceContent([u EXCEPT !.lastPaint = q], v)
    BY <1>2, <1>7 DEF ReplayLastPaint, RenderUnavailable
  <2>2. q \in PaintRecords /\ q.by = "unavailable" /\ q.failure = p.failure
    BY <1>1 DEF PaintRecords, Failures, FetchFailures, Absences, Losses, Maybe, All
  <2>3. offer \in BOOLEAN
    BY <1>2, OfferedType
  <2> HIDE DEF offer, loss, dropped
  <2>4. cls \in Maybe(ViewClasses) /\ panel \in BOOLEAN
    BY <2>3 DEF ViewClasses, Maybe
  <2> HIDE DEF cls, panel
  <2>5. v \in ViewType /\ v.run = s.hash.run
    BY <1>4, <2>4, FailureViewFacts
  <2> HIDE DEF q, v, u, t, p
  <2>6. t.lastPaint = q /\ t.painted.run = s.hash.run
    BY <1>5, <2>1, <2>2, <2>5
  <2>7. q # None
    BY <2>2, ClientAssumption
  <2> QED BY <1>3, <1>7, <2>2, <2>6, <2>7 DEF p, t
<1>8. CASE p.by = "defect"
  <2> DEFINE q == [by |-> "defect", ws |-> None, run |-> None, cls |-> None, failure |-> None]
             v == FailureView(s.hash.ws, s.hash.run, "monitor_defect", FALSE)
  <2>1. t = ReplaceContent([u EXCEPT !.lastPaint = q], v)
    BY <1>2, <1>8 DEF ReplayLastPaint, RenderMonitorDefect
  <2>2. q \in PaintRecords /\ q.by = "defect"
    BY DEF PaintRecords, Maybe, All
  <2>3. v \in ViewType
    <3>1. PICK cls \in Maybe(ViewClasses), offer \in BOOLEAN : cls = "monitor_defect" /\ offer = FALSE
      BY DEF Maybe, ViewClasses
    <3> QED BY <1>4, <3>1, FailureViewFacts
  <2> HIDE DEF q, v, u, t, p
  <2>4. t.lastPaint = q
    BY <1>5, <2>1, <2>2, <2>3
  <2>5. q # None
    BY <2>2, ClientAssumption
  <2> QED BY <1>3, <1>8, <2>2, <2>4, <2>5 DEF p, t
<1> QED BY <1>1, <1>6, <1>7, <1>8

\* A run is painted from the projection in hand.
LEMMA RunRepaints ==
  ASSUME NEW s, Client(s), Deep(s.hash), s.detail # None, s.detail.run = s.hash.run, Throws(s) = None,
         s.hash.view = "unit" => s.detail.body # "nounit"
  PROVE  LET t == RenderCurrentGuarded(s) IN
         /\ t.painted.kind = "run" /\ t.painted.cls = None
         /\ t.painted.ver = Only(s.detail.ws, s.detail.ver)
<1> DEFINE v == [Blank EXCEPT !.kind = "run", !.ws = s.hash.ws, !.run = s.hash.run,
                              !.ver[s.detail.ws] = s.detail.ver]
           u == [s EXCEPT !.lastPaint = None]
           t == RenderCurrentGuarded(s)
<1>1. /\ s.hash.ws \in All /\ s.hash.run \in Maybe(Runs)
      /\ s.detail.ws \in All /\ s.detail.ver \in VerOrNone
  BY DEF Client, AddressFits, WellFormed, Browser, DetailType, Maybe, VerOrNone
<1>2. v \in ViewType /\ v.kind = "run" /\ v.cls = None
  BY <1>1, BlankType DEF Blank, ViewType
<1>3. v.ver = Only(s.detail.ws, s.detail.ver)
  <2>1. v.ver = [Blank.ver EXCEPT ![s.detail.ws] = s.detail.ver]
    BY DEF Blank
  <2> QED BY <1>1, <2>1, BlankVer
<1>4. Client(u) /\ u.hash = s.hash /\ u.detail = s.detail
  BY DEF Client, Browser, Maybe
<1>5. t = RenderCurrent(s)
  BY DEF RenderCurrentGuarded
<1>6. Throws(u) = None
  BY <1>4 DEF Throws
<1>7. PaintDetail(u) = ReplaceContent(u, v)
  BY <1>4, <1>6 DEF PaintDetail
<1>8. RenderCurrent(s) = IF s.hash.view = "unit" THEN RenderUnit(u) ELSE RenderDetail(u)
  BY DEF RenderCurrent, Deep
<1> HIDE DEF u, v, t
<1>9. RenderUnit(u) = PaintDetail(u) \/ s.hash.view # "unit"
  BY <1>4 DEF RenderUnit
<1>10. RenderDetail(u) = PaintDetail(u)
  BY <1>4 DEF RenderDetail
<1>11. t = ReplaceContent(u, v)
  BY <1>5, <1>7, <1>8, <1>9, <1>10
<1> QED BY <1>2, <1>3, <1>4, <1>11, ReplaceShows DEF t

\* The runs of a source are painted from the list in hand.
LEMMA RowsRepaint ==
  ASSUME NEW s, Client(s), s.hash.view = "runs"
  PROVE  LET t == RenderCurrentGuarded(s) IN
         /\ t.painted.kind = "runs" /\ t.painted.cls = None
         /\ t.painted.ver = Only(s.hash.ws, s.list)
<1> DEFINE v == [Blank EXCEPT !.kind = "runs", !.ws = s.hash.ws, !.ver[s.hash.ws] = s.list]
           u == [s EXCEPT !.lastPaint = None]
           t == RenderCurrentGuarded(s)
<1>1. s.hash.ws \in All /\ s.list \in VerOrNone
  BY DEF Client, AddressFits, WellFormed, Browser
<1>2. v \in ViewType /\ v.kind = "runs" /\ v.cls = None
  BY <1>1, BlankType DEF Blank, ViewType
<1>3. v.ver = Only(s.hash.ws, s.list)
  <2>1. v.ver = [Blank.ver EXCEPT ![s.hash.ws] = s.list]
    BY DEF Blank
  <2> QED BY <1>1, <2>1, BlankVer
<1>4. Client(u) /\ u.hash = s.hash /\ u.list = s.list
  BY DEF Client, Browser, Maybe
<1>5. Throws(s) = None
  BY ThrowsFacts DEF Deep
<1>6. t = RenderRuns(u)
  BY <1>5 DEF RenderCurrentGuarded, RenderCurrent
<1>7. RenderRuns(u) = ReplaceContent(u, v)
  BY <1>4 DEF RenderRuns
<1> HIDE DEF u, v, t
<1> QED BY <1>2, <1>3, <1>4, <1>6, <1>7, ReplaceShows DEF t

\* The overview is painted from the lists that are held.
LEMMA OverviewRepaints ==
  ASSUME NEW s, Client(s), s.hash.view = "workspaces"
  PROVE  LET t == RenderCurrentGuarded(s) IN
         /\ t.painted.kind = "overview" /\ t.painted.cls = None /\ t.painted.ver = ListsOf(s)
<1> DEFINE t == RenderCurrentGuarded(s)
<1>1. Throws(s) = None
  BY ThrowsFacts DEF Deep
<1>2. t = RenderCurrent(s)
  BY <1>1 DEF RenderCurrentGuarded
<1>3. Pure(s, t) /\ Painted(t)
  BY <1>1, <1>2, CurrentShown
<1> HIDE DEF t
<1>4. t.hash = s.hash /\ t.snap = s.snap
  BY <1>3 DEF Pure, SameRest, SameHeld
<1>5. t.painted.kind = "overview" /\ OverviewTrue(t)
  <2>1. KindsAt(t.hash) = {"overview"}
    BY <1>4 DEF KindsAt, Deep
  <2>2. ~Unread(t)
    BY <1>4 DEF Unread
  <2> QED BY <1>3, <2>1, <2>2 DEF Painted, Fits, Truthful
<1>6. t.painted.cls = None
  BY <1>3, <1>5 DEF Painted, Pictured, Shaped, Projections
<1>7. ListsOf(t) = ListsOf(s)
  BY <1>4 DEF ListsOf
<1> QED BY <1>5, <1>6, <1>7 DEF OverviewTrue, t

\* At rest the view is of what is held of the address.
LEMMA SettledRests ==
  ASSUME NEW s, BrowserInv(s), Contents(s), Pictured(s), Sound(s), Overlaid(s), ManualOnly(s), s.reqs = {}
  PROVE  Rests(s)
<1>1. ~Moved(s)
  BY DEF ManualOnly, Moved
<1>2. s.waits = {}
  BY DEF BrowserInv, Net, Listed
<1>3. ~Busy(s)
  <2>1. ~s.again
    BY <1>2 DEF BrowserInv, Flying, AwaitedIn
  <2> QED BY <1>2, <2>1 DEF Busy, ListComing
<1>4. Fits(s)
  BY <1>1, <1>3 DEF BrowserInv, ScreenKept
<1>5. s.painted.kind \in Projections => Faithful(s)
  BY <1>1, <1>3 DEF Sound, Plain, Projections
<1>6. /\ <<s.painted.ws, s.painted.run>> = Subject(s.hash) /\ Client(s)
      /\ s.painted.ws = s.hash.ws /\ s.painted.run = s.hash.run /\ s.hash.ws \in All
  BY <1>4 DEF Fits, Subject, BrowserInv, Client, AddressFits, WellFormed
<1>7. CASE s.painted.kind = "run"
  <2>1. RunTrue(s) /\ s.hash.run # None
    BY <1>5, <1>6, <1>7 DEF Faithful, Projections, Pictured, Shaped
  <2>2. Deep(s.hash)
    BY <1>6, <2>1 DEF Client, AddressFits, WellFormed, Deep
  <2>3. /\ At(s) = Subject(s.hash) /\ s.detail # None /\ s.detail.ws = s.hash.ws
        /\ s.painted.ver = Only(s.detail.ws, s.detail.ver)
    BY <1>1, <2>1, <2>2 DEF Contents, DetailAt, RunTrue, At, Subject
  <2>4. s.painted.ver[s.painted.ws] = s.detail.ver
    BY <1>6, <2>3 DEF Only
  <2> QED BY <1>6, <1>7, <2>3, <2>4 DEF Rests, Shown, HeldVer
<1>8. CASE s.painted.kind = "runs"
  <2>1. s.hash.view = "runs"
    BY <1>4, <1>6, <1>8 DEF Fits, KindsAt, Deep, Client, AddressFits, WellFormed
  <2>2. s.painted.ver = Only(s.hash.ws, s.list)
    <3>1. CASE Set
      BY <1>5, <1>8, <3>1 DEF Faithful, RunsTrue, Projections
    <3>2. CASE ~Set
      BY <1>1, <1>8, <2>1, <3>2 DEF Overlaid, Rows, InHand
    <3> QED BY <3>1, <3>2
  <2>3. s.painted.ver[s.painted.ws] = s.list
    BY <1>6, <2>2 DEF Only
  <2>4. HeldList(s, s.painted.ws) = s.list
    BY <1>1, <1>6, <2>1 DEF Contents, RowsAt, HeldList, Client, AddressFits
  <2> QED BY <1>6, <1>8, <2>3, <2>4 DEF Rests, Shown, HeldVer
<1>9. CASE s.painted.kind = "overview"
  <2>1. s.painted.ver = ListsOf(s) /\ Set
    BY <1>5, <1>9 DEF Faithful, OverviewTrue, Projections, Pictured, Shaped
  <2>2. \A w \in Workspaces : w # None /\ w \in All
    BY ClientAssumption DEF All
  <2>3. \A w \in Workspaces : s.painted.ver[w] = HeldList(s, w)
    BY <2>1, <2>2 DEF ListsOf, HeldList
  <2> QED BY <1>6, <1>9, <2>3 DEF Rests, Shown, HeldVer
<1>10. CASE s.painted.kind \notin Projections
  BY <1>6, <1>10 DEF Rests, Projections
<1> QED BY <1>7, <1>8, <1>9, <1>10 DEF Projections

\* A view of what is held of the address comes back as it was.
LEMMA RestedRepaints ==
  ASSUME NEW s, Client(s), Contents(s), Pictured(s), Overlaid(s), ~Moved(s), Rests(s),
         s.painted.kind \in Projections, NEW t, Client(t), SameHeld(s, t), t.hash = s.hash
  PROVE  LET z == RenderCurrentGuarded(t) IN
         z.painted.kind = s.painted.kind /\ z.painted.ver = s.painted.ver /\ z.painted.cls = s.painted.cls
<1> DEFINE z == RenderCurrentGuarded(t)
<1>1. /\ s.painted.ws = s.hash.ws /\ s.painted.run = s.hash.run /\ s.painted.cls = None
      /\ s.hash.ws \in All /\ t.detail = s.detail /\ t.list = s.list /\ t.snap = s.snap
      /\ s.hash.view \in {"workspaces", "runs", "detail", "unit", "invalid"}
      /\ s.hash.view \in {"detail", "unit"} <=> s.hash.run # None
  BY DEF Rests, Subject, Pictured, Shaped, SameHeld, Client, AddressFits, WellFormed
<1>2. s.hash.view # "invalid"
  BY DEF Overlaid, Void
<1> HIDE DEF z
<1>3. CASE s.painted.kind = "run"
  <2>1. Deep(s.hash) /\ s.detail # None
    BY <1>1, <1>3 DEF Pictured, Shaped, Rests, Deep
  <2>2. s.detail.run = s.hash.run
    BY <2>1 DEF Contents, DetailAt, At, Subject
  <2>3. /\ Throws(s) = None /\ (s.hash.view = "unit" => s.detail.body # "nounit")
        /\ s.painted.ver = Only(s.detail.ws, s.detail.ver)
    BY <1>3, <2>1 DEF Overlaid, Readable, Legible
  <2>4. Throws(t) = None
    BY <1>1, <2>3 DEF Throws
  <2> QED BY <1>1, <1>3, <2>1, <2>2, <2>3, <2>4, RunRepaints
<1>4. CASE s.painted.kind = "runs"
  <2>1. /\ s.hash.run = None /\ (Set <=> s.hash.ws # None)
        /\ s.painted.ver = Only(s.hash.ws, s.painted.ver[s.hash.ws])
    BY <1>1, <1>4 DEF Pictured, Shaped
  <2>2. s.hash.view = "runs"
    BY <1>1, <1>2, <2>1 DEF Client, AddressFits, WellFormed
  <2>3. s.painted.ver[s.hash.ws] = HeldList(s, s.hash.ws)
    BY <1>1, <1>4 DEF Rests, Shown, HeldVer, Projections
  <2>4. HeldList(s, s.hash.ws) = s.list
    BY <2>1, <2>2 DEF Contents, RowsAt, HeldList
  <2> QED BY <1>1, <1>4, <2>1, <2>2, <2>3, <2>4, RowsRepaint
<1>5. CASE s.painted.kind = "overview"
  <2>1. Set /\ s.hash.ws = None /\ s.hash.run = None /\ s.painted.ver[None] = None
    BY <1>1, <1>5 DEF Pictured, Shaped
  <2>2. s.hash.view = "workspaces"
    BY <1>1, <1>2, <2>1 DEF Client, AddressFits, WellFormed
  <2>3. \A w \in Workspaces : s.painted.ver[w] = HeldList(s, w)
    BY <1>5 DEF Rests, Shown, HeldVer, Projections
  <2>4. \A w \in All : s.painted.ver[w] = ListsOf(s)[w]
    BY <2>1, <2>3 DEF ListsOf, HeldList, All
  <2>5. s.painted.ver = ListsOf(s)
    <3>1. s.painted.ver \in [All -> VerOrNone]
      BY DEF Client, Browser, ViewType
    <3>2. DOMAIN ListsOf(s) = All /\ ListsOf(s) = [w \in All |-> ListsOf(s)[w]]
      BY DEF ListsOf
    <3> QED BY <2>4, <3>1, <3>2
  <2>6. ListsOf(t) = ListsOf(s)
    BY <1>1 DEF ListsOf
  <2> QED BY <1>1, <1>5, <2>2, <2>5, <2>6, OverviewRepaints
<1> QED BY <1>3, <1>4, <1>5 DEF Projections

\* Moving only the pane asks for nothing and leaves the view what it was.
LEMMA PaneKeepsView ==
  ASSUME NEW s, BrowserInv(s), Contents(s), Pictured(s), Sound(s), Overlaid(s), ManualOnly(s)
  PROVE  LET z == RouteChanged(Handled(s)) IN
         /\ z.reqs = s.reqs /\ z.waits = s.waits /\ z.again = s.again
         /\ Rests(s) \/ s.reqs = {} =>
              /\ z.painted.kind = s.painted.kind /\ z.painted.ver = s.painted.ver
              /\ \/ z.painted.cls = s.painted.cls
                 \/ /\ "resolved_child" \in {s.painted.cls, z.painted.cls}
                    /\ {s.painted.cls, z.painted.cls} \subseteq LossClasses
<1> DEFINE h == Handled(s)
           t == [h EXCEPT !.manual = s.hash.manual]
           z == RouteChanged(h)
<1>1. ManualOnly(h)
  BY DEF ManualOnly, Handled, BrowserInv, Client, Browser
<1>2. z = ManualMoved(h)
  BY <1>1 DEF RouteChanged
<1>3. /\ Client(t) /\ SameScreen(s, t) /\ SameHeld(s, t) /\ SameReqs(s, t)
      /\ t.hash = s.hash /\ t.again = s.again /\ SameRest(t, z) /\ SameNet(t, z)
      /\ IF t.lastPaint # None THEN z = ReplayLastPaint(t) /\ Failed(z)
                               ELSE z = RenderCurrentGuarded(t) /\ Painted(z)
  BY <1>1, <1>2, ManualPaints
<1> HIDE DEF h, t, z
<1>4. z.reqs = s.reqs /\ z.waits = s.waits /\ z.again = s.again
  BY <1>3 DEF SameReqs, SameRest, SameNet
<1>5. ASSUME Rests(s) \/ s.reqs = {}
      PROVE  /\ z.painted.kind = s.painted.kind /\ z.painted.ver = s.painted.ver
             /\ \/ z.painted.cls = s.painted.cls
                \/ /\ "resolved_child" \in {s.painted.cls, z.painted.cls}
                   /\ {s.painted.cls, z.painted.cls} \subseteq LossClasses
  <2>1. Rests(s) /\ ~Moved(s) /\ Client(s) /\ t.lastPaint = s.lastPaint
    BY <1>3, <1>5, SettledRests DEF ManualOnly, Moved, BrowserInv, SameScreen
  <2>2. CASE s.lastPaint = None
    <3>1. s.painted.kind \in Projections
      BY <2>1, <2>2 DEF ManualOnly, BrowserInv, Recorded, Client, Browser, ViewType, Projections
    <3>2. z = RenderCurrentGuarded(t)
      BY <1>3, <2>1, <2>2
    <3> QED BY <1>3, <2>1, <3>1, <3>2, RestedRepaints
  <2>3. CASE s.lastPaint # None
    <3> DEFINE p == s.lastPaint
               o == z.lastPaint
    <3>1. s.painted.kind = "failure" /\ s.painted.ver = Blank.ver /\ RecordIs(s)
      BY <2>3 DEF BrowserInv, Recorded, Pictured, Shaped
    <3>2. z.painted.kind = "failure" /\ z.painted.ver = Blank.ver /\ RecordIs(z)
      BY <1>3, <2>1, <2>3 DEF Failed, Pictured, Shaped
    <3>3. /\ o.by = p.by
          /\ p.by = "follow" => o.cls = p.cls
          /\ p.by = "unavailable" => o.failure = p.failure /\ z.painted.run = s.hash.run
      BY <1>3, <2>1, <2>3, ReplayRecords
    <3>4. p.by \in {"follow", "unavailable", "defect"} /\ s.painted.run = s.hash.run
      BY <2>1, <2>3 DEF Rests, Subject, Client, Browser, Maybe, PaintRecords
    <3>5. CASE p.by # "unavailable"
      BY <3>1, <3>2, <3>3, <3>4, <3>5 DEF RecordIs
    <3>6. CASE p.by = "unavailable"
      <4>1. CASE s.hash.run # None /\ p.failure \in Absences
        <5>1. {s.painted.cls, z.painted.cls} \subseteq {"resolved_child", LossView(p.failure)}
          BY <3>1, <3>2, <3>3, <3>4, <3>6, <4>1 DEF RecordIs
        <5>2. {"resolved_child", LossView(p.failure)} \subseteq LossClasses
          BY DEF LossView, LossClasses
        <5> QED BY <3>1, <3>2, <5>1, <5>2
      <4>2. CASE ~(s.hash.run # None /\ p.failure \in Absences)
        BY <3>1, <3>2, <3>3, <3>4, <3>6, <4>2 DEF RecordIs
      <4> QED BY <4>1, <4>2
    <3> QED BY <3>5, <3>6
  <2> QED BY <2>2, <2>3
<1> QED BY <1>4, <1>5 DEF z, h

\* Moving only the manual overlay issues no request, and the view of the
\* address stays what it was, failure views included, but for the parents of
\* an id that is not projected (routeChanged and replayLastPaint).
THEOREM ManualIsOverlayCorrect ==
  Spec => ManualIsOverlay
<1> DEFINE Step ==
      HashChange /\ ManualOnly(b) =>
         /\ b'.reqs = b.reqs /\ b'.waits = b.waits /\ b'.again = b.again
         /\ Rests(b) \/ b.reqs = {} =>
              /\ b'.painted.kind = b.painted.kind /\ b'.painted.ver = b.painted.ver
              /\ \/ b'.painted.cls = b.painted.cls
                 \/ /\ "resolved_child" \in {b.painted.cls, b'.painted.cls}
                    /\ {b.painted.cls, b'.painted.cls} \subseteq LossClasses
           Inv == ClientInv /\ LightInv /\ ContentInv /\ ToldInv /\ OverlayInv
<1>1. Inv => Step
  <2> SUFFICES ASSUME Inv, HashChange, ManualOnly(b) PROVE Step
    OBVIOUS
  <2>1. BrowserInv(b) /\ Contents(b) /\ Pictured(b) /\ Sound(b) /\ Overlaid(b)
    BY DEF ClientInv, ContentInv, ToldInv, OverlayInv
  <2>2. b' = RouteChanged(Handled(b))
    BY DEF HashChange, Handled
  <2> QED BY <2>1, <2>2, PaneKeepsView
<1>2. Inv /\ [Next]_vars => Inv' /\ [Step]_vars
  BY <1>1, NextTold, NextOverlaid
<1>3. Init => Inv
  BY InitInv, InitContent, InitTold, InitOverlaid DEF LightInv
<1> QED BY <1>2, <1>3, PTL DEF Spec, ManualIsOverlay
=============================================================================
