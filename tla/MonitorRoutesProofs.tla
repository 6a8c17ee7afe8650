------------------------ MODULE MonitorRoutesProofs ------------------------
(***************************************************************************)
(* Theorems about the addresses of MonitorRoutes, for every address that   *)
(* can be typed and every link that can be rendered.                       *)
(***************************************************************************)
EXTENDS MonitorRoutes, SequenceTheorems, TLAPS

\* A path segment is never empty; one that decodes is a word.
Words == STRING \ {""}
Segment == Words \cup {Undecodable}
Queries == Seq(Nat) \cup {None}

\* What can be in location.hash: any path, and any parameters, of which only the
\* search is read further.
Typed(hash) == hash.lead \in Nat /\ hash.segs \in Seq(Segment) /\ hash.params.q \in Queries

Fields ==
    {"view", "invalidPath", "workspace", "runId", "unitId", "attemptId", "filters", "sort", "q",
     "follow", "zoomStart", "selectedCluster", "selectedArc", "memberPage", "edgePage", "manual"}

-----------------------------------------------------------------------------
(***************************************************************************)
(* Parameters.                                                             *)
(***************************************************************************)
LEMMA Tokens ==
  /\ \A w \in {"", "index", "1", "manual", "workspaces", "runs", "units"} :
       w \notin {Undecodable, Unlinkable, Unsafe, None, Omitted}
  /\ \A w \in STRING : w \notin {Undecodable, Unlinkable, Unsafe, None, Omitted}
  /\ \A n \in Int : n \notin {Undecodable, Unlinkable, Unsafe, None, Omitted}
  /\ None \notin {Undecodable, Unlinkable, Unsafe, Omitted} /\ Undecodable \notin {Unlinkable, Omitted}
BY RoutesAssumption

LEMMA Vocabulary ==
  /\ Slugs \subseteq STRING \ {"", "index"}
  /\ SortVocabulary \subseteq STRING \ {""} /\ DefaultSort \in SortVocabulary
  /\ QueryLimit \in Nat
  /\ None \notin Seq(Nat) /\ None \notin Nat \X Seq(Segment)
  /\ \A name \in DOMAIN FilterVocabulary : None \notin FilterVocabulary[name]
BY RoutesAssumption DEF Segment, Words

\* The pane of an address is closed, at its index or at a section.
LEMMA Panes ==
  ASSUME NEW value
  PROVE  LET pane == ManualField(value) IN
         /\ pane \in {None, "index"} \cup Slugs
         /\ ManualField(pane) = pane /\ pane # Omitted /\ pane # ""
<1>1. ASSUME NEW slug \in Slugs PROVE slug \in STRING /\ slug # "" /\ slug # "index"
  BY Vocabulary
<1>2. \A slug \in Slugs : slug \notin {None, Undecodable, Omitted, ""}
  BY <1>1, Tokens
<1>3. "index" \notin {None, Undecodable, Omitted, ""} \cup Slugs /\ None # Omitted /\ None # ""
  BY <1>1, Tokens
<1>4. ManualField(None) = None /\ ManualField("index") = "index"
  BY <1>3 DEF ManualField
<1>5. \A slug \in Slugs : ManualField(slug) = slug
  BY <1>2 DEF ManualField
<1>6. ManualField(value) \in {None, "index"} \cup Slugs
  BY DEF ManualField
<1> QED BY <1>2, <1>3, <1>4, <1>5, <1>6

LEMMA NumbersRead ==
  ASSUME NEW value, NEW least \in Nat
  PROVE  LET n == Digits(value, least) IN
         /\ n = Unsafe \/ (n \in Nat /\ n >= least)
         /\ n \in Nat => Digits(n, least) = n
         /\ Digits(None, least) = least
<1>0. \A n \in Nat : n # None /\ n # Unsafe
  <2>1. \A n \in Nat : n \in Int
    OBVIOUS
  <2> QED BY <2>1, Tokens
<1>1. None # Unsafe /\ None \notin Nat /\ Unsafe \notin Nat
  BY <1>0, Tokens
<1>2. Digits(None, least) = least
  BY <1>1 DEF Digits
<1>3. CASE value = Unsafe
  BY <1>1, <1>2, <1>3 DEF Digits
<1>4. CASE value # Unsafe /\ value \in Nat
  <2> DEFINE n == IF value < least THEN least ELSE value
  <2>1. Digits(value, least) = n
    BY <1>4 DEF Digits
  <2>2. n \in Nat /\ n >= least
    BY <1>4
  <2>3. Digits(n, least) = n
    BY <1>1, <2>2 DEF Digits
  <2> QED BY <1>2, <2>1, <2>2, <2>3
<1>5. CASE value # Unsafe /\ value \notin Nat
  <2>1. Digits(value, least) = least /\ Digits(least, least) = least
    BY <1>1, <1>5 DEF Digits
  <2> QED BY <1>2, <2>1
<1> QED BY <1>3, <1>4, <1>5

LEMMA Truncates ==
  ASSUME NEW q \in Seq(Nat)
  PROVE  Truncated(q) \in Seq(Nat) /\ Truncated(Truncated(q)) = Truncated(q)
<1> DEFINE n == IF Len(q) < QueryLimit THEN Len(q) ELSE QueryLimit
<1>0. QueryLimit \in Nat /\ Len(q) \in Nat
  <2>1. Len(q) \in Nat
    OBVIOUS
  <2> QED BY ONLY <2>1, Vocabulary
<1>1. n \in Nat /\ n <= Len(q) /\ n <= QueryLimit
  BY <1>0
<1>2. Truncated(q) = SubSeq(q, 1, n)
  BY DEF Truncated
<1> HIDE DEF n
<1>3. SubSeq(q, 1, n) \in Seq(Nat) /\ Len(SubSeq(q, 1, n)) = n
  BY <1>1
<1> DEFINE u == SubSeq(q, 1, n)
<1>4. Truncated(u) = SubSeq(u, 1, n)
  BY <1>0, <1>1, <1>3 DEF Truncated
<1>5. SubSeq(u, 1, n) = u
  BY <1>1, <1>3
<1> QED BY <1>2, <1>3, <1>4, <1>5
-----------------------------------------------------------------------------
(***************************************************************************)
(* Paths.                                                                  *)
(***************************************************************************)
\* The workspaces an address can name: none in single mode.
Sources == IF WorkspaceSetMode THEN {Workspaces[i] : i \in 1..Len(Workspaces)} ELSE {None}
Base(w) == IF WorkspaceSetMode THEN <<"workspaces", w, "runs">> ELSE <<"runs">>

\* What is read at a source's list, at a run and at a unit of a run.
ListAt(params, w) == [NoRoute(params) EXCEPT !.view = "runs", !.workspace = w]
RunAt(params, w, run) ==
    [ListAt(params, w) EXCEPT !.view = "detail", !.runId = run, !.follow = params.follow = "1"]
UnitAt(params, w, run, unit) ==
    [RunAt(params, w, run) EXCEPT !.view = "unit", !.unitId = unit, !.attemptId = params.attempt]

LEMMA Configuration ==
  /\ WorkspaceSetMode => /\ Workspaces[1] \in Sources
                         /\ \A w \in Sources : w \in STRING /\ w # "" /\ Configured(w)
                         /\ \A w : Configured(w) => w \in Sources
  /\ ~WorkspaceSetMode => Sources = {None}
<1> DEFINE S == STRING \ {""}
<1>0. \A x \in S : x \in STRING /\ x # ""
  OBVIOUS
<1>1. Workspaces \in Seq(S)
  BY RoutesAssumption
<1> HIDE DEF S
<1>2. Len(Workspaces) \in Nat /\ (Workspaces # <<>> => Len(Workspaces) >= 1)
  BY <1>1
<1>3. \A i \in 1..Len(Workspaces) : Workspaces[i] \in STRING /\ Workspaces[i] # ""
  <2>1. \A i \in 1..Len(Workspaces) : Workspaces[i] \in S
    BY <1>1
  <2> QED BY <1>0, <2>1
<1>4. ASSUME WorkspaceSetMode
      PROVE  /\ Workspaces[1] \in Sources
             /\ \A w \in Sources : w \in STRING /\ w # "" /\ Configured(w)
  <2>1. 1 \in 1..Len(Workspaces)
    BY <1>2, <1>4 DEF WorkspaceSetMode
  <2>2. Sources = {Workspaces[i] : i \in 1..Len(Workspaces)}
    BY <1>4 DEF Sources
  <2>3. ASSUME NEW w \in Sources PROVE w \in STRING /\ w # "" /\ Configured(w)
    <3>1. PICK i \in 1..Len(Workspaces) : w = Workspaces[i]
      BY <2>2
    <3> QED BY <1>3, <3>1 DEF Configured
  <2> QED BY <2>1, <2>2, <2>3
<1>5. WorkspaceSetMode => \A w : Configured(w) => w \in Sources
  BY DEF Sources, Configured
<1> QED BY <1>2, <1>4, <1>5 DEF WorkspaceSetMode, Sources

\* The path below a source, of an address that begins with its workspace.
LEMMA Beyond ==
  ASSUME NEW X, NEW s, NEW n \in {3, 4, 6}, \A i \in 3..n : s[i] \in X,
         NEW t \in Seq(X), Len(t) = n - 2, \A i \in 1..n - 2 : t[i] = s[i + 2]
  PROVE  SubSeq(s, 3, n) = t
<1> DEFINE u == SubSeq(s, 3, n)
<1>0. 3 \in Int /\ n \in Int /\ 3 <= n /\ n - 3 + 1 = n - 2
  OBVIOUS
<1>1. u \in Seq(X) /\ Len(u) = n - 2 /\ \A i \in 1..n - 2 : u[i] = s[3 + i - 1]
  BY <1>0, SubSeqProperties
<1>2. \A i \in 1..n - 2 : 3 + i - 1 = i + 2
  BY <1>0
<1> HIDE DEF u
<1>3. \A i \in 1..Len(u) : u[i] = t[i]
  BY <1>1, <1>2
<1>4. Len(u) = Len(t)
  BY <1>1
<1>5. u = t
  BY <1>1, <1>3, <1>4, SeqEqual
<1> QED BY <1>5 DEF u

LEMMA BelowThree ==
  ASSUME NEW a, NEW b, NEW c
  PROVE  SubSeq(<<a, b, c>>, 3, 3) = <<c>>
<1> DEFINE X == {c}
           s == <<a, b, c>>
           t == <<c>>
<1>1. (\A i \in 3..3 : s[i] \in X) /\ Len(t) = 3 - 2 /\ \A i \in 1..3 - 2 : t[i] = s[i + 2]
  OBVIOUS
<1>2. t \in Seq(X)
  OBVIOUS
<1> HIDE DEF s, t, X
<1>3. SubSeq(s, 3, 3) = t
  BY <1>1, <1>2, Beyond
<1> QED BY <1>3 DEF s, t

LEMMA BelowFour ==
  ASSUME NEW a, NEW b, NEW c, NEW d
  PROVE  SubSeq(<<a, b, c, d>>, 3, 4) = <<c, d>>
<1> DEFINE X == {c, d}
           s == <<a, b, c, d>>
           t == <<c, d>>
<1>1. (\A i \in 3..4 : s[i] \in X) /\ Len(t) = 4 - 2 /\ \A i \in 1..4 - 2 : t[i] = s[i + 2]
  OBVIOUS
<1>2. t \in Seq(X)
  OBVIOUS
<1> HIDE DEF s, t, X
<1>3. SubSeq(s, 3, 4) = t
  BY <1>1, <1>2, Beyond
<1> QED BY <1>3 DEF s, t

LEMMA BelowSix ==
  ASSUME NEW a, NEW b, NEW c, NEW d, NEW e, NEW f
  PROVE  SubSeq(<<a, b, c, d, e, f>>, 3, 6) = <<c, d, e, f>>
<1> DEFINE X == {c, d, e, f}
           s == <<a, b, c, d, e, f>>
           t == <<c, d, e, f>>
<1>1. (\A i \in 3..6 : s[i] \in X) /\ Len(t) = 6 - 2 /\ \A i \in 1..6 - 2 : t[i] = s[i + 2]
  OBVIOUS
<1>2. t \in Seq(X)
  OBVIOUS
<1> HIDE DEF s, t, X
<1>3. SubSeq(s, 3, 6) = t
  BY <1>1, <1>2, Beyond
<1> QED BY <1>3 DEF s, t

\* A path put together of two.
LEMMA Together ==
  ASSUME NEW X, NEW s \in Seq(X), NEW t \in Seq(X), NEW u \in Seq(X),
         Len(u) = Len(s) + Len(t), \A i \in 1..Len(s) : u[i] = s[i],
         \A i \in 1..Len(t) : u[Len(s) + i] = t[i]
  PROVE  s \o t = u
<1> DEFINE v == s \o t
<1>0. Len(s) \in Nat /\ Len(t) \in Nat
  OBVIOUS
<1>1. v \in Seq(X) /\ Len(v) = Len(s) + Len(t)
      /\ \A i \in 1..Len(s) + Len(t) : v[i] = IF i <= Len(s) THEN s[i] ELSE t[i - Len(s)]
  BY ConcatProperties
<1> HIDE DEF v
<1>2. ASSUME NEW i \in 1..Len(v) PROVE v[i] = u[i]
  <2>1. CASE i <= Len(s)
    <3>1. i \in 1..Len(s)
      BY <1>0, <1>1, <2>1
    <3> QED BY <1>1, <2>1, <3>1
  <2>2. CASE ~(i <= Len(s))
    <3>1. i - Len(s) \in 1..Len(t) /\ Len(s) + (i - Len(s)) = i
      BY <1>0, <1>1, <2>2
    <3> QED BY <1>1, <2>2, <3>1
  <2> QED BY <2>1, <2>2
<1>3. v = u
  <2>1. Len(v) = Len(u)
    BY <1>1
  <2> QED BY <1>1, <1>2, <2>1, SeqEqual
<1> QED BY <1>3 DEF v

LEMMA JoinRun ==
  ASSUME NEW c, NEW d
  PROVE  <<c>> \o <<d>> = <<c, d>>
<1> DEFINE X == {c, d}
           s == <<c>>
           t == <<d>>
           u == <<c, d>>
<1>1. s \in Seq(X) /\ t \in Seq(X) /\ u \in Seq(X)
  OBVIOUS
<1>2. Len(s) = 1 /\ Len(t) = 1 /\ Len(u) = 2
  OBVIOUS
<1>3. u[1] = s[1]
  OBVIOUS
<1>4. u[2] = t[1]
  OBVIOUS
<1> HIDE DEF X, s, t, u
<1>5. \A i \in 1..Len(s) : u[i] = s[i]
  BY <1>2, <1>3
<1>6. \A i \in 1..Len(t) : u[Len(s) + i] = t[i]
  BY <1>2, <1>4
<1>7. Len(u) = Len(s) + Len(t)
  BY <1>2
<1>8. s \o t = u
  BY <1>1, <1>5, <1>6, <1>7, Together
<1> QED BY <1>8 DEF s, t, u

LEMMA JoinRunBelow ==
  ASSUME NEW a, NEW b, NEW c, NEW d
  PROVE  <<a, b, c>> \o <<d>> = <<a, b, c, d>>
<1> DEFINE X == {a, b, c, d}
           s == <<a, b, c>>
           t == <<d>>
           u == <<a, b, c, d>>
<1>1. s \in Seq(X) /\ t \in Seq(X) /\ u \in Seq(X)
  OBVIOUS
<1>2. Len(s) = 3 /\ Len(t) = 1 /\ Len(u) = 4
  OBVIOUS
<1>3. u[1] = s[1] /\ u[2] = s[2] /\ u[3] = s[3]
  OBVIOUS
<1>4. u[4] = t[1]
  OBVIOUS
<1> HIDE DEF X, s, t, u
<1>5. \A i \in 1..Len(s) : u[i] = s[i]
  BY <1>2, <1>3
<1>6. \A i \in 1..Len(t) : u[Len(s) + i] = t[i]
  BY <1>2, <1>4
<1>7. Len(u) = Len(s) + Len(t)
  BY <1>2
<1>8. s \o t = u
  BY <1>1, <1>5, <1>6, <1>7, Together
<1> QED BY <1>8 DEF s, t, u

LEMMA JoinUnit ==
  ASSUME NEW c, NEW d, NEW e, NEW f
  PROVE  <<c>> \o <<d, e, f>> = <<c, d, e, f>>
<1> DEFINE X == {c, d, e, f}
           s == <<c>>
           t == <<d, e, f>>
           u == <<c, d, e, f>>
<1>1. s \in Seq(X) /\ t \in Seq(X) /\ u \in Seq(X)
  OBVIOUS
<1>2. Len(s) = 1 /\ Len(t) = 3 /\ Len(u) = 4
  OBVIOUS
<1>3. u[1] = s[1]
  OBVIOUS
<1>4. u[2] = t[1] /\ u[3] = t[2] /\ u[4] = t[3]
  OBVIOUS
<1> HIDE DEF X, s, t, u
<1>5. \A i \in 1..Len(s) : u[i] = s[i]
  BY <1>2, <1>3
<1>6. \A i \in 1..Len(t) : u[Len(s) + i] = t[i]
  BY <1>2, <1>4
<1>7. Len(u) = Len(s) + Len(t)
  BY <1>2
<1>8. s \o t = u
  BY <1>1, <1>5, <1>6, <1>7, Together
<1> QED BY <1>8 DEF s, t, u

LEMMA JoinUnitBelow ==
  ASSUME NEW a, NEW b, NEW c, NEW d, NEW e, NEW f
  PROVE  <<a, b, c>> \o <<d, e, f>> = <<a, b, c, d, e, f>>
<1> DEFINE X == {a, b, c, d, e, f}
           s == <<a, b, c>>
           t == <<d, e, f>>
           u == <<a, b, c, d, e, f>>
<1>1. s \in Seq(X) /\ t \in Seq(X) /\ u \in Seq(X)
  OBVIOUS
<1>2. Len(s) = 3 /\ Len(t) = 3 /\ Len(u) = 6
  OBVIOUS
<1>3. u[1] = s[1] /\ u[2] = s[2] /\ u[3] = s[3]
  OBVIOUS
<1>4. u[4] = t[1] /\ u[5] = t[2] /\ u[6] = t[3]
  OBVIOUS
<1> HIDE DEF X, s, t, u
<1>5. \A i \in 1..Len(s) : u[i] = s[i]
  BY <1>2, <1>3
<1>6. \A i \in 1..Len(t) : u[Len(s) + i] = t[i]
  BY <1>2, <1>4
<1>7. Len(u) = Len(s) + Len(t)
  BY <1>2
<1>8. s \o t = u
  BY <1>1, <1>5, <1>6, <1>7, Together
<1> QED BY <1>8 DEF s, t, u

\* A path of a source whose segments all decode is read below that source.
LEMMA BelowSource ==
  ASSUME WorkspaceSetMode, NEW w \in Sources, NEW hash, NEW path, NEW n \in 3..6,
         Len(hash.segs) = n, \A i \in 1..n : hash.segs[i] # Undecodable,
         hash.segs[1] = "workspaces", hash.segs[2] = w, hash.segs[3] = "runs",
         SubSeq(hash.segs, 3, n) = path
  PROVE  ParseRoute(hash) = RunsPath(NoRoute(hash.params), w, path, hash.params)
<1>1. hash.segs # <<>> /\ Len(hash.segs) >= 3
  OBVIOUS
<1> QED BY <1>1, Configuration DEF ParseRoute, InWorkspace

LEMMA BelowRoot ==
  ASSUME ~WorkspaceSetMode, NEW w \in Sources, NEW hash, NEW n \in 1..4,
         Len(hash.segs) = n, \A i \in 1..n : hash.segs[i] # Undecodable,
         hash.segs[1] = "runs"
  PROVE  ParseRoute(hash) = RunsPath(NoRoute(hash.params), w, hash.segs, hash.params)
<1>1. hash.segs # <<>>
  OBVIOUS
<1> QED BY <1>1, Configuration DEF ParseRoute

LEMMA Lists ==
  ASSUME NEW w \in Sources, NEW hash, hash.segs = Base(w)
  PROVE  ParseRoute(hash) = ListAt(hash.params, w)
<1> DEFINE path == <<"runs">>
<1>1. \A s \in {"workspaces", "runs", "units"} : s # Undecodable
  BY Tokens
<1>2. WorkspaceSetMode => w # Undecodable
  BY Tokens, Configuration
<1>3. Len(path) = 1 /\ path[1] = "runs"
  OBVIOUS
<1>4. RunsPath(NoRoute(hash.params), w, path, hash.params) = ListAt(hash.params, w)
  <2> HIDE DEF path
  <2> QED BY <1>3 DEF RunsPath, ListAt
<1>5. CASE WorkspaceSetMode
  <2> DEFINE long == <<"workspaces", w, "runs">>
  <2>1. hash.segs = long
    BY <1>5 DEF Base
  <2>2. Len(long) = 3 /\ long[1] = "workspaces" /\ long[2] = w /\ long[3] = "runs"
    OBVIOUS
  <2>3. SubSeq(long, 3, 3) = path
    BY BelowThree
  <2> HIDE DEF path, long
  <2>4. \A i \in 1..3 : long[i] # Undecodable
    <3>1. \A i \in 1..3 : i \in {1, 2, 3}
      OBVIOUS
    <3> QED BY <1>1, <1>2, <1>5, <2>2, <3>1
  <2>5. ParseRoute(hash) = RunsPath(NoRoute(hash.params), w, path, hash.params)
    <3>1. 3 \in 3..6
      OBVIOUS
    <3> QED BY <1>5, <2>1, <2>2, <2>3, <2>4, <3>1, BelowSource
  <2> QED BY <1>4, <2>1, <2>5
<1>6. CASE ~WorkspaceSetMode
  <2>1. hash.segs = path
    BY <1>6 DEF Base
  <2> HIDE DEF path
  <2>2. \A i \in 1..1 : path[i] # Undecodable
    <3>1. \A i \in 1..1 : i \in {1}
      OBVIOUS
    <3> QED BY <1>1, <1>3, <3>1
  <2>3. ParseRoute(hash) = RunsPath(NoRoute(hash.params), w, path, hash.params)
    <3>1. 1 \in 1..4
      OBVIOUS
    <3> QED BY <1>3, <1>6, <2>1, <2>2, <3>1, BelowRoot
  <2> QED BY <1>4, <2>1, <2>3
<1> QED BY <1>5, <1>6

LEMMA Runs ==
  ASSUME NEW w \in Sources, NEW run, run # Undecodable,
         NEW hash, hash.segs = Base(w) \o <<run>>
  PROVE  ParseRoute(hash) = RunAt(hash.params, w, run)
<1> DEFINE path == <<"runs", run>>
<1>1. \A s \in {"workspaces", "runs", "units"} : s # Undecodable
  BY Tokens
<1>2. WorkspaceSetMode => w # Undecodable
  BY Tokens, Configuration
<1>3. Len(path) = 2 /\ path[1] = "runs" /\ path[2] = run
  OBVIOUS
<1>4. RunsPath(NoRoute(hash.params), w, path, hash.params) = RunAt(hash.params, w, run)
  <2> HIDE DEF path
  <2> QED BY <1>3 DEF RunsPath, RunAt, ListAt
<1>5. CASE WorkspaceSetMode
  <2> DEFINE long == <<"workspaces", w, "runs", run>>
  <2>1. hash.segs = long
    <3>1. <<"workspaces", w, "runs">> \o <<run>> = long
      BY JoinRunBelow
    <3> QED BY <1>5, <3>1 DEF Base
  <2>2. Len(long) = 4 /\ long[1] = "workspaces" /\ long[2] = w /\ long[3] = "runs"
        /\ long[4] = run
    OBVIOUS
  <2>3. SubSeq(long, 3, 4) = path
    BY BelowFour
  <2> HIDE DEF path, long
  <2>4. \A i \in 1..4 : long[i] # Undecodable
    <3>1. \A i \in 1..4 : i \in {1, 2, 3, 4}
      OBVIOUS
    <3> QED BY <1>1, <1>2, <1>5, <2>2, <3>1
  <2>5. ParseRoute(hash) = RunsPath(NoRoute(hash.params), w, path, hash.params)
    <3>1. 4 \in 3..6
      OBVIOUS
    <3> QED BY <1>5, <2>1, <2>2, <2>3, <2>4, <3>1, BelowSource
  <2> QED BY <1>4, <2>1, <2>5
<1>6. CASE ~WorkspaceSetMode
  <2>1. hash.segs = path
    <3>1. <<"runs">> \o <<run>> = path
      BY JoinRun
    <3> QED BY <1>6, <3>1 DEF Base
  <2> HIDE DEF path
  <2>2. \A i \in 1..2 : path[i] # Undecodable
    <3>1. \A i \in 1..2 : i \in {1, 2}
      OBVIOUS
    <3> QED BY <1>1, <1>3, <3>1
  <2>3. ParseRoute(hash) = RunsPath(NoRoute(hash.params), w, path, hash.params)
    <3>1. 2 \in 1..4
      OBVIOUS
    <3> QED BY <1>3, <1>6, <2>1, <2>2, <3>1, BelowRoot
  <2> QED BY <1>4, <2>1, <2>3
<1> QED BY <1>5, <1>6

LEMMA Units ==
  ASSUME NEW w \in Sources, NEW run, run # Undecodable, NEW unit, unit # Undecodable,
         NEW hash, hash.segs = Base(w) \o <<run, "units", unit>>
  PROVE  ParseRoute(hash) = UnitAt(hash.params, w, run, unit)
<1> DEFINE path == <<"runs", run, "units", unit>>
<1>1. \A s \in {"workspaces", "runs", "units"} : s # Undecodable
  BY Tokens
<1>2. WorkspaceSetMode => w # Undecodable
  BY Tokens, Configuration
<1>3. Len(path) = 4 /\ path[1] = "runs" /\ path[2] = run /\ path[3] = "units" /\ path[4] = unit
  OBVIOUS
<1>4. RunsPath(NoRoute(hash.params), w, path, hash.params) = UnitAt(hash.params, w, run, unit)
  <2> HIDE DEF path
  <2> QED BY <1>3 DEF RunsPath, UnitAt, RunAt, ListAt
<1>5. CASE WorkspaceSetMode
  <2> DEFINE long == <<"workspaces", w, "runs", run, "units", unit>>
  <2>1. hash.segs = long
    <3>1. <<"workspaces", w, "runs">> \o <<run, "units", unit>> = long
      BY JoinUnitBelow
    <3> QED BY <1>5, <3>1 DEF Base
  <2>2. Len(long) = 6 /\ long[1] = "workspaces" /\ long[2] = w /\ long[3] = "runs"
        /\ long[4] = run /\ long[5] = "units" /\ long[6] = unit
    OBVIOUS
  <2>3. SubSeq(long, 3, 6) = path
    BY BelowSix
  <2> HIDE DEF path, long
  <2>4. \A i \in 1..6 : long[i] # Undecodable
    <3>1. \A i \in 1..6 : i \in {1, 2, 3, 4, 5, 6}
      OBVIOUS
    <3> QED BY <1>1, <1>2, <1>5, <2>2, <3>1
  <2>5. ParseRoute(hash) = RunsPath(NoRoute(hash.params), w, path, hash.params)
    <3>1. 6 \in 3..6
      OBVIOUS
    <3> QED BY <1>5, <2>1, <2>2, <2>3, <2>4, <3>1, BelowSource
  <2> QED BY <1>4, <2>1, <2>5
<1>6. CASE ~WorkspaceSetMode
  <2>1. hash.segs = path
    <3>1. <<"runs">> \o <<run, "units", unit>> = path
      BY JoinUnit
    <3> QED BY <1>6, <3>1 DEF Base
  <2> HIDE DEF path
  <2>2. \A i \in 1..4 : path[i] # Undecodable
    <3>1. \A i \in 1..4 : i \in {1, 2, 3, 4}
      OBVIOUS
    <3> QED BY <1>1, <1>3, <3>1
  <2>3. ParseRoute(hash) = RunsPath(NoRoute(hash.params), w, path, hash.params)
    <3>1. 4 \in 1..4
      OBVIOUS
    <3> QED BY <1>3, <1>6, <2>1, <2>2, <3>1, BelowRoot
  <2> QED BY <1>4, <2>1, <2>3
<1> QED BY <1>5, <1>6
\* A path that ends where it began.
LEMMA JoinPair ==
  ASSUME NEW a, NEW b, NEW c
  PROVE  <<a>> \o <<b, c>> = <<a, b, c>>
<1> DEFINE X == {a, b, c}
           s == <<a>>
           t == <<b, c>>
           u == <<a, b, c>>
<1>1. s \in Seq(X) /\ t \in Seq(X) /\ u \in Seq(X)
  OBVIOUS
<1>2. Len(s) = 1 /\ Len(t) = 2 /\ Len(u) = 3
  OBVIOUS
<1>3. u[1] = s[1] /\ u[2] = t[1] /\ u[3] = t[2]
  OBVIOUS
<1> HIDE DEF X, s, t, u
<1>4. \A i \in 1..Len(s) : u[i] = s[i]
  BY <1>2, <1>3
<1>5. \A i \in 1..Len(t) : u[Len(s) + i] = t[i]
  BY <1>2, <1>3
<1>6. Len(u) = Len(s) + Len(t)
  BY <1>2
<1>7. s \o t = u
  BY <1>1, <1>4, <1>5, <1>6, Together
<1> QED BY <1>7 DEF s, t, u

LEMMA JoinNothing ==
  ASSUME NEW w, NEW run
  PROVE  Base(w) \o <<>> = Base(w) /\ <<run>> \o <<>> = <<run>> /\ <<>> \o <<>> = <<>>
<1>1. \A X : \A s \in Seq(X) : s \o <<>> = s
  BY ConcatEmptySeq
<1> DEFINE X == {"workspaces", w, "runs"}
           Y == {run}
<1>2. Base(w) \in Seq(X)
  <2>1. <<"workspaces", w, "runs">> \in Seq(X) /\ <<"runs">> \in Seq(X)
    OBVIOUS
  <2> HIDE DEF X
  <2> QED BY <2>1 DEF Base
<1>3. <<run>> \in Seq(Y) /\ <<>> \in Seq(Y)
  OBVIOUS
<1> HIDE DEF X, Y
<1> QED BY <1>1, <1>2, <1>3

-----------------------------------------------------------------------------
(***************************************************************************)
(* What is read from an address, and what is written of it again.          *)
(***************************************************************************)
IsPane(m) == ManualField(m) = m /\ m # Omitted
IsRead(n, least) == n = Unsafe \/ (n \in Nat /\ n >= least)
Normal(filters) ==
    filters = [name \in DOMAIN FilterVocabulary |->
                 IF filters[name] \in FilterVocabulary[name] THEN filters[name] ELSE None]

\* The parameters as they are kept in a route.
Kept(r) ==
    /\ DOMAIN r = Fields
    /\ Normal(r.filters) /\ r.sort \in SortVocabulary
    /\ r.q \in Seq(Nat) /\ Truncated(r.q) = r.q
    /\ IsRead(r.zoomStart, 0) /\ IsRead(r.memberPage, 1) /\ IsRead(r.edgePage, 1)
    /\ r.selectedCluster # "" /\ r.selectedArc # "" /\ IsPane(r.manual) /\ r.follow \in BOOLEAN

InvalidPath(path) ==
  LET segs == path[2] IN
    /\ path # None /\ segs \in Seq(Segment) /\ segs # <<>> /\ segs[1] # "manual"
    /\ \E i \in 1..Len(segs) : segs[i] = Undecodable

\* A route that parseRoute returns.
Routable(r) ==
    /\ Kept(r)
    /\ r.view \in {"invalid", "workspaces", "runs", "detail", "unit"}
    /\ r.view \in {"invalid", "workspaces", "runs"} =>
         r.runId = None /\ r.unitId = None /\ r.attemptId = None
    /\ r.view \in {"invalid", "workspaces"} => r.workspace = None
    /\ r.view = "workspaces" => WorkspaceSetMode
    /\ r.view = "invalid" => InvalidPath(r.invalidPath)
    /\ r.view \in {"runs", "detail", "unit"} => r.workspace \in Sources
    /\ r.view \in {"detail", "unit"} => r.runId \in Words
    /\ r.view = "detail" => r.unitId = None /\ r.attemptId = None
    /\ r.view = "unit" => r.unitId \in Words

\* What routeHash writes of it, wherever the operator is.
Written(r, m) ==
    IF r.view = "invalid"
    THEN [lead |-> 1, segs |-> r.invalidPath[2], params |-> PaneOnly(m)]
    ELSE IF r.view = "workspaces" /\ WorkspaceSetMode
    THEN [lead |-> 1, segs |-> <<"workspaces">>, params |-> PaneOnly(m)]
    ELSE [lead |-> 1, segs |-> Base(r.workspace) \o DetailSegments(r), params |-> RouteParams(r, m)]

\* The route r under the pane m.
Under(s, r, m) ==
    DOMAIN s = Fields /\ s.manual = m /\ \A f \in Fields \ {"manual"} : s[f] = r[f]

LEMMA UnderPane ==
  ASSUME NEW r, DOMAIN r = Fields, NEW m
  PROVE  Under([r EXCEPT !.manual = m], r, m) /\ Under(r, r, r.manual)
<1>1. "manual" \in DOMAIN r
  BY DEF Fields
<1> QED BY <1>1 DEF Under

LEMMA FieldsUnder ==
  ASSUME NEW s, NEW r, NEW m, Under(s, r, m)
  PROVE  /\ s.view = r.view /\ s.invalidPath = r.invalidPath /\ s.workspace = r.workspace
         /\ s.runId = r.runId /\ s.unitId = r.unitId /\ s.attemptId = r.attemptId
         /\ s.filters = r.filters /\ s.sort = r.sort /\ s.q = r.q /\ s.follow = r.follow
         /\ s.zoomStart = r.zoomStart /\ s.selectedCluster = r.selectedCluster
         /\ s.selectedArc = r.selectedArc /\ s.memberPage = r.memberPage
         /\ s.edgePage = r.edgePage /\ s.manual = m
BY DEF Under, Fields

LEMMA WordsLink ==
  \A id \in Words : id \notin {None, "", Unlinkable, Undecodable}
BY Tokens DEF Words

\* The address of a route does not depend on where the operator is.
LEMMA Writes ==
  ASSUME NEW r, Routable(r), NEW m, IsPane(m), NEW s, Under(s, r, m), NEW current
  PROVE  RouteHash(s, current) = Written(r, m)
<1>1. RouteManualField(s, current) = m
  BY FieldsUnder DEF RouteManualField, IsPane
<1>2. DetailSegments(s) = DetailSegments(r)
  BY FieldsUnder DEF DetailSegments
<1>3. RouteParams(s, m) = RouteParams(r, m)
  <2>1. /\ s.runId = r.runId /\ s.attemptId = r.attemptId /\ s.filters = r.filters
        /\ s.sort = r.sort /\ s.q = r.q /\ s.follow = r.follow
        /\ s.zoomStart = r.zoomStart /\ s.selectedCluster = r.selectedCluster
        /\ s.selectedArc = r.selectedArc /\ s.memberPage = r.memberPage /\ s.edgePage = r.edgePage
    BY FieldsUnder
  <2> QED BY ONLY <2>1 DEF RouteParams
<1>4. r.view \in {"runs", "detail", "unit"} => WorkspacePath(s, current) = Base(r.workspace)
  <2>1. CASE WorkspaceSetMode /\ r.view \in {"runs", "detail", "unit"}
    <3>1. r.workspace \in STRING /\ r.workspace # "" /\ s.workspace = r.workspace
      BY <2>1, Configuration, FieldsUnder DEF Routable
    <3>2. FirstOf(s.workspace, FirstOf(ParseRoute(current).workspace, Workspaces[1])) = r.workspace
      BY <3>1, Tokens DEF FirstOf
    <3> QED BY <2>1, <3>2 DEF WorkspacePath, Base
  <2>2. CASE ~WorkspaceSetMode
    BY <2>2 DEF WorkspacePath, Base
  <2> QED BY <2>1, <2>2
<1>5. CASE r.view = "invalid"
  <2>1. r.invalidPath # None
    BY <1>5 DEF Routable, InvalidPath
  <2>2. RouteHash(s, current) = InvalidHash(s, m)
    BY <1>1, <1>5, FieldsUnder DEF RouteHash
  <2> QED BY <1>5, <2>1, <2>2, FieldsUnder DEF InvalidHash, Written
<1>6. CASE r.view = "workspaces"
  <2>1. WorkspaceSetMode
    BY <1>6 DEF Routable
  <2>2. s.view = "workspaces"
    BY <1>6, FieldsUnder
  <2> QED BY <1>1, <1>6, <2>1, <2>2 DEF RouteHash, Written
<1>7. CASE r.view \in {"runs", "detail", "unit"}
  <2>1. s.view = r.view /\ r.view # "invalid" /\ r.view # "workspaces"
    BY <1>7, FieldsUnder
  <2> QED BY <1>1, <1>2, <1>3, <1>4, <1>7, <2>1 DEF RouteHash, Written
<1> QED BY <1>5, <1>6, <1>7 DEF Routable

LEMMA Fresh ==
  ASSUME NEW params, params.q \in Queries
  PROVE  LET r == NoRoute(params) IN
         /\ Kept(r)
         /\ r.invalidPath = None /\ r.workspace = None /\ r.runId = None /\ r.unitId = None
         /\ r.attemptId = None /\ r.follow \in BOOLEAN
         /\ r.view = IF WorkspaceSetMode THEN "workspaces" ELSE "runs"
         /\ r.manual = ManualField(params.manual)
<1> DEFINE r == NoRoute(params)
<1>1. DOMAIN r = Fields
  BY DEF NoRoute, Fields
<1>2. Normal(r.filters)
  <2> DEFINE f == [name \in DOMAIN FilterVocabulary |->
                     IF params.filters[name] \in FilterVocabulary[name]
                     THEN params.filters[name] ELSE None]
  <2>1. r.filters = f
    BY DEF NoRoute
  <2>2. \A name \in DOMAIN FilterVocabulary :
          f[name] = IF f[name] \in FilterVocabulary[name] THEN f[name] ELSE None
    OBVIOUS
  <2> HIDE DEF r
  <2>3. f = [name \in DOMAIN FilterVocabulary |->
               IF f[name] \in FilterVocabulary[name] THEN f[name] ELSE None]
    BY <2>2
  <2> QED BY <2>1, <2>3 DEF Normal
<1>3. r.sort \in SortVocabulary
  BY Vocabulary DEF NoRoute
<1>4. r.q \in Seq(Nat) /\ Truncated(r.q) = r.q
  <2>1. CASE params.q = None
    <3>1. r.q = <<>>
      BY <2>1 DEF NoRoute
    <3>2. <<>> \in Seq(Nat) /\ Len(<<>>) = 0
      OBVIOUS
    <3>3. Truncated(<<>>) = SubSeq(<<>>, 1, 0)
      <4>1. QueryLimit \in Nat
        BY ONLY Vocabulary
      <4>2. (IF 0 < QueryLimit THEN 0 ELSE QueryLimit) = 0
        BY <4>1
      <4> QED BY ONLY <3>2, <4>2 DEF Truncated
    <3>4. SubSeq(<<>>, 1, 0) = <<>>
      BY SubSeqEmpty
    <3> QED BY <3>1, <3>2, <3>3, <3>4
  <2>2. CASE params.q # None
    <3>1. params.q \in Seq(Nat) /\ r.q = Truncated(params.q)
      BY <2>2 DEF NoRoute, Queries
    <3> QED BY <3>1, Truncates
  <2> QED BY <2>1, <2>2
<1>5. IsRead(r.zoomStart, 0) /\ IsRead(r.memberPage, 1) /\ IsRead(r.edgePage, 1)
  <2>1. r.zoomStart = Digits(params.zoom, 0) /\ r.memberPage = Digits(params.members, 1)
        /\ r.edgePage = Digits(params.edges, 1)
    BY DEF NoRoute
  <2>2. 0 \in Nat /\ 1 \in Nat
    OBVIOUS
  <2> HIDE DEF r
  <2> QED BY <2>1, <2>2, NumbersRead DEF IsRead
<1>6. r.selectedCluster # "" /\ r.selectedArc # ""
  <2>1. r.selectedCluster = FirstOf(params.cluster, None) /\ r.selectedArc = FirstOf(params.arc, None)
    BY DEF NoRoute
  <2> HIDE DEF r
  <2> QED BY <2>1, Tokens DEF FirstOf
<1>7. r.manual = ManualField(params.manual) /\ IsPane(r.manual)
  <2>1. r.manual = ManualField(params.manual)
    BY DEF NoRoute
  <2> HIDE DEF r
  <2> QED BY <2>1, Panes DEF IsPane
<1>8. /\ r.invalidPath = None /\ r.workspace = None /\ r.runId = None /\ r.unitId = None
      /\ r.attemptId = None /\ r.follow \in BOOLEAN
      /\ r.view = IF WorkspaceSetMode THEN "workspaces" ELSE "runs"
  BY DEF NoRoute
<1> HIDE DEF r
<1>9. Kept(r)
  BY <1>1, <1>2, <1>3, <1>4, <1>5, <1>6, <1>7, <1>8 DEF Kept
<1> QED BY <1>7, <1>8, <1>9 DEF r

\* The part of a route that its query carries.
SameQuery(s, r) ==
    /\ DOMAIN s = DOMAIN r
    /\ s.filters = r.filters /\ s.sort = r.sort /\ s.q = r.q /\ s.zoomStart = r.zoomStart
    /\ s.selectedCluster = r.selectedCluster /\ s.selectedArc = r.selectedArc
    /\ s.memberPage = r.memberPage /\ s.edgePage = r.edgePage

LEMMA KeptAgain ==
  ASSUME NEW r, Kept(r), NEW s, SameQuery(s, r), IsPane(s.manual), s.follow \in BOOLEAN
  PROVE  Kept(s)
BY DEF Kept, SameQuery

LEMMA AtList ==
  ASSUME NEW params, params.q \in Queries, NEW w,
         NEW r, r = ListAt(params, w)
  PROVE  /\ SameQuery(r, NoRoute(params))
         /\ r.view = "runs" /\ r.workspace = w /\ r.runId = None /\ r.unitId = None
         /\ r.attemptId = None /\ r.follow \in BOOLEAN /\ r.manual = ManualField(params.manual)
         /\ Kept(r)
<1> DEFINE o == NoRoute(params)
<1>1. /\ DOMAIN o = Fields /\ o.runId = None /\ o.unitId = None /\ o.attemptId = None
      /\ o.follow \in BOOLEAN /\ o.manual = ManualField(params.manual) /\ Kept(o) /\ IsPane(o.manual)
  BY Fresh DEF Kept
<1>2. r = [o EXCEPT !.view = "runs", !.workspace = w]
  BY DEF ListAt
<1> HIDE DEF o
<1>3. SameQuery(r, o) /\ r.view = "runs" /\ r.workspace = w /\ r.runId = o.runId
      /\ r.unitId = o.unitId /\ r.attemptId = o.attemptId /\ r.follow = o.follow
      /\ r.manual = o.manual
  BY <1>1, <1>2 DEF SameQuery, Fields
<1>4. Kept(r)
  BY <1>1, <1>3, KeptAgain
<1> QED BY <1>1, <1>3, <1>4 DEF o

LEMMA AtRun ==
  ASSUME NEW params, params.q \in Queries, NEW w, NEW run,
         NEW r, r = RunAt(params, w, run)
  PROVE  /\ SameQuery(r, NoRoute(params))
         /\ r.view = "detail" /\ r.workspace = w /\ r.runId = run /\ r.unitId = None
         /\ r.attemptId = None /\ r.follow = (params.follow = "1")
         /\ r.manual = ManualField(params.manual) /\ Kept(r)
<1> DEFINE o == ListAt(params, w)
<1>1. /\ DOMAIN o = Fields /\ o.workspace = w /\ o.unitId = None /\ o.attemptId = None
      /\ o.manual = ManualField(params.manual) /\ Kept(o) /\ IsPane(o.manual)
      /\ SameQuery(o, NoRoute(params))
  <2>1. /\ o.workspace = w /\ o.unitId = None /\ o.attemptId = None
        /\ o.manual = ManualField(params.manual) /\ Kept(o) /\ SameQuery(o, NoRoute(params))
    <3>1. o = ListAt(params, w)
      OBVIOUS
    <3> HIDE DEF o
    <3> QED BY <3>1, AtList
  <2> HIDE DEF o
  <2> QED BY <2>1 DEF Kept
<1>2. r = [o EXCEPT !.view = "detail", !.runId = run, !.follow = params.follow = "1"]
  BY DEF RunAt
<1> HIDE DEF o
<1>3. SameQuery(r, o) /\ r.view = "detail" /\ r.runId = run /\ r.workspace = o.workspace
      /\ r.unitId = o.unitId /\ r.attemptId = o.attemptId /\ r.follow = (params.follow = "1")
      /\ r.manual = o.manual
  BY <1>1, <1>2 DEF SameQuery, Fields
<1>4. Kept(r)
  BY <1>1, <1>3, KeptAgain
<1>5. SameQuery(r, NoRoute(params))
  BY <1>1, <1>3 DEF SameQuery
<1> QED BY <1>1, <1>3, <1>4, <1>5

LEMMA AtUnit ==
  ASSUME NEW params, params.q \in Queries, NEW w, NEW run, NEW unit,
         NEW r, r = UnitAt(params, w, run, unit)
  PROVE  /\ SameQuery(r, NoRoute(params))
         /\ r.view = "unit" /\ r.workspace = w /\ r.runId = run /\ r.unitId = unit
         /\ r.attemptId = params.attempt /\ r.follow = (params.follow = "1")
         /\ r.manual = ManualField(params.manual) /\ Kept(r)
<1> DEFINE o == RunAt(params, w, run)
<1>1. /\ DOMAIN o = Fields /\ o.workspace = w /\ o.runId = run /\ o.follow = (params.follow = "1")
      /\ o.manual = ManualField(params.manual) /\ Kept(o) /\ IsPane(o.manual)
      /\ SameQuery(o, NoRoute(params))
  <2>1. /\ o.workspace = w /\ o.runId = run /\ o.follow = (params.follow = "1")
        /\ o.manual = ManualField(params.manual) /\ Kept(o) /\ SameQuery(o, NoRoute(params))
    BY AtRun
  <2> HIDE DEF o
  <2> QED BY <2>1 DEF Kept
<1>2. r = [o EXCEPT !.view = "unit", !.unitId = unit, !.attemptId = params.attempt]
  BY DEF UnitAt
<1> HIDE DEF o
<1>3. SameQuery(r, o) /\ r.view = "unit" /\ r.runId = o.runId /\ r.workspace = o.workspace
      /\ r.unitId = unit /\ r.attemptId = params.attempt /\ r.follow = o.follow
      /\ r.manual = o.manual
  BY <1>1, <1>2 DEF SameQuery, Fields
<1>4. Kept(r)
  BY <1>1, <1>3, KeptAgain
<1>5. SameQuery(r, NoRoute(params))
  BY <1>1, <1>3 DEF SameQuery
<1> QED BY <1>1, <1>3, <1>4, <1>5

LEMMA RoutableList ==
  ASSUME NEW params, params.q \in Queries, NEW w \in Sources
  PROVE  Routable(ListAt(params, w))
<1> DEFINE r == ListAt(params, w)
<1>1. r.view = "runs" /\ r.workspace = w /\ r.runId = None /\ r.unitId = None
      /\ r.attemptId = None /\ r.follow \in BOOLEAN /\ Kept(r)
  <2>1. r = ListAt(params, w)
    OBVIOUS
  <2> HIDE DEF r
  <2> QED BY <2>1, AtList
<1> HIDE DEF r
<1>2. Routable(r)
  BY <1>1 DEF Routable
<1> QED BY <1>2 DEF r

LEMMA RoutableRun ==
  ASSUME NEW params, params.q \in Queries, NEW w \in Sources, NEW run \in Words
  PROVE  Routable(RunAt(params, w, run))
<1> DEFINE r == RunAt(params, w, run)
<1>1. r.view = "detail" /\ r.workspace = w /\ r.runId = run /\ r.unitId = None
      /\ r.attemptId = None /\ Kept(r)
  BY AtRun
<1> HIDE DEF r
<1>2. Routable(r)
  BY <1>1 DEF Routable
<1> QED BY <1>2 DEF r

LEMMA RoutableUnit ==
  ASSUME NEW params, params.q \in Queries, NEW w \in Sources, NEW run \in Words, NEW unit \in Words
  PROVE  Routable(UnitAt(params, w, run, unit))
<1> DEFINE r == UnitAt(params, w, run, unit)
<1>1. r.view = "unit" /\ r.workspace = w /\ r.runId = run /\ r.unitId = unit /\ Kept(r)
  BY AtUnit
<1> HIDE DEF r
<1>2. Routable(r)
  BY <1>1 DEF Routable
<1> QED BY <1>2 DEF r

LEMMA RoutableBelow ==
  ASSUME NEW params, params.q \in Queries, NEW w \in Sources, NEW path \in Seq(Words)
  PROVE  Routable(RunsPath(NoRoute(params), w, path, params))
<1>1. CASE Len(path) < 2 \/ path[1] # "runs"
  <2>1. RunsPath(NoRoute(params), w, path, params) = ListAt(params, w)
    BY <1>1 DEF RunsPath, ListAt
  <2> QED BY <2>1, RoutableList
<1>2. CASE ~(Len(path) < 2 \/ path[1] # "runs")
  <2>1. path[2] \in Words /\ (Len(path) >= 4 => path[4] \in Words)
    <3>1. Len(path) \in Nat
      OBVIOUS
    <3>2. 2 \in 1..Len(path) /\ (Len(path) >= 4 => 4 \in 1..Len(path))
      BY <1>2, <3>1
    <3> HIDE DEF Words
    <3> QED BY <3>2
  <2>2. CASE Len(path) >= 4 /\ path[3] = "units"
    <3>1. RunsPath(NoRoute(params), w, path, params) = UnitAt(params, w, path[2], path[4])
      BY <1>2, <2>2 DEF RunsPath, UnitAt, RunAt, ListAt
    <3> QED BY <2>1, <2>2, <3>1, RoutableUnit
  <2>3. CASE ~(Len(path) >= 4 /\ path[3] = "units")
    <3>1. RunsPath(NoRoute(params), w, path, params) = RunAt(params, w, path[2])
      BY <1>2, <2>3 DEF RunsPath, RunAt, ListAt
    <3> QED BY <2>1, <3>1, RoutableRun
  <2> QED BY <2>2, <2>3
<1> QED BY <1>1, <1>2

LEMMA ParseRoutable ==
  ASSUME NEW hash, Typed(hash)
  PROVE  Routable(ParseRoute(hash))
<1> DEFINE segs == hash.segs
           o == NoRoute(hash.params)
           r == ParseRoute(hash)
<1>0. hash.lead \in Nat /\ segs \in Seq(Segment) /\ Len(segs) \in Nat /\ hash.params.q \in Queries
  BY DEF Typed
<1>1. /\ Kept(o) /\ DOMAIN o = Fields
      /\ o.invalidPath = None /\ o.workspace = None /\ o.runId = None /\ o.unitId = None
      /\ o.attemptId = None /\ o.follow \in BOOLEAN
      /\ o.view = IF WorkspaceSetMode THEN "workspaces" ELSE "runs"
      /\ IsPane(o.manual)
  <2>1. /\ Kept(o)
        /\ o.invalidPath = None /\ o.workspace = None /\ o.runId = None /\ o.unitId = None
        /\ o.attemptId = None /\ o.follow \in BOOLEAN
        /\ o.view = IF WorkspaceSetMode THEN "workspaces" ELSE "runs"
    BY <1>0, Fresh
  <2> HIDE DEF o
  <2> QED BY <2>1 DEF Kept
<1>2. ~WorkspaceSetMode => None \in Sources
  BY Configuration
<1>3. ASSUME NEW p, IsPane(p), NEW s, s = [o EXCEPT !.manual = p] PROVE Routable(s)
  <2> HIDE DEF o
  <2>1. /\ SameQuery(s, o) /\ s.workspace = None /\ s.runId = None /\ s.unitId = None
        /\ s.attemptId = None /\ s.follow \in BOOLEAN /\ s.view = o.view /\ s.manual = p
    BY <1>1, <1>3 DEF SameQuery, Fields
  <2>2. Kept(s)
    BY <1>1, <1>3, <2>1, KeptAgain
  <2> QED BY <1>1, <1>2, <2>1, <2>2 DEF Routable
<1>4. CASE segs # <<>> /\ segs[1] = "manual"
  <2> DEFINE p == IF Len(segs) >= 2 THEN FirstOf(ManualField(segs[2]), "index") ELSE "index"
  <2>1. r = [o EXCEPT !.manual = p]
    BY <1>4 DEF ParseRoute
  <2>2. IsPane("index")
    <3>1. ManualField("index") = "index"
      BY Tokens, Vocabulary DEF ManualField
    <3> QED BY <3>1, Tokens DEF IsPane
  <2>3. IsPane(ManualField(segs[2]))
    BY Panes DEF IsPane
  <2>4. IsPane(p)
    BY <2>2, <2>3 DEF FirstOf
  <2> HIDE DEF o, p, r
  <2>5. Routable(r)
    BY <1>3, <2>1, <2>4
  <2> QED BY <2>5 DEF r
<1>5. CASE ~(segs # <<>> /\ segs[1] = "manual") /\ \E i \in 1..Len(segs) : segs[i] = Undecodable
  <2> DEFINE path == <<hash.lead, segs>>
  <2>1. r = [o EXCEPT !.view = "invalid", !.invalidPath = path]
    BY <1>5 DEF ParseRoute
  <2>2. segs # <<>>
    BY <1>0, <1>5
  <2>3. path # None
    <3>1. path \in Nat \X Seq(Segment)
      BY <1>0
    <3> HIDE DEF path
    <3> QED BY <3>1, Vocabulary
  <2>4. path[2] = segs
    OBVIOUS
  <2>5. InvalidPath(path)
    <3> HIDE DEF path, segs
    <3> QED BY <1>0, <1>5, <2>2, <2>3, <2>4 DEF InvalidPath
  <2> HIDE DEF o, r, path
  <2>6. /\ SameQuery(r, o) /\ r.workspace = None /\ r.runId = None /\ r.unitId = None
        /\ r.attemptId = None /\ r.follow \in BOOLEAN /\ r.view = "invalid" /\ r.manual = o.manual
        /\ r.invalidPath = path
    BY <1>1, <2>1 DEF SameQuery, Fields
  <2>7. Kept(r)
    BY <1>1, <2>6, KeptAgain
  <2>8. Routable(r)
    BY <2>5, <2>6, <2>7 DEF Routable
  <2> QED BY <2>8 DEF r
<1>6. CASE ~(segs # <<>> /\ segs[1] = "manual") /\ ~\E i \in 1..Len(segs) : segs[i] = Undecodable
  <2>1. \A i \in 1..Len(segs) : segs[i] \in Words
    <3>1. \A i \in 1..Len(segs) : segs[i] \in Segment
      <4> HIDE DEF segs
      <4> QED BY <1>0
    <3> HIDE DEF segs
    <3> QED BY <1>6, <3>1 DEF Segment
  <2>2. CASE ~WorkspaceSetMode
    <3>1. r = RunsPath(o, None, segs, hash.params)
      BY <1>6, <2>2 DEF ParseRoute
    <3>2. segs \in Seq(Words)
      <4> HIDE DEF segs
      <4> QED BY <1>0, <2>1
    <3> QED BY <1>0, <1>2, <2>2, <3>1, <3>2, RoutableBelow
  <2>3. CASE WorkspaceSetMode /\ InWorkspace(segs)
    <3> DEFINE path == SubSeq(segs, 3, Len(segs))
    <3>1. r = RunsPath(o, segs[2], path, hash.params)
      BY <1>6, <2>3 DEF ParseRoute
    <3>2. path \in Seq(Words)
      <4>1. 3 \in Int /\ Len(segs) \in Int /\ \A i \in 3..Len(segs) : segs[i] \in Words
        <5> HIDE DEF segs
        <5> QED BY <1>0, <2>1
      <4> HIDE DEF segs
      <4> QED BY <4>1, SubSeqProperties
    <3>3. segs[2] \in Sources
      BY <2>3, Configuration DEF InWorkspace
    <3> QED BY <1>0, <3>1, <3>2, <3>3, RoutableBelow
  <2>4. CASE WorkspaceSetMode /\ ~InWorkspace(segs)
    <3>1. r = o
      BY <1>6, <2>4 DEF ParseRoute
    <3> HIDE DEF o, r
    <3>2. Routable(o)
      BY <1>1, <2>4 DEF Routable
    <3> QED BY <3>1, <3>2 DEF r
  <2> QED BY <2>2, <2>3, <2>4
<1> QED BY <1>4, <1>5, <1>6

-----------------------------------------------------------------------------
(***************************************************************************)
(* An address that is written of a route is read as that route.            *)
(***************************************************************************)
Following(follow) == IF follow THEN "1" ELSE None

LEMMA FollowingRead ==
  ASSUME NEW r, r.follow \in BOOLEAN, NEW s, s.follow = (Following(r.follow) = "1")
  PROVE  s.follow = r.follow
<1>1. None # "1"
  BY Tokens
<1>2. CASE r.follow = TRUE
  BY <1>1, <1>2 DEF Following
<1>3. CASE r.follow = FALSE
  BY <1>1, <1>3 DEF Following
<1> QED BY <1>2, <1>3

\* Digits as an address can carry them.
Carried(n, least) == IF n = Unsafe THEN least ELSE n

LEMMA Numbers ==
  ASSUME NEW least \in Nat, NEW n, IsRead(n, least), NEW p,
         p = IF n \in Nat /\ n > least THEN n ELSE None
  PROVE  Digits(p, least) = Carried(n, least)
<1>0. \A k \in Nat : k # None /\ k # Unsafe
  <2>1. \A k \in Nat : k \in Int
    OBVIOUS
  <2> QED BY <2>1, Tokens
<1>1. Unsafe \notin Nat /\ None # Unsafe /\ None \notin Nat
  BY <1>0, Tokens
<1>2. CASE n = Unsafe
  BY <1>1, <1>2, NumbersRead DEF Carried
<1>3. CASE n # Unsafe
  <2>1. n \in Nat /\ n >= least
    BY <1>3 DEF IsRead
  <2>2. CASE n > least
    <3>1. p = n
      BY <2>1, <2>2
    <3> QED BY <1>3, <2>1, <2>2, <3>1 DEF Digits, Carried
  <2>3. CASE ~(n > least)
    <3>1. p = None /\ n = least
      BY <2>1, <2>3
    <3> QED BY <1>3, <3>1, NumbersRead DEF Carried
  <2> QED BY <2>2, <2>3
<1> QED BY <1>2, <1>3

Deep(r) == r.runId \notin {None, ""}

\* The query of an address gives back what was written into it.
LEMMA Requery ==
  ASSUME NEW r, Kept(r), NEW m, NEW p, p = RouteParams(r, m), NEW o, o = NoRoute(p)
  PROVE  /\ p.q \in Queries /\ p.manual = m /\ p.attempt = FirstOf(r.attemptId, None)
         /\ o.filters = r.filters /\ o.sort = r.sort /\ o.q = r.q
         /\ Deep(r) =>
              /\ p.follow = Following(r.follow)
              /\ o.selectedCluster = r.selectedCluster /\ o.selectedArc = r.selectedArc
              /\ o.zoomStart = Carried(r.zoomStart, 0)
              /\ o.memberPage = Carried(r.memberPage, 1) /\ o.edgePage = Carried(r.edgePage, 1)
<1>1. p.manual = m /\ p.attempt = FirstOf(r.attemptId, None)
  BY DEF RouteParams
<1>2. p.q \in Queries /\ o.q = r.q
  <2>1. r.q \in Seq(Nat) /\ Truncated(r.q) = r.q
    BY DEF Kept
  <2>2. p.q = IF r.q \in {None, <<>>} THEN None ELSE Truncated(r.q)
    BY DEF RouteParams
  <2>3. o.q = IF p.q = None THEN <<>> ELSE Truncated(p.q)
    BY DEF NoRoute
  <2>4. r.q # None
    BY <2>1, Vocabulary
  <2>5. CASE r.q = <<>>
    BY <2>2, <2>3, <2>5 DEF Queries
  <2>6. CASE r.q # <<>>
    BY <2>1, <2>2, <2>3, <2>4, <2>6 DEF Queries
  <2> QED BY <2>5, <2>6
<1>3. o.filters = r.filters
  <2>1. p.filters = r.filters
    BY DEF RouteParams
  <2>2. o.filters = [name \in DOMAIN FilterVocabulary |->
                       IF p.filters[name] \in FilterVocabulary[name] THEN p.filters[name] ELSE None]
    BY DEF NoRoute
  <2> QED BY <2>1, <2>2 DEF Kept, Normal
<1>4. o.sort = r.sort
  <2>1. p.sort = IF r.sort \in SortVocabulary \ {DefaultSort} THEN r.sort ELSE None
    BY DEF RouteParams
  <2>2. o.sort = IF p.sort \in SortVocabulary THEN p.sort ELSE DefaultSort
    BY DEF NoRoute
  <2>3. r.sort \in SortVocabulary /\ None \notin SortVocabulary
    BY Tokens, Vocabulary DEF Kept
  <2> QED BY <2>1, <2>2, <2>3
<1>5. ASSUME Deep(r)
      PROVE  /\ p.follow = Following(r.follow)
             /\ o.selectedCluster = r.selectedCluster /\ o.selectedArc = r.selectedArc
             /\ o.zoomStart = Carried(r.zoomStart, 0)
             /\ o.memberPage = Carried(r.memberPage, 1) /\ o.edgePage = Carried(r.edgePage, 1)
  <2>1. /\ p.follow = (IF r.follow THEN "1" ELSE None)
        /\ p.cluster = FirstOf(r.selectedCluster, None) /\ p.arc = FirstOf(r.selectedArc, None)
        /\ p.zoom = (IF r.zoomStart \in Nat /\ r.zoomStart > 0 THEN r.zoomStart ELSE None)
        /\ p.members = (IF r.memberPage \in Nat /\ r.memberPage > 1 THEN r.memberPage ELSE None)
        /\ p.edges = (IF r.edgePage \in Nat /\ r.edgePage > 1 THEN r.edgePage ELSE None)
    BY <1>5 DEF RouteParams, Deep
  <2>2. /\ o.selectedCluster = FirstOf(p.cluster, None) /\ o.selectedArc = FirstOf(p.arc, None)
        /\ o.zoomStart = Digits(p.zoom, 0) /\ o.memberPage = Digits(p.members, 1)
        /\ o.edgePage = Digits(p.edges, 1)
    BY DEF NoRoute
  <2>3. p.follow = Following(r.follow)
    BY <2>1 DEF Following
  <2>4. o.selectedCluster = r.selectedCluster /\ o.selectedArc = r.selectedArc
    <3>1. r.selectedCluster # "" /\ r.selectedArc # ""
      BY DEF Kept
    <3>2. \A x : x # "" => FirstOf(FirstOf(x, None), None) = x
      BY DEF FirstOf
    <3> QED BY <2>1, <2>2, <3>1, <3>2
  <2>5. /\ 0 \in Nat /\ 1 \in Nat /\ IsRead(r.zoomStart, 0) /\ IsRead(r.memberPage, 1)
        /\ IsRead(r.edgePage, 1)
    BY DEF Kept
  <2>6. o.zoomStart = Carried(r.zoomStart, 0)
    BY <2>1, <2>2, <2>5, Numbers
  <2>7. o.memberPage = Carried(r.memberPage, 1) /\ o.edgePage = Carried(r.edgePage, 1)
    BY <2>1, <2>2, <2>5, Numbers
  <2> QED BY <2>3, <2>4, <2>6, <2>7
<1> QED BY <1>1, <1>2, <1>3, <1>4, <1>5

\* A route that shows what another does, its pane apart.
Alike(t, r) ==
    /\ t.view = r.view /\ t.workspace = r.workspace /\ t.runId = r.runId /\ t.unitId = r.unitId
    /\ r.view = "invalid" => t.invalidPath[2] = r.invalidPath[2]
    /\ r.view \in {"runs", "detail", "unit"} =>
         /\ t.filters = r.filters /\ t.sort = r.sort /\ t.q = r.q
         /\ FirstOf(t.attemptId, None) = FirstOf(r.attemptId, None)
    /\ r.view \in {"detail", "unit"} =>
         /\ t.follow = r.follow
         /\ t.selectedCluster = r.selectedCluster /\ t.selectedArc = r.selectedArc
         /\ t.zoomStart = Carried(r.zoomStart, 0)
         /\ t.memberPage = Carried(r.memberPage, 1) /\ t.edgePage = Carried(r.edgePage, 1)

LEMMA DetailWritten ==
  ASSUME NEW r, Routable(r)
  PROVE  /\ r.view = "runs" => DetailSegments(r) = <<>>
         /\ r.view = "detail" => DetailSegments(r) = <<r.runId>>
         /\ r.view = "unit" => DetailSegments(r) = <<r.runId, "units", r.unitId>>
<1>1. FirstOf(None, None) = None /\ \A id \in Words : FirstOf(id, None) = id
  BY WordsLink DEF FirstOf
<1>2. \A id \in Words : ~(id # None /\ EncodableComponent(id) = None) /\ id # None
  BY WordsLink DEF EncodableComponent
<1>3. CASE r.view = "runs"
  <2>1. r.runId = None /\ r.unitId = None
    BY <1>3 DEF Routable
  <2>2. DetailSegments(r) = <<>> \o <<>>
    BY <1>1, <2>1 DEF DetailSegments
  <2> QED BY <1>3, <2>2, JoinNothing
<1>4. CASE r.view = "detail"
  <2>1. r.runId \in Words /\ r.unitId = None
    BY <1>4 DEF Routable
  <2>2. DetailSegments(r) = <<r.runId>> \o <<>>
    BY <1>1, <1>2, <2>1 DEF DetailSegments
  <2> QED BY <1>4, <2>2, JoinNothing
<1>5. CASE r.view = "unit"
  <2>1. r.runId \in Words /\ r.unitId \in Words
    BY <1>5 DEF Routable
  <2>2. DetailSegments(r) = <<r.runId>> \o <<"units", r.unitId>>
    BY <1>1, <1>2, <2>1 DEF DetailSegments
  <2> QED BY <1>5, <2>2, JoinPair
<1> QED BY <1>3, <1>4, <1>5

LEMMA WrittenAlike ==
  ASSUME NEW r, Routable(r), NEW t, Alike(t, r), NEW m
  PROVE  Written(t, m) = Written(r, m)
<1>1. CASE r.view = "invalid"
  BY <1>1 DEF Alike, Written
<1>2. CASE r.view = "workspaces"
  BY <1>2 DEF Alike, Written, Routable
<1>3. CASE r.view \in {"runs", "detail", "unit"}
  <2>1. DetailSegments(t) = DetailSegments(r) /\ t.workspace = r.workspace /\ t.view = r.view
    BY DEF DetailSegments, Alike
  <2>2. RouteParams(t, m) = RouteParams(r, m)
    <3>1. /\ t.runId = r.runId /\ t.filters = r.filters /\ t.sort = r.sort /\ t.q = r.q
          /\ FirstOf(t.attemptId, None) = FirstOf(r.attemptId, None)
      BY <1>3 DEF Alike
    <3>2. CASE r.view = "runs"
      <4>1. r.runId = None
        BY <3>2 DEF Routable
      <4> QED BY ONLY <3>1, <4>1 DEF RouteParams
    <3>3. CASE r.view \in {"detail", "unit"}
      <4>1. /\ t.follow = r.follow /\ t.selectedCluster = r.selectedCluster
            /\ t.selectedArc = r.selectedArc
        BY <3>3 DEF Alike
      <4>2. \A n, least : least \in Nat /\ IsRead(n, least) =>
              (Carried(n, least) \in Nat /\ Carried(n, least) > least)
                = (n \in Nat /\ n > least)
        <5>1. Unsafe \notin Nat
          <6>1. \A k \in Nat : k \in Int
            OBVIOUS
          <6> QED BY <6>1, Tokens
        <5> QED BY <5>1 DEF IsRead, Carried
      <4>3. \A n, least : least \in Nat /\ IsRead(n, least) =>
              (IF Carried(n, least) \in Nat /\ Carried(n, least) > least
               THEN Carried(n, least) ELSE None)
                = IF n \in Nat /\ n > least THEN n ELSE None
        BY <4>2 DEF Carried
      <4>4. /\ 0 \in Nat /\ 1 \in Nat /\ IsRead(r.zoomStart, 0) /\ IsRead(r.memberPage, 1)
            /\ IsRead(r.edgePage, 1)
        BY DEF Routable, Kept
      <4>5. /\ t.zoomStart = Carried(r.zoomStart, 0)
            /\ t.memberPage = Carried(r.memberPage, 1) /\ t.edgePage = Carried(r.edgePage, 1)
        BY <3>3 DEF Alike
      <4>6. /\ (IF t.zoomStart \in Nat /\ t.zoomStart > 0 THEN t.zoomStart ELSE None)
                 = IF r.zoomStart \in Nat /\ r.zoomStart > 0 THEN r.zoomStart ELSE None
            /\ (IF t.memberPage \in Nat /\ t.memberPage > 1 THEN t.memberPage ELSE None)
                 = IF r.memberPage \in Nat /\ r.memberPage > 1 THEN r.memberPage ELSE None
            /\ (IF t.edgePage \in Nat /\ t.edgePage > 1 THEN t.edgePage ELSE None)
                 = IF r.edgePage \in Nat /\ r.edgePage > 1 THEN r.edgePage ELSE None
        BY <4>3, <4>4, <4>5
      <4>7. r.runId \notin {None, ""}
        BY <3>3, WordsLink DEF Routable
      <4> DEFINE above(q, value, default) ==
                   IF q.runId \notin {None, ""} /\ value \in Nat /\ value > default THEN value ELSE None
      <4>8. /\ above(t, t.zoomStart, 0) = above(r, r.zoomStart, 0)
            /\ above(t, t.memberPage, 1) = above(r, r.memberPage, 1)
            /\ above(t, t.edgePage, 1) = above(r, r.edgePage, 1)
        BY <3>1, <4>6, <4>7
      <4> QED BY ONLY <3>1, <4>1, <4>8 DEF RouteParams
    <3> QED BY <1>3, <3>2, <3>3
  <2> QED BY <1>3, <2>1, <2>2 DEF Written
<1> QED BY <1>1, <1>2, <1>3 DEF Routable

LEMMA Rereads ==
  ASSUME NEW r, Routable(r), NEW m, IsPane(m)
  PROVE  LET t == ParseRoute(Written(r, m)) IN Routable(t) /\ t.manual = m /\ Alike(t, r)
<1> DEFINE h == Written(r, m)
           t == ParseRoute(h)
           p == RouteParams(r, m)
<1>0. ManualField(m) = m
  BY DEF IsPane
<1>1. CASE r.view = "invalid"
  <2> DEFINE segs == r.invalidPath[2]
  <2>1. segs \in Seq(Segment) /\ segs # <<>> /\ segs[1] # "manual"
        /\ \E i \in 1..Len(segs) : segs[i] = Undecodable
    BY <1>1 DEF Routable, InvalidPath
  <2>2. h.lead = 1 /\ h.segs = segs /\ h.params = PaneOnly(m)
    BY <1>1 DEF Written
  <2>3. h.params.q = None /\ h.params.manual = m
    BY <2>2 DEF PaneOnly, NoParams
  <2> HIDE DEF h, segs
  <2>4. Typed(h)
    BY <2>1, <2>2, <2>3 DEF Typed, Queries
  <2>5. t = [NoRoute(h.params) EXCEPT !.view = "invalid", !.invalidPath = <<h.lead, h.segs>>]
    BY <2>1, <2>2 DEF ParseRoute
  <2> DEFINE o == NoRoute(h.params)
  <2>6. /\ Kept(o) /\ o.workspace = None /\ o.runId = None /\ o.unitId = None
        /\ o.manual = ManualField(h.params.manual)
    BY <2>3, Fresh DEF Queries
  <2>7. t.view = "invalid" /\ t.workspace = o.workspace /\ t.runId = o.runId
        /\ t.unitId = o.unitId /\ t.manual = o.manual /\ t.invalidPath = <<h.lead, h.segs>>
    <3> HIDE DEF o, t
    <3>1. DOMAIN o = Fields
      BY <2>6 DEF Kept
    <3>2. t = [o EXCEPT !.view = "invalid", !.invalidPath = <<h.lead, h.segs>>]
      BY <2>5 DEF o
    <3> QED BY <3>1, <3>2 DEF Fields
  <2>8. Routable(t)
    BY <2>4, ParseRoutable
  <2> HIDE DEF o, t
  <2>9. r.workspace = None /\ r.runId = None /\ r.unitId = None
    BY <1>1 DEF Routable
  <2>10. t.invalidPath[2] = segs
    BY <2>2, <2>7
  <2>11. Alike(t, r)
    BY <1>1, <2>6, <2>7, <2>9, <2>10 DEF Alike, segs
  <2>12. t.manual = m
    BY <1>0, <2>3, <2>6, <2>7
  <2> QED BY <2>8, <2>11, <2>12 DEF t, h
<1>2. CASE r.view = "workspaces"
  <2>0. WorkspaceSetMode /\ r.workspace = None /\ r.runId = None /\ r.unitId = None
    BY <1>2 DEF Routable
  <2>1. h.lead = 1 /\ h.segs = <<"workspaces">> /\ h.params = PaneOnly(m)
    BY <1>2, <2>0 DEF Written
  <2>2. h.params.q = None /\ h.params.manual = m
    BY <2>1 DEF PaneOnly, NoParams
  <2> HIDE DEF h
  <2>3. Len(h.segs) = 1 /\ h.segs[1] = "workspaces"
    BY <2>1
  <2>4. \A i \in 1..Len(h.segs) : h.segs[i] # Undecodable
    <3>1. \A i \in 1..Len(h.segs) : i = 1
      BY <2>3
    <3> QED BY <2>3, <3>1, Tokens
  <2>5. t = NoRoute(h.params)
    <3>1. ~InWorkspace(h.segs)
      BY <2>3 DEF InWorkspace
    <3> QED BY <2>0, <2>3, <2>4, <3>1 DEF ParseRoute
  <2> DEFINE o == NoRoute(h.params)
  <2>6. /\ Kept(o) /\ o.workspace = None /\ o.runId = None /\ o.unitId = None
        /\ o.attemptId = None /\ o.follow \in BOOLEAN /\ o.view = "workspaces"
        /\ o.manual = ManualField(h.params.manual)
    BY <2>0, <2>2, Fresh DEF Queries
  <2> HIDE DEF o, t
  <2>7. Routable(o)
    BY <2>0, <2>6 DEF Routable
  <2>8. Alike(o, r) /\ o.manual = m
    BY <1>0, <1>2, <2>0, <2>2, <2>6 DEF Alike
  <2>9. t = o
    BY <2>5 DEF o
  <2> QED BY <2>7, <2>8, <2>9 DEF t, h
<1>3. CASE r.view = "runs"
  <2>1. h = [lead |-> 1, segs |-> Base(r.workspace), params |-> p]
    BY <1>3, DetailWritten, JoinNothing DEF Written
  <2>2. r.workspace \in Sources /\ r.runId = None /\ r.unitId = None /\ Kept(r)
    BY <1>3 DEF Routable
  <2>3. t = ListAt(p, r.workspace)
    <3>1. h.segs = Base(r.workspace) /\ h.params = p
      BY <2>1
    <3> HIDE DEF h, p
    <3> QED BY <2>2, <3>1, Lists
  <2>4. /\ p.q \in Queries /\ p.manual = m /\ p.attempt = FirstOf(r.attemptId, None)
        /\ NoRoute(p).filters = r.filters /\ NoRoute(p).sort = r.sort /\ NoRoute(p).q = r.q
    <3>1. p = RouteParams(r, m)
      OBVIOUS
    <3>2. Kept(r)
      BY <2>2 DEF Deep
    <3> HIDE DEF p
    <3> QED BY ONLY <3>1, <3>2, Requery
  <2> DEFINE s == ListAt(p, r.workspace)
  <2>5. /\ SameQuery(s, NoRoute(p)) /\ s.view = "runs" /\ s.workspace = r.workspace
        /\ s.runId = None /\ s.unitId = None /\ s.attemptId = None
        /\ s.manual = ManualField(p.manual) /\ Routable(s)
    <3> HIDE DEF p
    <3>1. Routable(s)
      BY <2>2, <2>4, RoutableList
    <3>2. p.q \in Queries
      BY <2>4
    <3>3. s = ListAt(p, r.workspace)
      OBVIOUS
    <3> HIDE DEF s
    <3> QED BY ONLY <3>1, <3>2, <3>3, AtList
  <2>6. r.attemptId = None
    BY <1>3 DEF Routable
  <2> HIDE DEF s, p, t
  <2>7. Alike(s, r) /\ s.manual = m
    BY <1>0, <1>3, <2>2, <2>4, <2>5, <2>6 DEF Alike, SameQuery
  <2>8. t = s
    BY <2>3 DEF s
  <2> QED BY <2>5, <2>7, <2>8 DEF t
<1>4. CASE r.view = "detail"
  <2>1. h = [lead |-> 1, segs |-> Base(r.workspace) \o <<r.runId>>, params |-> p]
    BY <1>4, DetailWritten DEF Written
  <2>2. r.workspace \in Sources /\ r.runId \in Words /\ r.unitId = None /\ r.attemptId = None
        /\ Kept(r) /\ r.runId \notin {None, "", Undecodable}
    BY <1>4, WordsLink DEF Routable
  <2>3. t = RunAt(p, r.workspace, r.runId)
    <3> DEFINE w == r.workspace
               run == r.runId
    <3>1. w \in Sources /\ run # Undecodable
      BY <2>2 DEF w, run
    <3> HIDE DEF w, run, p
    <3>2. h.segs = Base(w) \o <<run>> /\ h.params = p
      BY <2>1 DEF w, run
    <3> HIDE DEF h
    <3>3. t = RunAt(p, w, run)
      BY <3>1, <3>2, Runs
    <3> QED BY <3>3 DEF w, run
  <2>4. /\ p.q \in Queries /\ p.manual = m /\ p.attempt = FirstOf(r.attemptId, None)
        /\ NoRoute(p).filters = r.filters /\ NoRoute(p).sort = r.sort /\ NoRoute(p).q = r.q
        /\ p.follow = Following(r.follow)
        /\ NoRoute(p).selectedCluster = r.selectedCluster
        /\ NoRoute(p).selectedArc = r.selectedArc
        /\ NoRoute(p).zoomStart = Carried(r.zoomStart, 0)
        /\ NoRoute(p).memberPage = Carried(r.memberPage, 1)
        /\ NoRoute(p).edgePage = Carried(r.edgePage, 1)
    <3>1. p = RouteParams(r, m)
      OBVIOUS
    <3>2. Kept(r) /\ Deep(r)
      BY <2>2 DEF Deep
    <3> HIDE DEF p
    <3> QED BY ONLY <3>1, <3>2, Requery
  <2> DEFINE s == RunAt(p, r.workspace, r.runId)
  <2>5. /\ SameQuery(s, NoRoute(p)) /\ s.view = "detail" /\ s.workspace = r.workspace
        /\ s.runId = r.runId /\ s.unitId = None /\ s.attemptId = None
        /\ s.follow = (p.follow = "1") /\ s.manual = ManualField(p.manual) /\ Routable(s)
    <3> HIDE DEF p
    <3>1. Routable(s)
      BY <2>2, <2>4, RoutableRun
    <3>2. p.q \in Queries
      BY <2>4
    <3> QED BY ONLY <3>1, <3>2, AtRun
  <2> HIDE DEF s, p, t
  <2>7. Alike(s, r) /\ s.manual = m
    <3>1. r.follow \in BOOLEAN
      BY <2>2 DEF Kept
    <3>2. s.follow = r.follow
      BY <2>4, <2>5, <3>1, FollowingRead
    <3> QED BY <1>0, <1>4, <2>2, <2>4, <2>5, <3>2 DEF Alike, SameQuery
  <2>8. t = s
    BY <2>3 DEF s
  <2> QED BY <2>5, <2>7, <2>8 DEF t
<1>5. CASE r.view = "unit"
  <2>1. h = [lead |-> 1, segs |-> Base(r.workspace) \o <<r.runId, "units", r.unitId>>, params |-> p]
    BY <1>5, DetailWritten DEF Written
  <2>2. r.workspace \in Sources /\ r.runId \in Words /\ r.unitId \in Words /\ Kept(r)
        /\ r.runId \notin {None, "", Undecodable} /\ r.unitId # Undecodable
    BY <1>5, WordsLink DEF Routable
  <2>3. t = UnitAt(p, r.workspace, r.runId, r.unitId)
    <3> DEFINE w == r.workspace
               run == r.runId
               unit == r.unitId
    <3>1. w \in Sources /\ run # Undecodable /\ unit # Undecodable
      BY <2>2 DEF w, run, unit
    <3> HIDE DEF w, run, unit, p
    <3>2. h.segs = Base(w) \o <<run, "units", unit>> /\ h.params = p
      BY <2>1 DEF w, run, unit
    <3> HIDE DEF h
    <3>3. t = UnitAt(p, w, run, unit)
      BY <3>1, <3>2, Units
    <3> QED BY <3>3 DEF w, run, unit
  <2>4. /\ p.q \in Queries /\ p.manual = m /\ p.attempt = FirstOf(r.attemptId, None)
        /\ NoRoute(p).filters = r.filters /\ NoRoute(p).sort = r.sort /\ NoRoute(p).q = r.q
        /\ p.follow = Following(r.follow)
        /\ NoRoute(p).selectedCluster = r.selectedCluster
        /\ NoRoute(p).selectedArc = r.selectedArc
        /\ NoRoute(p).zoomStart = Carried(r.zoomStart, 0)
        /\ NoRoute(p).memberPage = Carried(r.memberPage, 1)
        /\ NoRoute(p).edgePage = Carried(r.edgePage, 1)
    <3>1. p = RouteParams(r, m)
      OBVIOUS
    <3>2. Kept(r) /\ Deep(r)
      BY <2>2 DEF Deep
    <3> HIDE DEF p
    <3> QED BY ONLY <3>1, <3>2, Requery
  <2> DEFINE s == UnitAt(p, r.workspace, r.runId, r.unitId)
  <2>5. /\ SameQuery(s, NoRoute(p)) /\ s.view = "unit" /\ s.workspace = r.workspace
        /\ s.runId = r.runId /\ s.unitId = r.unitId /\ s.attemptId = p.attempt
        /\ s.follow = (p.follow = "1") /\ s.manual = ManualField(p.manual) /\ Routable(s)
    <3> HIDE DEF p
    <3>1. Routable(s)
      BY <2>2, <2>4, RoutableUnit
    <3>2. p.q \in Queries
      BY <2>4
    <3> QED BY ONLY <3>1, <3>2, AtUnit
  <2>6. FirstOf(s.attemptId, None) = FirstOf(r.attemptId, None)
    BY <2>4, <2>5 DEF FirstOf
  <2> HIDE DEF s, p, t
  <2>7. Alike(s, r) /\ s.manual = m
    <3>1. r.follow \in BOOLEAN
      BY <2>2 DEF Kept
    <3>2. s.follow = r.follow
      BY <2>4, <2>5, <3>1, FollowingRead
    <3> QED BY <1>0, <1>5, <2>2, <2>4, <2>5, <2>6, <3>2 DEF Alike, SameQuery
  <2>8. t = s
    BY <2>3 DEF s
  <2> QED BY <2>5, <2>7, <2>8 DEF t
<1> QED BY <1>1, <1>2, <1>3, <1>4, <1>5 DEF Routable

\* Where the operator is, the numbers read as an address carries them.
LEMMA SamePlace ==
  ASSUME NEW r, Routable(r), NEW t, DOMAIN t = Fields, Alike(t, r), r.view \in {"detail", "unit"}
  PROVE  Place(t) = Place(r)
<1> DEFINE read(s, name) ==
             CASE name = "zoomStart" /\ s[name] = Unsafe -> 0
               [] name \in {"memberPage", "edgePage"} /\ s[name] = Unsafe -> 1
               [] name = "attemptId" -> FirstOf(s[name], None)
               [] OTHER -> s[name]
           Shown == Fields \ {"manual", "invalidPath"}
<1>0. 0 # Unsafe /\ 1 # Unsafe
  <2>1. 0 \in Int /\ 1 \in Int
    OBVIOUS
  <2> QED BY ONLY <2>1, Tokens
<1>1. /\ t.view = r.view /\ t.workspace = r.workspace /\ t.runId = r.runId /\ t.unitId = r.unitId
      /\ t.filters = r.filters /\ t.sort = r.sort /\ t.q = r.q
      /\ FirstOf(t.attemptId, None) = FirstOf(r.attemptId, None)
      /\ t.follow = r.follow
      /\ t.selectedCluster = r.selectedCluster /\ t.selectedArc = r.selectedArc
      /\ t.zoomStart = Carried(r.zoomStart, 0)
      /\ t.memberPage = Carried(r.memberPage, 1) /\ t.edgePage = Carried(r.edgePage, 1)
  BY DEF Alike
<1>2. \A name \in {"view", "workspace", "runId", "unitId", "filters", "sort", "q", "follow",
                   "selectedCluster", "selectedArc"} : read(t, name) = read(r, name)
  BY <1>1
<1>3. read(t, "attemptId") = read(r, "attemptId")
  BY <1>1
<1>4. read(t, "zoomStart") = read(r, "zoomStart")
  BY <1>0, <1>1 DEF Carried
<1>5. read(t, "memberPage") = read(r, "memberPage") /\ read(t, "edgePage") = read(r, "edgePage")
  BY <1>0, <1>1 DEF Carried
<1>6. \A name \in Shown :
        name \in {"view", "workspace", "runId", "unitId", "filters", "sort", "q", "follow",
                  "selectedCluster", "selectedArc"}
          \/ name \in {"attemptId", "zoomStart", "memberPage", "edgePage"}
  BY DEF Fields
<1>7. Place(t) = [name \in Shown |-> read(t, name)]
  BY DEF Place
<1>8. Place(r) = [name \in Shown |-> read(r, name)]
  BY DEF Place, Routable, Kept
<1> HIDE DEF read, Shown
<1>9. \A name \in Shown : read(t, name) = read(r, name)
  BY <1>2, <1>3, <1>4, <1>5, <1>6
<1> QED BY <1>7, <1>8, <1>9

(* For every address that can be typed and every link into the manual: the *)
(* pane opens over the route, moves and closes without moving it           *)
(* (parseRoute, routeHash, manualRoute, underlyingKey).                    *)
THEOREM PaneIsOverlayCorrect ==
  ASSUME NEW hash, Typed(hash), NEW slug
  PROVE  PaneIsOverlay(hash, slug)
<1> DEFINE m == ManualField(slug)
           route == ParseRoute(hash)
           opened == ManualRoute(route, slug, hash)
           there == ParseRoute(opened)
           closed == ManualRoute(there, None, opened)
           after == ParseRoute(closed)
           canonical == RouteHash(route, hash)
           again == ParseRoute(canonical)
<1>0. IsPane(m) /\ ManualField(None) = None /\ IsPane(None)
  <2>1. ManualField(None) = None
    BY DEF ManualField
  <2>2. None # Omitted
    BY Tokens
  <2> QED BY <2>1, <2>2, Panes DEF IsPane
<1>1. Routable(route) /\ IsPane(route.manual) /\ DOMAIN route = Fields
  <2>1. Routable(route)
    BY ParseRoutable
  <2> HIDE DEF route
  <2> QED BY <2>1 DEF Routable, Kept
<1>2. opened = Written(route, m)
  <2>1. opened = RouteHash([route EXCEPT !.manual = m], hash)
    BY DEF ManualRoute
  <2> HIDE DEF opened, route, m
  <2> QED BY <1>0, <1>1, <2>1, UnderPane, Writes
<1>3. Routable(there) /\ there.manual = m /\ Alike(there, route) /\ DOMAIN there = Fields
  <2> HIDE DEF route, m, opened
  <2>1. Routable(there) /\ there.manual = m /\ Alike(there, route)
    BY <1>0, <1>1, <1>2, Rereads
  <2> HIDE DEF there
  <2> QED BY <2>1 DEF Routable, Kept
<1>4. closed = Written(route, None)
  <2>1. closed = RouteHash([there EXCEPT !.manual = None], opened)
    BY <1>0 DEF ManualRoute
  <2> HIDE DEF closed, opened, there, route, m
  <2>2. closed = Written(there, None)
    BY <1>0, <1>3, <2>1, UnderPane, Writes
  <2> QED BY <1>1, <1>3, <2>2, WrittenAlike
<1>5. Routable(after) /\ after.manual = None /\ Alike(after, route) /\ DOMAIN after = Fields
  <2> HIDE DEF closed, opened, there, route, m
  <2>1. Routable(after) /\ after.manual = None /\ Alike(after, route)
    BY <1>0, <1>1, <1>4, Rereads
  <2> HIDE DEF after
  <2> QED BY <2>1 DEF Routable, Kept
<1>6. ASSUME NEW r, Routable(r), DOMAIN r = Fields, Alike(r, route), NEW current
      PROVE  UnderlyingKey(r, current) = <<route.view, Written(route, None)>>
  <2> HIDE DEF route
  <2>1. RouteHash([r EXCEPT !.manual = None], current) = Written(r, None)
    BY <1>0, <1>6, UnderPane, Writes
  <2>2. Written(r, None) = Written(route, None)
    BY <1>1, <1>6, WrittenAlike
  <2>3. r.view = route.view
    BY <1>6 DEF Alike
  <2> QED BY <2>1, <2>2, <2>3 DEF UnderlyingKey
<1>7. UnderlyingKey(route, hash) = <<route.view, Written(route, None)>>
  <2> HIDE DEF route
  <2>1. RouteHash([route EXCEPT !.manual = None], hash) = Written(route, None)
    BY <1>0, <1>1, UnderPane, Writes
  <2> QED BY <2>1 DEF UnderlyingKey
<1>8. canonical = Written(route, route.manual)
  <2>1. canonical = RouteHash(route, hash)
    OBVIOUS
  <2> HIDE DEF route, canonical
  <2> QED BY <1>1, <2>1, UnderPane, Writes
<1>9. Routable(again) /\ again.manual = route.manual /\ Alike(again, route) /\ DOMAIN again = Fields
  <2> HIDE DEF route, canonical
  <2>1. Routable(again) /\ again.manual = route.manual /\ Alike(again, route)
    BY <1>1, <1>8, Rereads
  <2> HIDE DEF again
  <2> QED BY <2>1 DEF Routable, Kept
<1>10. RouteHash(again, canonical) = canonical
  <2> HIDE DEF route, canonical, again
  <2>1. RouteHash(again, canonical) = Written(again, again.manual)
    BY <1>1, <1>9, UnderPane, Writes
  <2>2. Written(again, again.manual) = Written(route, route.manual)
    BY <1>1, <1>9, WrittenAlike
  <2> QED BY <1>8, <2>1, <2>2
<1> HIDE DEF m, route, opened, there, closed, after, canonical, again
<1>11. UnderlyingKey(there, opened) = UnderlyingKey(route, hash)
       /\ UnderlyingKey(after, closed) = UnderlyingKey(route, hash)
  BY <1>3, <1>5, <1>6, <1>7
<1>12. IF route.runId # None THEN Place(there) = Place(route)
       ELSE PlaceOnly(there) = PlaceOnly(route)
  <2>1. route.runId # None => route.view \in {"detail", "unit"}
    BY <1>1 DEF Routable
  <2>2. route.runId # None => Place(there) = Place(route)
    BY <1>1, <1>3, <2>1, SamePlace
  <2>3. PlaceOnly(there) = PlaceOnly(route)
    BY <1>3 DEF Alike, PlaceOnly
  <2> QED BY <2>2, <2>3
<1>13. /\ route.view = "runs" => there.filters = route.filters /\ there.q = route.q
       /\ route.view = "invalid" => there.invalidPath[2] = route.invalidPath[2]
  BY <1>3 DEF Alike
<1>14. /\ there.manual = m /\ after.manual = None /\ again.manual = route.manual
  BY <1>3, <1>5, <1>9
<1> QED BY <1>10, <1>11, <1>12, <1>13, <1>14
        DEF PaneIsOverlay, m, route, opened, there, closed, after, canonical, again

\* What the client renders a link from: a list, a run or a unit of a run, each id
\* a word or one that no address can carry.
Ids == Words \cup {None, Unlinkable}
Rendered(literal) ==
    /\ literal.view \notin {"invalid", "workspaces"}
    /\ literal.runId \in Ids /\ literal.unitId \in Ids
    /\ literal.runId = None => literal.unitId = None
    /\ WorkspaceSetMode => literal.workspace \in Sources \cup {None}
    /\ Normal(literal.filters) /\ literal.sort \in SortVocabulary \cup {None}
    /\ literal.q \in Queries /\ literal.follow \in BOOLEAN

\* The workspace of a link: its own, the one the operator is in, or the first.
LEMMA LinkSource ==
  ASSUME NEW literal, Rendered(literal), NEW current, Typed(current)
  PROVE  LET w == IF ~WorkspaceSetMode THEN None
                  ELSE FirstOf(literal.workspace,
                               FirstOf(ParseRoute(current).workspace, Workspaces[1]))
         IN  w \in Sources /\ WorkspacePath(literal, current) = Base(w)
<1> DEFINE here == ParseRoute(current).workspace
           w == IF ~WorkspaceSetMode THEN None ELSE FirstOf(literal.workspace, FirstOf(here, Workspaces[1]))
<1>1. CASE ~WorkspaceSetMode
  BY <1>1, Configuration DEF WorkspacePath, Base
<1>2. CASE WorkspaceSetMode
  <2>1. here \in Sources \cup {None}
    <3>1. Routable(ParseRoute(current))
      BY ParseRoutable
    <3> QED BY <3>1 DEF Routable
  <2>2. \A a \in Sources \cup {None} : \A b \in Sources : FirstOf(a, b) \in Sources
    BY DEF FirstOf
  <2>3. literal.workspace \in Sources \cup {None} /\ Workspaces[1] \in Sources
    BY <1>2, Configuration DEF Rendered
  <2> HIDE DEF here
  <2>4. w \in Sources
    BY <1>2, <2>1, <2>2, <2>3
  <2>5. WorkspacePath(literal, current) = Base(w)
    BY <1>2 DEF WorkspacePath, Base, here
  <2> QED BY <2>4, <2>5 DEF here
<1> QED BY <1>1, <1>2

\* The query of a link is read as it was written.
LEMMA LinkQuery ==
  ASSUME NEW literal, Rendered(literal), NEW m, NEW p, p = RouteParams(literal, m)
  PROVE  /\ p.q \in Queries /\ p.manual = m
         /\ NoRoute(p).filters = literal.filters
         /\ NoRoute(p).sort = FirstOf(literal.sort, DefaultSort)
         /\ Deep(literal) => p.follow = Following(literal.follow)
<1>1. p.manual = m /\ (Deep(literal) => p.follow = Following(literal.follow))
  BY DEF RouteParams, Deep, Following
<1>2. p.q \in Queries
  <2>1. p.q = IF literal.q \in {None, <<>>} THEN None ELSE Truncated(literal.q)
    BY DEF RouteParams
  <2>2. literal.q \in Seq(Nat) \cup {None}
    BY DEF Rendered, Queries
  <2> QED BY <2>1, <2>2, Truncates DEF Queries
<1>3. NoRoute(p).filters = literal.filters
  <2>1. p.filters = literal.filters
    BY DEF RouteParams
  <2>2. NoRoute(p).filters = [name \in DOMAIN FilterVocabulary |->
                                IF p.filters[name] \in FilterVocabulary[name]
                                THEN p.filters[name] ELSE None]
    BY DEF NoRoute
  <2> QED BY <2>1, <2>2 DEF Rendered, Normal
<1>4. NoRoute(p).sort = FirstOf(literal.sort, DefaultSort)
  <2>1. p.sort = IF literal.sort \in SortVocabulary \ {DefaultSort} THEN literal.sort ELSE None
    BY DEF RouteParams
  <2>2. NoRoute(p).sort = IF p.sort \in SortVocabulary THEN p.sort ELSE DefaultSort
    BY DEF NoRoute
  <2>3. literal.sort \in SortVocabulary \cup {None}
    BY DEF Rendered
  <2>4. "" \notin SortVocabulary /\ None \notin SortVocabulary /\ DefaultSort \in SortVocabulary
    BY Tokens, Vocabulary
  <2>5. CASE literal.sort = None
    BY <2>1, <2>2, <2>4, <2>5 DEF FirstOf
  <2>6. CASE literal.sort = DefaultSort
    BY <2>1, <2>2, <2>4, <2>6 DEF FirstOf
  <2>7. CASE literal.sort \in SortVocabulary \ {DefaultSort}
    BY <2>1, <2>2, <2>4, <2>7 DEF FirstOf
  <2> QED BY <2>3, <2>5, <2>6, <2>7
<1> QED BY <1>1, <1>2, <1>3, <1>4

LEMMA LinkDetail ==
  ASSUME NEW literal, Rendered(literal)
  PROVE  DetailSegments(literal) =
           IF Unlinkable \in {literal.runId, literal.unitId} \/ literal.runId = None THEN <<>>
           ELSE IF literal.unitId = None THEN <<literal.runId>>
           ELSE <<literal.runId, "units", literal.unitId>>
<1> DEFINE run == literal.runId
           unit == literal.unitId
           refused(id) == id # None /\ EncodableComponent(id) = None
<1>0. run \in Ids /\ unit \in Ids /\ (run = None => unit = None)
  BY DEF Rendered
<1>1. \A id \in Ids : FirstOf(id, None) = id /\ (refused(id) <=> id = Unlinkable)
  BY WordsLink, Tokens DEF Ids, FirstOf, EncodableComponent
<1>2. DetailSegments(literal) =
        IF run = Unlinkable \/ unit = Unlinkable THEN <<>>
        ELSE (IF run # None THEN <<run>> ELSE <<>>) \o (IF unit # None THEN <<"units", unit>> ELSE <<>>)
  BY <1>0, <1>1 DEF DetailSegments
<1>3. None # Unlinkable
  BY Tokens
<1> HIDE DEF run, unit
<1>4. CASE run = Unlinkable \/ unit = Unlinkable
  BY <1>2, <1>4 DEF run, unit
<1>5. CASE ~(run = Unlinkable \/ unit = Unlinkable) /\ run = None
  <2>1. DetailSegments(literal) = <<>> \o <<>>
    BY <1>0, <1>2, <1>5
  <2> QED BY <1>5, <2>1, JoinNothing DEF run, unit
<1>6. CASE ~(run = Unlinkable \/ unit = Unlinkable) /\ run # None /\ unit = None
  <2>1. DetailSegments(literal) = <<run>> \o <<>>
    BY <1>2, <1>6
  <2> QED BY <1>6, <2>1, JoinNothing DEF run, unit
<1>7. CASE ~(run = Unlinkable \/ unit = Unlinkable) /\ run # None /\ unit # None
  <2>1. DetailSegments(literal) = <<run>> \o <<"units", unit>>
    BY <1>2, <1>7
  <2> QED BY <1>7, <2>1, JoinPair DEF run, unit
<1> QED BY <1>4, <1>5, <1>6, <1>7

(* For every link the client renders, followed from every address that can *)
(* be typed: it leads to its run and its unit in its workspace, or, when   *)
(* an id cannot be part of an address, to the list (routeHash,             *)
(* detailSegments, parseRoute).                                            *)
THEOREM LinkReachesItsRunCorrect ==
  ASSUME NEW literal, Rendered(literal), NEW current, Typed(current)
  PROVE  LinkReachesItsRun(literal, current)
<1> DEFINE h == RouteHash(literal, current)
           there == ParseRoute(h)
           linkable == Unlinkable \notin {literal.runId, literal.unitId}
           w == IF ~WorkspaceSetMode THEN None
                ELSE FirstOf(literal.workspace, FirstOf(ParseRoute(current).workspace, Workspaces[1]))
           m == RouteManualField(literal, current)
           p == RouteParams(literal, m)
           run == literal.runId
           unit == literal.unitId
           pane == IF literal.manual = Omitted THEN ParseRoute(current).manual
                   ELSE ManualField(literal.manual)
<1>1. w \in Sources /\ WorkspacePath(literal, current) = Base(w)
  BY LinkSource
<1>2. /\ p.q \in Queries /\ p.manual = m /\ NoRoute(p).filters = literal.filters
      /\ NoRoute(p).sort = FirstOf(literal.sort, DefaultSort)
      /\ Deep(literal) => p.follow = Following(literal.follow)
  <2>1. p = RouteParams(literal, m)
    OBVIOUS
  <2> HIDE DEF p, m
  <2> QED BY <2>1, LinkQuery
<1>3. m = pane /\ IsPane(pane)
  <2>1. Routable(ParseRoute(current))
    BY ParseRoutable
  <2>2. IsPane(ParseRoute(current).manual)
    BY <2>1 DEF Routable, Kept
  <2>3. IsPane(ManualField(literal.manual))
    BY Panes DEF IsPane
  <2> QED BY <2>2, <2>3 DEF RouteManualField
<1>4. ManualField(p.manual) = pane
  <2> HIDE DEF p, m, pane
  <2> QED BY <1>2, <1>3 DEF IsPane
<1>5. h.segs = Base(w) \o DetailSegments(literal) /\ h.params = p
  <2>1. literal.view # "invalid" /\ literal.view # "workspaces"
    BY DEF Rendered
  <2>2. h = [lead |-> 1, segs |-> WorkspacePath(literal, current) \o DetailSegments(literal),
             params |-> p]
    BY <2>1 DEF RouteHash
  <2> HIDE DEF h, p, w
  <2> QED BY <1>1, <2>2
<1>6. run \in Ids /\ unit \in Ids /\ (run = None => unit = None) /\ literal.follow \in BOOLEAN
  BY DEF Rendered
<1>7. ~WorkspaceSetMode => w = None
  OBVIOUS
<1> HIDE DEF w, m, p, pane
<1>8. CASE ~linkable \/ run = None
  <2>1. h.segs = Base(w)
    BY <1>5, <1>8, LinkDetail, JoinNothing
  <2>2. there = ListAt(p, w)
    <3> HIDE DEF h
    <3> QED BY <1>1, <1>5, <2>1, Lists
  <2> HIDE DEF there
  <2>3. /\ SameQuery(there, NoRoute(p)) /\ there.view = "runs" /\ there.workspace = w
        /\ there.runId = None /\ there.unitId = None /\ there.manual = ManualField(p.manual)
    BY <1>2, <2>2, AtList
  <2>4. there.runId = (IF linkable THEN run ELSE None) /\ there.unitId = IF linkable THEN unit ELSE None
    BY <1>6, <1>8, <2>3
  <2>5. there.filters = literal.filters /\ there.sort = FirstOf(literal.sort, DefaultSort)
    BY <1>2, <2>3 DEF SameQuery
  <2> QED BY <1>4, <2>3, <2>4, <2>5 DEF LinkReachesItsRun, there, w, pane
<1>9. CASE linkable /\ run # None /\ unit = None
  <2>1. h.segs = Base(w) \o <<run>>
    BY <1>5, <1>9, LinkDetail
  <2>2. run \in Words /\ run # Undecodable /\ Deep(literal)
    BY <1>6, <1>9, WordsLink DEF Ids, Deep
  <2>3. there = RunAt(p, w, run)
    <3> HIDE DEF h, run
    <3> QED BY <1>1, <1>5, <2>1, <2>2, Runs
  <2> HIDE DEF there
  <2>4. /\ SameQuery(there, NoRoute(p)) /\ there.view = "detail" /\ there.workspace = w
        /\ there.runId = run /\ there.unitId = None /\ there.manual = ManualField(p.manual)
        /\ there.follow = (p.follow = "1")
    BY <1>2, <2>3, AtRun
  <2>5. there.filters = literal.filters /\ there.sort = FirstOf(literal.sort, DefaultSort)
    BY <1>2, <2>4 DEF SameQuery
  <2>6. there.follow = literal.follow
    BY <1>2, <1>6, <2>2, <2>4, FollowingRead
  <2>7. run # None
    BY <1>9
  <2> QED BY <1>4, <1>9, <2>4, <2>5, <2>6, <2>7 DEF LinkReachesItsRun, there, w, pane
<1>10. CASE linkable /\ run # None /\ unit # None
  <2>1. h.segs = Base(w) \o <<run, "units", unit>>
    BY <1>5, <1>10, LinkDetail
  <2>2. run # Undecodable /\ unit # Undecodable /\ Deep(literal)
    BY <1>6, <1>10, WordsLink DEF Ids, Deep
  <2>3. there = UnitAt(p, w, run, unit)
    <3> HIDE DEF h, run, unit
    <3> QED BY <1>1, <1>5, <2>1, <2>2, Units
  <2> HIDE DEF there
  <2>4. /\ SameQuery(there, NoRoute(p)) /\ there.view = "unit" /\ there.workspace = w
        /\ there.runId = run /\ there.unitId = unit /\ there.manual = ManualField(p.manual)
        /\ there.follow = (p.follow = "1")
    BY <1>2, <2>3, AtUnit
  <2>5. there.filters = literal.filters /\ there.sort = FirstOf(literal.sort, DefaultSort)
    BY <1>2, <2>4 DEF SameQuery
  <2>6. there.follow = literal.follow
    BY <1>2, <1>6, <2>2, <2>4, FollowingRead
  <2> QED BY <1>4, <1>10, <2>4, <2>5, <2>6 DEF LinkReachesItsRun, there, w, pane
<1> QED BY <1>8, <1>9, <1>10
=============================================================================
