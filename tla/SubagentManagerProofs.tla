----------------------- MODULE SubagentManagerProofs -----------------------
(***************************************************************************)
(* Theorems about SubagentManager, for every value of its constants.       *)
(***************************************************************************)
EXTENDS SubagentManager, SequenceTheorems, FiniteSetTheorems, NaturalsInduction, TLAPS

-----------------------------------------------------------------------------
(* Starting agents. *)

\* What every use of StartAgents is given: queued agents of ag, each once,
\* and the outcomes of the first of them.
Run(ag, q, o) ==
  /\ ag \in [Agents -> Agent]
  /\ q \in Seq(With("queued", ag))
  /\ \A i, j \in 1..Len(q) : q[i] = q[j] => i = j
  /\ o \in Seq(StartOutcome)
  /\ Len(o) <= Len(q)
  /\ Affordable(o)

LEMMA ListingType ==
  ASSUME NEW S \in SUBSET Agents, NEW s \in SetToSeqs(S)
  PROVE  /\ s \in Seq(S) /\ Len(s) = Cardinality(S)
         /\ \A i, j \in 1..Len(s) : s[i] = s[j] => i = j
<1>1. Cardinality(S) \in Nat
  BY ManagerAssumption, FS_Subset, FS_CardinalityType
<1>2. s \in [1..Cardinality(S) -> S]
  BY DEF SetToSeqs
<1>3. s \in Seq(S) /\ Len(s) = Cardinality(S)
  BY <1>1, <1>2
<1>4. \A i, j \in 1..Cardinality(S) : i # j => s[i] # s[j]
  BY DEF SetToSeqs
<1> QED BY <1>3, <1>4

LEMMA QueueRun ==
  ASSUME NEW ag \in [Agents -> Agent], NEW q \in Queues(ag), NEW o \in QueueRuns(ag, q)
  PROVE  Run(ag, q, o) /\ Len(q) = Cardinality(With("queued", ag))
<1> DEFINE S == With("queued", ag)
<1>1. q \in SetToSeqs(S) /\ S \in SUBSET Agents
  BY DEF Queues, With
<1>2. /\ q \in Seq(S) /\ Len(q) = Cardinality(S)
      /\ \A i, j \in 1..Len(q) : q[i] = q[j] => i = j
  <2> HIDE DEF S
  <2> QED BY <1>1, ListingType
<1>3. PICK k \in 0..Len(q) : o \in [1..k -> StartOutcome]
  BY DEF QueueRuns, BoundedSeq, SeqOf
<1>4. k \in Nat /\ k <= Len(q)
  BY <1>2, <1>3, LenProperties
<1>5. o \in Seq(StartOutcome) /\ Len(o) = k
  BY <1>3, <1>4
<1>6. Affordable(o)
  BY DEF QueueRuns
<1> QED BY <1>2, <1>4, <1>5, <1>6 DEF Run

\* A run of one agent that was just put in the queue, and a run of none.
LEMMA SpawnRun ==
  ASSUME NEW ag \in [Agents -> Agent], NEW a \in With("queued", ag),
         NEW out \in StartOutcome, Affordable(<<out>>)
  PROVE  Run(ag, <<a>>, <<out>>)
<1>1. <<a>> \in Seq(With("queued", ag)) /\ Len(<<a>>) = 1
  OBVIOUS
<1>2. <<out>> \in Seq(StartOutcome) /\ Len(<<out>>) = 1
  OBVIOUS
<1>3. \A i, j \in 1..1 : i = j
  OBVIOUS
<1> QED BY <1>1, <1>2, <1>3 DEF Run

LEMMA CountType ==
  ASSUME NEW o \in Seq(StartOutcome), NEW S
  PROVE  /\ IsFiniteSet({i \in 1..Len(o) : o[i] \in S})
         /\ Count(o, S) \in Nat
<1>1. IsFiniteSet(1..Len(o))
  BY FS_Interval, LenProperties
<1>2. IsFiniteSet({i \in 1..Len(o) : o[i] \in S})
  BY <1>1, FS_Subset
<1> QED BY <1>2, FS_CardinalityType DEF Count

LEMMA NoneRun ==
  ASSUME TypeOK, NEW ag \in [Agents -> Agent]
  PROVE  Run(ag, <<>>, <<>>)
<1>1. /\ <<>> \in Seq(With("queued", ag)) /\ <<>> \in Seq(StartOutcome)
      /\ Len(<<>>) = 0
  OBVIOUS
<1>2. {i \in 1..0 : <<>>[i] \in {"no_session", "stopped"}} = {}
  OBVIOUS
<1>3. Count(<<>>, {"no_session", "stopped"}) = 0
  BY <1>1, <1>2, FS_EmptySet DEF Count
<1>4. spent.failures \in 0..MaxStartFailures
  BY DEF TypeOK
<1>5. Affordable(<<>>)
  BY <1>3, <1>4, ManagerAssumption DEF Affordable
<1>6. \A i, j \in 1..0 : i = j
  OBVIOUS
<1> QED BY <1>1, <1>5, <1>6 DEF Run

\* What becomes of each agent of ag.
LEMMA StartFacts ==
  ASSUME NEW ag, NEW kids, NEW q, NEW o, Run(ag, q, o), StartAgents(ag, kids, q, o)
  PROVE  /\ \A i \in 1..Len(o) : /\ q[i] \in With("queued", ag)
                                 /\ agents'[q[i]] = Attempted(ag[q[i]], o[i])
         /\ \A a \in Agents : \/ agents'[a] = ag[a]
                              \/ \E i \in 1..Len(o) : a = q[i]
<1>1. Len(o) \in Nat /\ Len(q) \in Nat /\ Len(o) <= Len(q)
  BY LenProperties DEF Run
<1>2. ASSUME NEW i \in 1..Len(o)
      PROVE  q[i] \in With("queued", ag) /\ agents'[q[i]] = Attempted(ag[q[i]], o[i])
  <2>1. i \in 1..Len(q)
    BY <1>1
  <2>2. q[i] \in With("queued", ag)
    BY <2>1, ElementOfSeq DEF Run
  <2>3. q[i] \in Agents
    BY <2>2 DEF With
  <2>4. \A j \in 1..Len(o) : q[j] = q[i] => j = i
    BY <1>1, <2>1 DEF Run
  <2>5. (CHOOSE j \in 1..Len(o) : q[j] = q[i]) = i
    BY <2>4
  <2>6. agents'[q[i]] = Attempted(ag[q[i]], o[CHOOSE j \in 1..Len(o) : q[j] = q[i]])
    BY <2>3 DEF StartAgents
  <2> QED BY <2>2, <2>5, <2>6
<1>3. ASSUME NEW a \in Agents, ~\E i \in 1..Len(o) : a = q[i]
      PROVE  agents'[a] = ag[a]
  BY <1>3 DEF StartAgents
<1> QED BY <1>2, <1>3

LEMMA AttemptedType ==
  ASSUME NEW r \in Agent, NEW outcome
  PROVE  /\ Attempted(r, outcome) \in Agent
         /\ Attempted(r, outcome).status = IF outcome = "started" THEN "running" ELSE "failed"
         /\ Attempted(r, outcome).armed = (outcome = "started")
         /\ Attempted(r, outcome).cap = r.cap
         /\ outcome # "no_session" => Attempted(r, outcome).child = r.retry + 1
<1>1. r.retry + 1 \in 0..MaxRetries+1
  BY ManagerAssumption DEF Agent
<1>2. CASE outcome = "started"
  BY <1>1, <1>2 DEF Attempted, Agent, Status, Terminal
<1>3. CASE outcome = "no_session"
  BY <1>3 DEF Attempted, Agent, Status, Terminal
<1>4. CASE outcome # "started" /\ outcome # "no_session"
  BY <1>1, <1>4 DEF Attempted, Agent, Status, Terminal
<1> QED BY <1>2, <1>3, <1>4

\* Starting agents keeps every variable in its type.
LEMMA StartType ==
  ASSUME TypeOK, NEW ag, NEW kids \in [Child -> ChildSession], NEW q, NEW o,
         Run(ag, q, o), StartAgents(ag, kids, q, o)
  PROVE  /\ agents' \in [Agents -> Agent]
         /\ children' \in [Child -> ChildSession]
         /\ mapped' \in SUBSET Child
         /\ subscribed' \in SUBSET Child
         /\ spent' \in [inputs : 0..MaxInputs, failures : 0..MaxStartFailures,
                        restarts : 0..MaxRestarts]
         /\ spent'.restarts = spent.restarts /\ spent'.inputs = spent.inputs
<1> DEFINE ChildAt(i) == [agent |-> q[i], n |-> ag[q[i]].retry + 1]
           New(outcome) == {ChildAt(i) : i \in {j \in 1..Len(o) : o[j] = outcome}}
<1>1. agents' \in [Agents -> Agent]
  <2>1. agents' = [a \in Agents |-> agents'[a]]
    BY DEF StartAgents
  <2>2. \A a \in Agents : agents'[a] \in Agent
    BY StartFacts, AttemptedType DEF Run
  <2> QED BY <2>1, <2>2
<1>2. \A i \in 1..Len(o) : ChildAt(i) \in Child
  <2> TAKE i \in 1..Len(o)
  <2>1. q[i] \in Agents
    BY StartFacts DEF With
  <2>2. ag[q[i]].retry \in 0..MaxRetries
    BY <2>1 DEF Run, Agent
  <2>3. ag[q[i]].retry + 1 \in 1..MaxRetries+1
    BY <2>2, ManagerAssumption, SMTT(30)
  <2> QED BY <2>1, <2>3 DEF Child
<1>3. New("started") \subseteq Child
  BY <1>2
<1>4. children' \in [Child -> ChildSession]
  <2>1. children' = [c \in Child |->
           IF c \in New("started") THEN [turn |-> "run", said |-> "none"]
           ELSE IF c \in New("stopped") THEN [turn |-> "stopped", said |-> "none"]
           ELSE kids[c]]
    BY DEF StartAgents
  <2> HIDE DEF New
  <2> QED BY <2>1 DEF ChildSession
<1>5. mapped' = mapped \cup New("started") /\ subscribed' = subscribed \cup New("started")
  BY DEF StartAgents
<1>6. mapped' \in SUBSET Child /\ subscribed' \in SUBSET Child
  <2> HIDE DEF New
  <2> QED BY <1>3, <1>5 DEF TypeOK
<1>7. /\ spent' \in [inputs : 0..MaxInputs, failures : 0..MaxStartFailures,
                     restarts : 0..MaxRestarts]
      /\ spent'.restarts = spent.restarts /\ spent'.inputs = spent.inputs
  <2>1. Count(o, {"no_session", "stopped"}) \in Nat
    BY CountType DEF Run
  <2>2. spent.failures + Count(o, {"no_session", "stopped"}) <= MaxStartFailures
    BY DEF Run, Affordable
  <2>3. spent' = [spent EXCEPT !.failures = spent.failures + Count(o, {"no_session", "stopped"})]
    BY DEF StartAgents
  <2>4. spent.failures + Count(o, {"no_session", "stopped"}) \in 0..MaxStartFailures
    BY <2>1, <2>2, ManagerAssumption DEF TypeOK
  <2> QED BY <2>3, <2>4 DEF TypeOK
<1> QED BY <1>1, <1>4, <1>6, <1>7

-----------------------------------------------------------------------------
(* Type correctness. *)

LEMMA EndedType ==
  ASSUME TypeOK, NEW a \in Agents, NEW status \in Terminal
  PROVE  Ended(a, status) \in [Agents -> Agent]
<1>1. agents \in [Agents -> Agent] /\ status \in Status
  BY DEF TypeOK, Status
<1>2. [agents[a] EXCEPT !.status = status, !.armed = FALSE] \in Agent
  BY <1>1 DEF Agent
<1>3. Ended(a, status) = [agents EXCEPT ![a] = [agents[a] EXCEPT !.status = status, !.armed = FALSE]]
  BY <1>1 DEF Ended
<1> QED BY <1>1, <1>2, <1>3

LEMMA StartQueuedType ==
  ASSUME TypeOK, NEW ag \in [Agents -> Agent], NEW kids \in [Child -> ChildSession],
         StartQueued(ag, kids)
  PROVE  /\ agents' \in [Agents -> Agent]
         /\ children' \in [Child -> ChildSession]
         /\ mapped' \in SUBSET Child
         /\ subscribed' \in SUBSET Child
         /\ spent' \in [inputs : 0..MaxInputs, failures : 0..MaxStartFailures,
                        restarts : 0..MaxRestarts]
<1>1. PICK q \in Queues(ag) : \E o \in QueueRuns(ag, q) : StartAgents(ag, kids, q, o)
  BY DEF StartQueued
<1>2. PICK o \in QueueRuns(ag, q) : StartAgents(ag, kids, q, o)
  BY <1>1
<1> QED BY <1>2, QueueRun, StartType

LEMMA EndType ==
  ASSUME TypeOK, NEW a \in Agents, NEW status \in Terminal,
         NEW kids \in [Child -> ChildSession], EndAgent(a, status, kids)
  PROVE  /\ agents' \in [Agents -> Agent]
         /\ children' \in [Child -> ChildSession]
         /\ mapped' \in SUBSET Child
         /\ subscribed' \in SUBSET Child
         /\ waiting' \in SUBSET Agents
         /\ spent' \in [inputs : 0..MaxInputs, failures : 0..MaxStartFailures,
                        restarts : 0..MaxRestarts]
<1>1. StartQueued(Ended(a, status), kids)
  BY DEF EndAgent
<1>2. waiting' \in SUBSET Agents
  BY DEF EndAgent, ReplyWaiters, TypeOK
<1> QED BY <1>1, <1>2, EndedType, StartQueuedType

LEMMA StepType ==
  ASSUME TypeOK, NEW c \in Child, NEW turn, NEW said,
         [turn |-> turn, said |-> said] \in ChildSession, Step(c, turn, said)
  PROVE  children' \in [Child -> ChildSession]
BY DEF TypeOK, Step

LEMMA InterruptType ==
  ASSUME TypeOK, NEW c
  PROVE  /\ Interrupted(c) \in [Child -> ChildSession]
         /\ InterruptEvents(c) \in Seq(Message)
<1>1. children \in [Child -> ChildSession] /\ subscribed \subseteq Child
  BY DEF TypeOK
<1>2. Interrupted(c) \in [Child -> ChildSession]
  BY <1>1 DEF Interrupted, ChildSession
<1>3. c \in subscribed => Event(c, "interrupted") \in Message
  BY <1>1 DEF Event, Message, ChildEvent
<1>4. InterruptEvents(c) \in Seq(Message)
  BY <1>3 DEF InterruptEvents
<1> QED BY <1>2, <1>4

LEMMA ReceiveFacts ==
  ASSUME TypeOK, NEW op, Receive(op)
  PROVE  /\ m \in Message /\ m.op = op
         /\ mailbox \in Seq(Message) /\ mailbox # <<>>
         /\ Tail(mailbox) \in Seq(Message)
         /\ Len(Tail(mailbox)) = Len(mailbox) - 1
BY HeadTailProperties DEF TypeOK, Receive, m

LEMMA EventFacts ==
  ASSUME TypeOK, Receive("event")
  PROVE  m.child \in Child /\ m.event \in ChildEvent /\ Sender \in Agents
<1>1. m \in Message /\ m.op = "event"
  BY ReceiveFacts
<1>2. m \in [op : {"event"}, child : Child, event : ChildEvent]
  BY <1>1 DEF Message
<1>3. m.child \in Child /\ m.event \in ChildEvent
  BY <1>2
<1> QED BY <1>3 DEF Sender, Child

LEMMA SignalFacts ==
  ASSUME TypeOK, NEW op \in {"timeout", "retry"}, Receive(op)
  PROVE  m.agent \in Agents /\ m = Signal(op, m.agent)
<1>1. m \in Message /\ m.op = op
  BY ReceiveFacts
<1>2. m \in [op : {"timeout", "retry"}, agent : Agents]
  BY <1>1 DEF Message
<1> QED BY <1>1, <1>2 DEF Signal

LEMMA PostType ==
  ASSUME TypeOK, NEW msg \in Message
  PROVE  Append(mailbox, msg) \in Seq(Message)
BY AppendProperties DEF TypeOK
LEMMA QueuedAgentType ==
  /\ NoAgent \in Agent
  /\ [NoAgent EXCEPT !.status = "queued", !.cap = MaxThreads] \in Agent
<1>1. 0 \in 0..MaxRetries /\ 0 \in 0..MaxRetries+1
  BY ManagerAssumption
<1>2. NoAgent \in Agent
  BY <1>1 DEF NoAgent, Agent, Status
<1>3. [NoAgent EXCEPT !.status = "queued", !.cap = MaxThreads] \in Agent
  BY <1>2 DEF Agent, Status
<1> QED BY <1>2, <1>3

LEMMA PromptedType ==
  ASSUME TypeOK, NEW a \in Agents
  PROVE  Prompted(a) \in [Agents -> Agent]
<1>1. agents \in [Agents -> Agent]
  BY DEF TypeOK
<1>2. [agents[a] EXCEPT !.status = "running", !.armed = TRUE] \in Agent
  BY <1>1 DEF Agent, Status
<1>3. Prompted(a) = [agents EXCEPT ![a] = [agents[a] EXCEPT !.status = "running", !.armed = TRUE]]
  BY <1>1 DEF Prompted
<1> QED BY <1>1, <1>2, <1>3

LEMMA ClientType ==
  ASSUME TypeOK, Client
  PROVE  TypeOK'
<1> USE DEF TypeOK
<1>1. ASSUME NEW a \in Agents, SpawnAgent(a)
      PROVE  TypeOK'
  <2> DEFINE new == [agents EXCEPT ![a] = [NoAgent EXCEPT !.status = "queued", !.cap = MaxThreads]]
  <2>1. [NoAgent EXCEPT !.status = "queued", !.cap = MaxThreads] \in Agent
    BY QueuedAgentType
  <2>2. new \in [Agents -> Agent] /\ a \in With("queued", new)
    BY <2>1 DEF With, NoAgent
  <2> HIDE DEF new
  <2>3. order' \in Seq(Agents)
    BY <1>1, AppendProperties DEF SpawnAgent
  <2>4. \E q, o : Run(new, q, o) /\ StartAgents(new, children, q, o)
    <3>1. CASE CanStart(Cardinality(With("running", agents)), MaxThreads)
      <4>1. PICK out \in StartOutcome :
              Affordable(<<out>>) /\ StartAgents(new, children, <<a>>, <<out>>)
        BY <1>1, <3>1 DEF SpawnAgent, new
      <4> QED BY <4>1, <2>2, SpawnRun
    <3>2. CASE ~CanStart(Cardinality(With("running", agents)), MaxThreads)
      <4>1. StartAgents(new, children, <<>>, <<>>)
        BY <1>1, <3>2 DEF SpawnAgent, new
      <4> QED BY <4>1, <2>2, NoneRun
    <3> QED BY <3>1, <3>2
  <2>5. PICK q : \E o : Run(new, q, o) /\ StartAgents(new, children, q, o)
    BY <2>4
  <2>6. PICK o : Run(new, q, o) /\ StartAgents(new, children, q, o)
    BY <2>5
  <2>7. UNCHANGED <<restored, waiting, mailbox, retry_timers, past>>
    BY <1>1 DEF SpawnAgent
  <2> QED BY <2>3, <2>6, <2>7, StartType
<1>2. ASSUME NEW a \in Agents, SendInput(a)
      PROVE  TypeOK'
  <2>1. agents' \in [Agents -> Agent]
    BY <1>2, PromptedType DEF SendInput
  <2>2. ChildOf(a) \in Child
    <3>1. agents[a] \in Agent /\ agents[a].child # 0 /\ MaxRetries \in Nat
      BY <1>2, ManagerAssumption DEF SendInput
    <3>2. agents[a].child \in 1..MaxRetries+1
      BY ONLY <3>1 DEF Agent
    <3> QED BY <3>2 DEF ChildOf, Child
  <2>3. children' \in [Child -> ChildSession]
    BY <1>2, <2>2, StepType DEF SendInput, ChildSession
  <2>4. spent' \in [inputs : 0..MaxInputs, failures : 0..MaxStartFailures,
                    restarts : 0..MaxRestarts]
    <3>1. /\ spent' = [spent EXCEPT !.inputs = spent.inputs + 1]
          /\ spent.inputs < MaxInputs
      BY <1>2 DEF SendInput
    <3>2. spent.inputs + 1 \in 0..MaxInputs
      BY <3>1, ManagerAssumption
    <3> QED BY <3>1, <3>2
  <2> QED BY <1>2, <2>1, <2>3, <2>4 DEF SendInput
<1>3. ASSUME NEW a \in Agents, Close(a)
      PROVE  TypeOK'
  <2>1. UNCHANGED <<order, restored, retry_timers, past>>
    BY <1>3 DEF Close
  <2>2. CASE EndAgent(a, "cancelled", Interrupted(ChildOf(a)))
                /\ mailbox' = mailbox \o InterruptEvents(ChildOf(a))
    <3>1. mailbox' \in Seq(Message)
      BY <2>2, InterruptType, ConcatProperties
    <3>2. Interrupted(ChildOf(a)) \in [Child -> ChildSession] /\ "cancelled" \in Terminal
      BY InterruptType DEF Terminal
    <3> QED BY <2>1, <2>2, <3>1, <3>2, EndType
  <2>3. CASE EndAgent(a, "closed", children) /\ UNCHANGED mailbox
    <3>1. "closed" \in Terminal
      BY DEF Terminal
    <3> QED BY <2>1, <2>3, <3>1, EndType
  <2> QED BY <1>3, <2>2, <2>3 DEF Close
<1>4. ASSUME NEW S \in SUBSET Watched, Wait(S)
      PROVE  TypeOK'
  BY <1>4, ManagerAssumption DEF Wait
<1>5. CASE WaitTimeout
  BY <1>5 DEF WaitTimeout
<1>6. CASE RestoreParent
  <2> DEFINE lost == {a \in Agents : past[a].status # "none"}
             back == {[agent |-> a, n |-> past[a].child] : a \in {b \in lost : Reattached(b)}}
  <2>1. \A a \in Agents : RestoredAgent(a) \in Agent
    <3> TAKE a \in Agents
    <3>1. past[a] \in Agent /\ Reattached(a) \in BOOLEAN
      BY DEF Reattached
    <3> HIDE DEF Reattached
    <3> QED BY <3>1 DEF RestoredAgent, Agent, Status, Terminal
  <2>2. agents' \in [Agents -> Agent]
    BY <1>6, <2>1 DEF RestoreParent
  <2>3. back \subseteq Child
    <3>1. ASSUME NEW a \in lost, Reattached(a)
          PROVE  [agent |-> a, n |-> past[a].child] \in Child
      <4>1. past[a] \in Agent /\ past[a].child # 0
        BY <3>1 DEF Reattached
      <4>2. past[a].child \in 1..MaxRetries+1
        BY ONLY <4>1, ManagerAssumption DEF Agent, ManagerAssumption
      <4> QED BY <4>2 DEF Child
    <3> QED BY <3>1
  <2>4. mapped' = mapped \cup back /\ subscribed' = subscribed \cup back
    BY <1>6 DEF RestoreParent
  <2>5. mapped' \in SUBSET Child /\ subscribed' \in SUBSET Child
    <3> HIDE DEF back
    <3> QED BY <2>3, <2>4
  <2>6. order' \in Seq(Agents)
    <3>1. PICK s \in SetToSeqs(lost) : order' = order \o s
      BY <1>6 DEF RestoreParent
    <3>2. s \in Seq(Agents)
      <4>1. lost \subseteq Agents
        OBVIOUS
      <4> HIDE DEF lost
      <4> QED BY <3>1, <4>1, ListingType, SeqMonotonic
    <3> HIDE DEF lost
    <3> QED BY <3>1, <3>2, ConcatProperties
  <2>7. past' \in [Agents -> Agent]
    BY <1>6, ManagerAssumption DEF RestoreParent, NoAgent, Agent, Status
  <2> QED BY <1>6, <2>2, <2>5, <2>6, <2>7 DEF RestoreParent
<1> QED BY <1>1, <1>2, <1>3, <1>4, <1>5, <1>6 DEF Client

LEMMA HandleType ==
  ASSUME TypeOK, Handle
  PROVE  TypeOK'
<1>1. CASE HandleTransportFailure
  <2>1. Receive("event")
    BY <1>1 DEF HandleTransportFailure, Heard
  <2>2. Sender \in Agents /\ mailbox' \in Seq(Message)
    BY <1>1, <2>1, EventFacts, ReceiveFacts DEF HandleTransportFailure
  <2>3. agents' = [agents EXCEPT ![Sender].status = "queued", ![Sender].armed = FALSE,
                                 ![Sender].retry = agents[Sender].retry + 1]
        /\ agents[Sender].retry < MaxRetries
    BY <1>1 DEF HandleTransportFailure, MayRetry
  <2>4. agents' \in [Agents -> Agent]
    <3> HIDE DEF Sender
    <3>1. agents \in [Agents -> Agent] /\ agents[Sender] \in Agent
      BY <2>2 DEF TypeOK
    <3>2. agents[Sender].retry + 1 \in 0..MaxRetries
      BY <2>3, <3>1, ManagerAssumption DEF Agent
    <3>3. [agents[Sender] EXCEPT !.status = "queued", !.armed = FALSE,
                                 !.retry = agents[Sender].retry + 1] \in Agent
      BY <3>1, <3>2 DEF Agent, Status
    <3>4. agents' = [agents EXCEPT ![Sender] =
                       [agents[Sender] EXCEPT !.status = "queued", !.armed = FALSE,
                                              !.retry = agents[Sender].retry + 1]]
      BY <2>3, <3>1
    <3> QED BY <3>1, <3>3, <3>4
  <2>5. retry_timers' \in [Agents -> Nat]
    BY <1>1, <2>2 DEF HandleTransportFailure, WakeUp, TypeOK
  <2> QED BY <1>1, <2>2, <2>4, <2>5 DEF HandleTransportFailure, StopListening, TypeOK
<1>2. CASE HandleTurnStatus
  <2>1. Receive("event")
    BY <1>2 DEF HandleTurnStatus, Heard
  <2>2. Sender \in Agents /\ mailbox' \in Seq(Message)
    BY <1>2, <2>1, EventFacts, ReceiveFacts DEF HandleTurnStatus
  <2>3. PICK status \in StatusesOf(m.event) : EndAgent(Sender, status, children)
    BY <1>2 DEF HandleTurnStatus
  <2>4. status \in Terminal
    BY <2>3 DEF StatusesOf, Terminal
  <2>5. UNCHANGED <<order, restored, retry_timers, past>>
    BY <1>2 DEF HandleTurnStatus
  <2>6. children \in [Child -> ChildSession]
    BY DEF TypeOK
  <2> HIDE DEF Sender
  <2> QED BY <2>2, <2>3, <2>4, <2>5, <2>6, EndType DEF TypeOK
<1>3. CASE HandleOtherEvent
  BY <1>3, ReceiveFacts DEF HandleOtherEvent, TypeOK
<1>4. CASE HandleTimeout
  <2>1. Receive("timeout")
    BY <1>4 DEF HandleTimeout
  <2>2. m.agent \in Agents /\ Tail(mailbox) \in Seq(Message)
    BY <2>1, SignalFacts, ReceiveFacts
  <2>3. UNCHANGED <<order, restored, retry_timers, past>>
    BY <1>4 DEF HandleTimeout
  <2>4. CASE agents[m.agent].status = "running"
    <3>1. /\ mailbox' = Tail(mailbox) \o InterruptEvents(ChildOf(m.agent))
          /\ EndAgent(m.agent, "timed_out", Interrupted(ChildOf(m.agent)))
      BY <1>4, <2>4 DEF HandleTimeout
    <3>2. "timed_out" \in Terminal
      BY DEF Terminal
    <3>3. mailbox' \in Seq(Message)
      BY <2>2, <3>1, InterruptType, ConcatProperties
    <3>4. Interrupted(ChildOf(m.agent)) \in [Child -> ChildSession]
      BY InterruptType
    <3> QED BY <2>2, <2>3, <3>1, <3>2, <3>3, <3>4, EndType DEF TypeOK
  <2>5. CASE agents[m.agent].status # "running"
    BY <1>4, <2>2, <2>3, <2>5 DEF HandleTimeout, TypeOK
  <2> QED BY <2>4, <2>5
<1>5. CASE HandleRetry
  <2>1. mailbox' \in Seq(Message)
    BY <1>5, ReceiveFacts DEF HandleRetry
  <2>2. UNCHANGED <<order, restored, waiting, retry_timers, past>>
    BY <1>5 DEF HandleRetry
  <2>3. CASE agents[m.agent].status = "queued"
    <3>1. StartQueued(agents, children)
      BY <1>5, <2>3 DEF HandleRetry
    <3>2. agents \in [Agents -> Agent] /\ children \in [Child -> ChildSession]
      BY DEF TypeOK
    <3> QED BY <2>1, <2>2, <3>1, <3>2, StartQueuedType DEF TypeOK
  <2>4. CASE agents[m.agent].status # "queued"
    BY <1>5, <2>1, <2>2, <2>4 DEF HandleRetry, TypeOK
  <2> QED BY <2>3, <2>4
<1> QED BY <1>1, <1>2, <1>3, <1>4, <1>5 DEF Handle

LEMMA TypeStep ==
  ASSUME TypeOK, [Next]_vars
  PROVE  TypeOK'
<1>1. CASE Handle
  BY <1>1, HandleType
<1>2. CASE Fires
  <2>1. ASSUME NEW a \in Agents, TimeoutFires(a)
        PROVE  TypeOK'
    <3>1. Signal("timeout", a) \in Message
      BY DEF Signal, Message
    <3> QED BY <2>1, <3>1, PostType DEF TimeoutFires, TypeOK, Agent
  <2>2. ASSUME NEW a \in Agents, RetryFires(a)
        PROVE  TypeOK'
    <3>1. Signal("retry", a) \in Message
      BY DEF Signal, Message
    <3> QED BY <2>2, <3>1, PostType DEF RetryFires, TypeOK
  <2> QED BY <1>2, <2>1, <2>2 DEF Fires
<1>3. CASE Client
  BY <1>3, ClientType
<1>4. ASSUME NEW c \in Child, ChildWorks(c)
      PROVE  TypeOK'
  <2>1. children' \in [Child -> ChildSession]
    <3>1. children \in [Child -> ChildSession] /\ children[c] \in ChildSession
      BY DEF TypeOK
    <3>2. PICK k \in ChildSession : children' = [children EXCEPT ![c] = k]
      BY <1>4, <3>1 DEF ChildWorks, Step, ChildSession
    <3> QED BY <3>1, <3>2
  <2> QED BY <1>4, <2>1 DEF ChildWorks, TypeOK
<1>5. ASSUME NEW c \in Child, ChildPublishes(c)
      PROVE  TypeOK'
  <2>1. children' \in [Child -> ChildSession]
    BY <1>5 DEF ChildPublishes, Step, ChildSession, TypeOK
  <2>2. Event(c, children[c].said) \in Message
    BY <1>5 DEF ChildPublishes, Event, Message, ChildEvent, ChildSession, TypeOK
  <2>3. mailbox' \in Seq(Message)
    BY <1>5, <2>2, PostType DEF ChildPublishes, TypeOK
  <2> QED BY <1>5, <2>1, <2>3 DEF ChildPublishes, TypeOK
<1>6. CASE ManagerRestarts
  <2>1. NoAgent \in Agent
    BY QueuedAgentType
  <2>2. spent' \in [inputs : 0..MaxInputs, failures : 0..MaxStartFailures,
                    restarts : 0..MaxRestarts]
    <3>1. spent.restarts + 1 \in 0..MaxRestarts
      BY <1>6, ManagerAssumption DEF ManagerRestarts, TypeOK
    <3> QED BY <1>6, <3>1 DEF ManagerRestarts, TypeOK
  <2>3. past' \in [Agents -> Agent]
    BY <1>6 DEF ManagerRestarts, TypeOK
  <2>4. /\ agents' \in [Agents -> Agent] /\ order' \in Seq(Agents)
        /\ mailbox' \in Seq(Message) /\ retry_timers' \in [Agents -> Nat]
    BY <1>6, <2>1 DEF ManagerRestarts
  <2> QED BY <1>6, <2>2, <2>3, <2>4 DEF ManagerRestarts, TypeOK
<1>7. CASE UNCHANGED vars
  BY <1>7 DEF vars, TypeOK
<1> QED BY <1>1, <1>2, <1>3, <1>4, <1>5, <1>6, <1>7 DEF Next

LEMMA TypeInit == Init => TypeOK
<1>1. NoAgent \in Agent
  BY ManagerAssumption DEF NoAgent, Agent, Status
<1>2. NoSession \in ChildSession
  BY DEF NoSession, ChildSession
<1>3. [inputs |-> 0, failures |-> 0, restarts |-> 0]
         \in [inputs : 0..MaxInputs, failures : 0..MaxStartFailures, restarts : 0..MaxRestarts]
  BY ManagerAssumption
<1>4. <<>> \in Seq(Agents) /\ <<>> \in Seq(Message)
  OBVIOUS
<1> QED BY <1>1, <1>2, <1>3, <1>4 DEF Init, TypeOK

\* Whatever is queued, retried, prompted, closed or restored, every variable
\* of the Manager stays in its type.
THEOREM TypeCorrect == Spec => []TypeOK
BY TypeInit, TypeStep, PTL DEF Spec

-----------------------------------------------------------------------------
(* Every running agent has its end in sight. *)

Deadlines(ag, mail) ==
  \A a \in With("running", ag) : ag[a].armed \/ Signal("timeout", a) \in ToSet(mail)

\* What else a mailbox holds stays in it.
LEMMA TailKeeps ==
  ASSUME NEW s \in Seq(Message), s # <<>>, NEW x \in ToSet(s), x # Head(s)
  PROVE  x \in ToSet(Tail(s))
<1>1. PICK i \in 1..Len(s) : s[i] = x
  BY LenProperties DEF ToSet
<1>2. i # 1 /\ Len(s) \in Nat
  BY <1>1
<1>3. i - 1 \in 1..Len(Tail(s)) /\ Tail(s)[i - 1] = x
  BY <1>1, <1>2
<1>4. Tail(s) \in Seq(Message)
  BY HeadTailProperties
<1> QED BY <1>3, <1>4, LenProperties DEF ToSet

LEMMA ConcatKeeps ==
  ASSUME NEW s \in Seq(Message), NEW t \in Seq(Message), NEW x \in ToSet(s)
  PROVE  x \in ToSet(s \o t)
<1>1. PICK i \in 1..Len(s) : s[i] = x
  BY LenProperties DEF ToSet
<1>2. Len(s) \in Nat /\ Len(t) \in Nat /\ Len(s \o t) = Len(s) + Len(t) /\ s \o t \in Seq(Message)
  BY ConcatProperties
<1>3. i \in 1..Len(s \o t) /\ (s \o t)[i] = x
  BY <1>1, <1>2
<1> QED BY <1>2, <1>3, LenProperties DEF ToSet

LEMMA AppendKeeps ==
  ASSUME NEW s \in Seq(Message), NEW y \in Message
  PROVE  /\ \A x \in ToSet(s) : x \in ToSet(Append(s, y))
         /\ y \in ToSet(Append(s, y))
<1>1. /\ Append(s, y) \in Seq(Message) /\ Len(Append(s, y)) = Len(s) + 1 /\ Len(s) \in Nat
      /\ \A i \in 1..Len(s) : Append(s, y)[i] = s[i]
      /\ Append(s, y)[Len(s) + 1] = y
  BY AppendProperties, LenProperties
<1>2. DOMAIN s = 1..Len(s) /\ DOMAIN Append(s, y) = 1..Len(Append(s, y))
  BY <1>1, LenProperties
<1>3. \A i \in 1..Len(s) : i \in 1..Len(s) + 1
  BY <1>1
<1>4. Len(s) + 1 \in 1..Len(s) + 1
  BY <1>1
<1> QED BY <1>1, <1>2, <1>3, <1>4 DEF ToSet

LEMMA StartDeadlines ==
  ASSUME NEW ag, NEW kids, NEW q, NEW o, Run(ag, q, o), StartAgents(ag, kids, q, o),
         Deadlines(ag, mailbox')
  PROVE  RunningHasDeadline'
<1> SUFFICES ASSUME NEW a \in Agents, agents'[a].status = "running"
             PROVE  agents'[a].armed \/ Signal("timeout", a) \in ToSet(mailbox')
  BY DEF RunningHasDeadline, With, Signal
<1>1. CASE agents'[a] = ag[a]
  BY <1>1 DEF Deadlines, With
<1>2. ASSUME NEW i \in 1..Len(o), a = q[i]
      PROVE  agents'[a].armed
  <2>1. agents'[a] = Attempted(ag[a], o[i]) /\ ag[a] \in Agent
    BY <1>2, StartFacts DEF Run
  <2> QED BY <2>1, AttemptedType
<1> QED BY <1>1, <1>2, StartFacts

LEMMA QueueDeadlines ==
  ASSUME TypeOK, NEW ag \in [Agents -> Agent], NEW kids, StartQueued(ag, kids),
         Deadlines(ag, mailbox')
  PROVE  RunningHasDeadline'
<1>1. PICK q \in Queues(ag) : \E o \in QueueRuns(ag, q) : StartAgents(ag, kids, q, o)
  BY DEF StartQueued
<1>2. PICK o \in QueueRuns(ag, q) : StartAgents(ag, kids, q, o)
  BY <1>1
<1> QED BY <1>2, QueueRun, StartDeadlines

\* An agent that ends needs no timeout, and the others keep theirs.
LEMMA EndDeadlines ==
  ASSUME TypeOK, RunningHasDeadline, NEW a \in Agents, NEW status \in Terminal, NEW kids,
         EndAgent(a, status, kids),
         \A x \in ToSet(mailbox) : x = Signal("timeout", a) \/ x \in ToSet(mailbox') \/ x.op # "timeout"
  PROVE  RunningHasDeadline'
<1>1. \A b \in Agents : b # a => Ended(a, status)[b] = agents[b]
  BY DEF Ended, TypeOK
<1>2. Ended(a, status)[a].status = status /\ status # "running"
  BY DEF Ended, TypeOK, Agent, Terminal
<1>3. Deadlines(Ended(a, status), mailbox')
  <2> SUFFICES ASSUME NEW b \in Agents, Ended(a, status)[b].status = "running"
               PROVE  Ended(a, status)[b].armed \/ Signal("timeout", b) \in ToSet(mailbox')
    BY DEF Deadlines, With
  <2>1. b # a /\ agents[b].status = "running" /\ Ended(a, status)[b] = agents[b]
    BY <1>1, <1>2
  <2>2. agents[b].armed \/ Signal("timeout", b) \in ToSet(mailbox)
    BY <2>1 DEF RunningHasDeadline, With
  <2>3. Signal("timeout", b) # Signal("timeout", a) /\ Signal("timeout", b).op = "timeout"
    BY <2>1 DEF Signal
  <2> QED BY <2>1, <2>2, <2>3
<1> QED BY <1>3, EndedType, QueueDeadlines DEF EndAgent

LEMMA DeadlineStep ==
  ASSUME TypeOK, RunningHasDeadline, [Next]_vars
  PROVE  RunningHasDeadline'
<1>0. mailbox \in Seq(Message) /\ agents \in [Agents -> Agent]
  BY DEF TypeOK
\* Agents and mailbox as they were, or with one more message.
<1>1. ASSUME agents' = agents, \A x \in ToSet(mailbox) : x \in ToSet(mailbox') \/ x.op # "timeout"
      PROVE  RunningHasDeadline'
  <2>1. \A a \in Agents : Signal("timeout", a).op = "timeout"
    BY DEF Signal
  <2> QED BY <1>1, <2>1 DEF RunningHasDeadline, With, Signal
<1>2. CASE HandleTransportFailure
  <2>1. Receive("event") /\ mailbox' = Tail(mailbox)
    BY <1>2 DEF HandleTransportFailure, Heard
  <2>2. Sender \in Agents /\ m.op = "event"
    BY <2>1, EventFacts, ReceiveFacts
  <2>3. \A b \in Agents : b # Sender => agents'[b] = agents[b]
    BY <1>2, <2>2 DEF HandleTransportFailure, TypeOK
  <2>4. agents'[Sender].status = "queued"
    <3>1. agents' = [agents EXCEPT ![Sender].status = "queued", ![Sender].armed = FALSE,
                                   ![Sender].retry = agents[Sender].retry + 1]
      BY <1>2 DEF HandleTransportFailure
    <3> HIDE DEF Sender
    <3> QED BY <1>0, <2>2, <3>1 DEF Agent
  <2> SUFFICES ASSUME NEW b \in Agents, agents'[b].status = "running"
               PROVE  agents'[b].armed \/ Signal("timeout", b) \in ToSet(mailbox')
    BY DEF RunningHasDeadline, With, Signal
  <2>5. agents'[b] = agents[b]
    BY <2>3, <2>4
  <2>6. Signal("timeout", b) # m
    BY <2>2 DEF Signal
  <2>7. Signal("timeout", b) \in ToSet(mailbox) => Signal("timeout", b) \in ToSet(mailbox')
    BY <2>1, <2>6, ReceiveFacts, TailKeeps DEF m
  <2> QED BY <2>5, <2>7 DEF RunningHasDeadline, With
<1>3. CASE HandleTurnStatus
  <2>1. Receive("event") /\ mailbox' = Tail(mailbox)
    BY <1>3 DEF HandleTurnStatus, Heard
  <2>2. Sender \in Agents /\ m.op = "event"
    BY <2>1, EventFacts, ReceiveFacts
  <2>3. PICK status \in StatusesOf(m.event) : EndAgent(Sender, status, children)
    BY <1>3 DEF HandleTurnStatus
  <2>4. status \in Terminal
    BY <2>3 DEF StatusesOf, Terminal
  <2>5. \A x \in ToSet(mailbox) : x \in ToSet(mailbox') \/ x.op # "timeout"
    BY <2>1, <2>2, ReceiveFacts, TailKeeps DEF m
  <2> HIDE DEF Sender
  <2> QED BY <2>2, <2>3, <2>4, <2>5, EndDeadlines
<1>4. CASE HandleOtherEvent
  <2>1. Receive("event") /\ mailbox' = Tail(mailbox) /\ agents' = agents
    BY <1>4 DEF HandleOtherEvent
  <2>2. \A x \in ToSet(mailbox) : x \in ToSet(mailbox') \/ x.op # "timeout"
    BY <2>1, ReceiveFacts, TailKeeps DEF m
  <2> QED BY <2>1, <2>2, <1>1
<1>5. CASE HandleTimeout
  <2>1. Receive("timeout")
    BY <1>5 DEF HandleTimeout
  <2>2. m.agent \in Agents /\ m = Signal("timeout", m.agent) /\ Tail(mailbox) \in Seq(Message)
    BY <2>1, SignalFacts, ReceiveFacts
  <2>3. \A x \in ToSet(mailbox) : x = m \/ x \in ToSet(Tail(mailbox))
    BY <2>1, ReceiveFacts, TailKeeps DEF m
  <2>4. CASE agents[m.agent].status = "running"
    <3>1. /\ mailbox' = Tail(mailbox) \o InterruptEvents(ChildOf(m.agent))
          /\ EndAgent(m.agent, "timed_out", Interrupted(ChildOf(m.agent)))
      BY <1>5, <2>4 DEF HandleTimeout
    <3>2. \A x \in ToSet(mailbox) : x = m \/ x \in ToSet(mailbox')
      BY <2>2, <2>3, <3>1, InterruptType, ConcatKeeps
    <3>3. "timed_out" \in Terminal
      BY DEF Terminal
    <3> HIDE DEF m
    <3> QED BY <2>2, <3>1, <3>2, <3>3, EndDeadlines
  <2>5. CASE agents[m.agent].status # "running"
    <3>1. mailbox' = Tail(mailbox) /\ agents' = agents
      BY <1>5, <2>5 DEF HandleTimeout
    <3> SUFFICES ASSUME NEW b \in Agents, agents[b].status = "running"
                 PROVE  agents[b].armed \/ Signal("timeout", b) \in ToSet(mailbox')
      BY <3>1 DEF RunningHasDeadline, With, Signal
    <3>2. Signal("timeout", b) # Signal("timeout", m.agent)
      BY <2>5 DEF Signal
    <3> QED BY <2>2, <2>3, <3>1, <3>2 DEF RunningHasDeadline, With
  <2> QED BY <2>4, <2>5
<1>6. CASE HandleRetry
  <2>1. Receive("retry") /\ mailbox' = Tail(mailbox)
    BY <1>6 DEF HandleRetry
  <2>2. m.op # "timeout"
    BY <2>1, ReceiveFacts
  <2>3. \A x \in ToSet(mailbox) : x \in ToSet(mailbox') \/ x.op # "timeout"
    BY <2>1, <2>2, ReceiveFacts, TailKeeps DEF m
  <2>4. CASE agents[m.agent].status = "queued"
    <3>1. StartQueued(agents, children)
      BY <1>6, <2>4 DEF HandleRetry
    <3>2. \A a \in Agents : Signal("timeout", a).op = "timeout"
      BY DEF Signal
    <3>3. Deadlines(agents, mailbox')
      BY <2>3, <3>2 DEF Deadlines, RunningHasDeadline, With
    <3> QED BY <1>0, <3>1, <3>3, QueueDeadlines
  <2>5. CASE agents[m.agent].status # "queued"
    BY <1>6, <2>5, <2>3, <1>1 DEF HandleRetry
  <2> QED BY <2>4, <2>5
<1>7. ASSUME NEW a \in Agents, TimeoutFires(a)
      PROVE  RunningHasDeadline'
  <2>1. Signal("timeout", a) \in Message
    BY DEF Signal, Message
  <2>2. /\ \A x \in ToSet(mailbox) : x \in ToSet(mailbox')
        /\ Signal("timeout", a) \in ToSet(mailbox')
    BY <1>0, <1>7, <2>1, AppendKeeps DEF TimeoutFires
  <2>3. \A b \in Agents : b # a => agents'[b] = agents[b]
    BY <1>0, <1>7 DEF TimeoutFires
  <2>4. \A b \in Agents : agents'[b].status = agents[b].status
    BY <1>0, <1>7 DEF TimeoutFires, Agent
  <2> QED BY <2>2, <2>3, <2>4 DEF RunningHasDeadline, With, Signal
<1>8. ASSUME NEW a \in Agents, RetryFires(a)
      PROVE  RunningHasDeadline'
  <2>1. Signal("retry", a) \in Message
    BY DEF Signal, Message
  <2> QED BY <1>0, <1>1, <1>8, <2>1, AppendKeeps DEF RetryFires
<1>9. ASSUME NEW a \in Agents, SpawnAgent(a)
      PROVE  RunningHasDeadline'
  <2> DEFINE new == [agents EXCEPT ![a] = [NoAgent EXCEPT !.status = "queued", !.cap = MaxThreads]]
  <2>1. new \in [Agents -> Agent] /\ mailbox' = mailbox
    BY <1>0, <1>9, QueuedAgentType DEF SpawnAgent
  <2>2. new[a].status = "queued" /\ \A b \in Agents : b # a => new[b] = agents[b]
    BY <1>0 DEF NoAgent
  <2> HIDE DEF new
  <2>3. Deadlines(new, mailbox')
    BY <2>1, <2>2 DEF Deadlines, RunningHasDeadline, With
  <2>4. CASE CanStart(Cardinality(With("running", agents)), MaxThreads)
    <3>1. PICK out \in StartOutcome :
            Affordable(<<out>>) /\ StartAgents(new, children, <<a>>, <<out>>)
      BY <1>9, <2>4 DEF SpawnAgent, new
    <3>2. a \in With("queued", new)
      BY <2>2 DEF With
    <3> QED BY <2>1, <2>3, <3>1, <3>2, SpawnRun, StartDeadlines
  <2>5. CASE ~CanStart(Cardinality(With("running", agents)), MaxThreads)
    <3>1. StartAgents(new, children, <<>>, <<>>)
      BY <1>9, <2>5 DEF SpawnAgent, new
    <3> QED BY <2>1, <2>3, <3>1, NoneRun, StartDeadlines
  <2> QED BY <2>4, <2>5
<1>10. ASSUME NEW a \in Agents, SendInput(a)
       PROVE  RunningHasDeadline'
  <2>1. agents' = [agents EXCEPT ![a].status = "running", ![a].armed = TRUE] /\ mailbox' = mailbox
    BY <1>10 DEF SendInput, Prompted
  <2>2. agents'[a].armed /\ \A b \in Agents : b # a => agents'[b] = agents[b]
    BY <1>0, <2>1 DEF Agent
  <2> QED BY <2>1, <2>2 DEF RunningHasDeadline, With, Signal
<1>11. ASSUME NEW a \in Agents, Close(a)
       PROVE  RunningHasDeadline'
  <2>1. {"cancelled", "closed"} \subseteq Terminal
    BY DEF Terminal
  <2>2. \A x \in ToSet(mailbox) : x \in ToSet(mailbox')
    BY <1>0, <1>11, InterruptType, ConcatKeeps DEF Close
  <2>3. \E status \in Terminal : \E kids : EndAgent(a, status, kids)
    BY <1>11, <2>1 DEF Close
  <2>4. PICK status \in Terminal : \E kids : EndAgent(a, status, kids)
    BY <2>3
  <2> QED BY <2>2, <2>4, EndDeadlines
<1>12. CASE RestoreParent
  <2>1. mailbox' = mailbox
    BY <1>12 DEF RestoreParent
  <2>2. ASSUME NEW a \in Agents
        PROVE  \/ agents'[a] = agents[a]
               \/ agents'[a] = RestoredAgent(a)
    BY <1>12 DEF RestoreParent
  <2>3. ASSUME NEW a \in Agents, RestoredAgent(a).status = "running"
        PROVE  RestoredAgent(a).armed
    <3>1. past[a] \in Agent /\ Reattached(a) \in BOOLEAN
      BY DEF TypeOK, Reattached
    <3> HIDE DEF Reattached
    <3> QED BY <2>3, <3>1 DEF RestoredAgent, Agent
  <2> QED BY <2>1, <2>2, <2>3 DEF RunningHasDeadline, With, Signal
<1>13. ASSUME NEW S \in SUBSET Watched, Wait(S)
       PROVE  RunningHasDeadline'
  BY <1>1, <1>13 DEF Wait
<1>14. CASE WaitTimeout
  BY <1>1, <1>14 DEF WaitTimeout
<1>15. ASSUME NEW c \in Child, ChildWorks(c)
       PROVE  RunningHasDeadline'
  BY <1>1, <1>15 DEF ChildWorks
<1>16. ASSUME NEW c \in Child, ChildPublishes(c)
       PROVE  RunningHasDeadline'
  <2>1. Event(c, children[c].said) \in Message
    BY <1>16 DEF ChildPublishes, Event, Message, ChildEvent, ChildSession, TypeOK
  <2> QED BY <1>0, <1>1, <1>16, <2>1, AppendKeeps DEF ChildPublishes
<1>17. CASE ManagerRestarts
  BY <1>17 DEF ManagerRestarts, NoAgent, RunningHasDeadline, With
<1>18. CASE UNCHANGED vars
  BY <1>1, <1>18 DEF vars
<1> QED BY <1>2, <1>3, <1>4, <1>5, <1>6, <1>7, <1>8, <1>9, <1>10, <1>11, <1>12, <1>13,
           <1>14, <1>15, <1>16, <1>17, <1>18 DEF Next, Handle, Fires, Client

\* A running agent is never left without a timeout armed or on its way,
\* through every start, retry, follow-up prompt, close and reattachment.
THEOREM RunningHasDeadlineCorrect == Spec => []RunningHasDeadline
<1>1. Init => RunningHasDeadline
  BY DEF Init, RunningHasDeadline, With, NoAgent
<1> QED BY <1>1, DeadlineStep, TypeCorrect, PTL DEF Spec

-----------------------------------------------------------------------------
(* A superseded attempt is not listened to. *)

\* Every child that is listened to is the one its agent holds, and no agent
\* in the queue is listened to.
Current(ag) ==
  \A c \in mapped : ag[c.agent].status \notin {"none", "queued"} /\ ag[c.agent].child = c.n

\* An agent is known from this process or from the Log, not from both.
PastGone(ag) == \A a \in Agents : past[a].status # "none" => ag[a].status = "none"

MapInv == Current(agents) /\ PastGone(agents)

LEMMA StartMapped ==
  ASSUME TypeOK, NEW ag, NEW kids, NEW q, NEW o, Run(ag, q, o), StartAgents(ag, kids, q, o),
         Current(ag), PastGone(ag), past' = past
  PROVE  MapInv'
<1>1. ASSUME NEW c \in mapped
      PROVE  agents'[c.agent].status \notin {"none", "queued"} /\ agents'[c.agent].child = c.n
  <2>1. c.agent \in Agents
    BY DEF TypeOK, Child
  <2>2. \A i \in 1..Len(o) : c.agent # q[i]
    BY StartFacts DEF Current, With
  <2> QED BY <2>1, <2>2, StartFacts DEF Current
<1>2. ASSUME NEW i \in 1..Len(o), o[i] = "started"
      PROVE  agents'[q[i]].status \notin {"none", "queued"} /\ agents'[q[i]].child = ag[q[i]].retry + 1
  <2>1. agents'[q[i]] = Attempted(ag[q[i]], "started") /\ ag[q[i]] \in Agent
    BY <1>2, StartFacts DEF Run, With
  <2> QED BY <2>1, AttemptedType
<1>3. \A c \in mapped' : \/ c \in mapped
                         \/ \E i \in 1..Len(o) : /\ o[i] = "started"
                                                 /\ c = [agent |-> q[i], n |-> ag[q[i]].retry + 1]
  BY DEF StartAgents
<1>4. Current(agents)'
  BY <1>1, <1>2, <1>3 DEF Current
<1>5. PastGone(agents)'
  <2> SUFFICES ASSUME NEW a \in Agents, past[a].status # "none"
               PROVE  agents'[a].status = "none"
    BY DEF PastGone
  <2>1. ag[a].status = "none"
    BY DEF PastGone
  <2>2. \A i \in 1..Len(o) : a # q[i]
    BY <2>1, StartFacts DEF With
  <2> QED BY <2>1, <2>2, StartFacts
<1> QED BY <1>4, <1>5 DEF MapInv

LEMMA QueueMapped ==
  ASSUME TypeOK, NEW ag \in [Agents -> Agent], NEW kids, StartQueued(ag, kids),
         Current(ag), PastGone(ag), past' = past
  PROVE  MapInv'
<1>1. PICK q \in Queues(ag) : \E o \in QueueRuns(ag, q) : StartAgents(ag, kids, q, o)
  BY DEF StartQueued
<1>2. PICK o \in QueueRuns(ag, q) : StartAgents(ag, kids, q, o)
  BY <1>1
<1> QED BY <1>2, QueueRun, StartMapped

LEMMA EndMapped ==
  ASSUME TypeOK, MapInv, NEW a \in Agents, agents[a].status # "none",
         NEW status \in Terminal, NEW kids, EndAgent(a, status, kids), past' = past
  PROVE  MapInv'
<1>1. \A b \in Agents : b # a => Ended(a, status)[b] = agents[b]
  BY DEF Ended, TypeOK
<1>2. /\ Ended(a, status)[a].status = status /\ status \notin {"none", "queued"}
      /\ Ended(a, status)[a].child = agents[a].child
  BY DEF Ended, TypeOK, Agent, Terminal
<1>3. \A c \in mapped : c.agent \in Agents
  BY DEF TypeOK, Child
<1>4. Current(Ended(a, status))
  BY <1>1, <1>2, <1>3 DEF MapInv, Current
<1>5. PastGone(Ended(a, status))
  BY <1>1 DEF MapInv, PastGone
<1> QED BY <1>4, <1>5, EndedType, QueueMapped DEF EndAgent

\* The child that is heard is the one its agent holds.
LEMMA HeardIsCurrent ==
  ASSUME TypeOK, MapInv, NEW e, Heard(e)
  PROVE  /\ Sender \in Agents /\ m.child \in Child /\ m.child = ChildOf(Sender)
         /\ agents[Sender].status \notin {"none", "queued"}
<1>1. m.child \in Child /\ Sender \in Agents /\ m.child \in mapped
  BY EventFacts DEF Heard
<1>2. m.child = [agent |-> m.child.agent, n |-> m.child.n]
  BY <1>1 DEF Child
<1>3. agents[Sender].child = m.child.n /\ agents[Sender].status \notin {"none", "queued"}
  BY <1>1 DEF MapInv, Current, Sender
<1> QED BY <1>1, <1>2, <1>3 DEF ChildOf, Sender

LEMMA MapStep ==
  ASSUME TypeOK, MapInv, [Next]_vars
  PROVE  MapInv'
<1>0. agents \in [Agents -> Agent] /\ mapped \subseteq Child
  BY DEF TypeOK
<1>1. ASSUME agents' = agents, mapped' = mapped, past' = past
      PROVE  MapInv'
  BY <1>1 DEF MapInv, Current, PastGone
<1>2. CASE HandleTransportFailure
  <2>1. /\ Sender \in Agents /\ m.child = ChildOf(Sender)
        /\ agents[Sender].status # "none"
    BY <1>2, HeardIsCurrent DEF HandleTransportFailure
  <2>2. agents' = [agents EXCEPT ![Sender].status = "queued", ![Sender].armed = FALSE,
                                 ![Sender].retry = agents[Sender].retry + 1]
        /\ mapped' = mapped \ {ChildOf(Sender)} /\ past' = past
    BY <1>2 DEF HandleTransportFailure, StopListening
  <2> HIDE DEF Sender
  <2>3. \A b \in Agents : b # Sender => agents'[b] = agents[b]
    BY <1>0, <2>1, <2>2
  <2>4. \A c \in mapped' : c.agent # Sender /\ c.agent \in Agents /\ c \in mapped
    <3> TAKE c \in mapped'
    <3>1. c \in mapped /\ c # ChildOf(Sender) /\ c \in Child
      BY <1>0, <2>2
    <3>2. c = [agent |-> c.agent, n |-> c.n]
      BY <3>1 DEF Child
    <3>3. c.n = agents[c.agent].child
      BY <3>1 DEF MapInv, Current
    <3> QED BY <3>1, <3>2, <3>3 DEF Child, ChildOf
  <2> QED BY <2>1, <2>2, <2>3, <2>4 DEF MapInv, Current, PastGone
<1>3. CASE HandleTurnStatus
  <2>1. Sender \in Agents /\ agents[Sender].status # "none"
    BY <1>3, HeardIsCurrent DEF HandleTurnStatus
  <2>2. PICK status \in StatusesOf(m.event) : EndAgent(Sender, status, children)
    BY <1>3 DEF HandleTurnStatus
  <2>3. status \in Terminal /\ past' = past
    BY <1>3, <2>2 DEF StatusesOf, Terminal, HandleTurnStatus
  <2> HIDE DEF Sender
  <2> QED BY <2>1, <2>2, <2>3, EndMapped
<1>4. CASE HandleOtherEvent
  BY <1>1, <1>4 DEF HandleOtherEvent
<1>5. CASE HandleTimeout
  <2>1. m.agent \in Agents
    BY <1>5, SignalFacts DEF HandleTimeout
  <2>2. CASE agents[m.agent].status = "running"
    <3>1. /\ EndAgent(m.agent, "timed_out", Interrupted(ChildOf(m.agent))) /\ past' = past
          /\ "timed_out" \in Terminal
      BY <1>5, <2>2 DEF HandleTimeout, Terminal
    <3> HIDE DEF m
    <3> QED BY <2>1, <2>2, <3>1, EndMapped
  <2>3. CASE agents[m.agent].status # "running"
    BY <1>1, <1>5, <2>3 DEF HandleTimeout
  <2> QED BY <2>2, <2>3
<1>6. CASE HandleRetry
  <2>1. CASE agents[m.agent].status = "queued"
    <3>1. StartQueued(agents, children) /\ past' = past
      BY <1>6, <2>1 DEF HandleRetry
    <3> QED BY <1>0, <3>1, QueueMapped DEF MapInv
  <2>2. CASE agents[m.agent].status # "queued"
    BY <1>1, <1>6, <2>2 DEF HandleRetry
  <2> QED BY <2>1, <2>2
<1>7. ASSUME NEW a \in Agents, TimeoutFires(a)
      PROVE  MapInv'
  <2>1. \A b \in Agents : /\ agents'[b].status = agents[b].status
                          /\ agents'[b].child = agents[b].child
    BY <1>0, <1>7 DEF TimeoutFires, Agent
  <2>2. mapped' = mapped /\ past' = past /\ \A c \in mapped : c.agent \in Agents
    BY <1>0, <1>7 DEF TimeoutFires, Child
  <2> QED BY <2>1, <2>2 DEF MapInv, Current, PastGone
<1>8. ASSUME NEW a \in Agents, RetryFires(a)
      PROVE  MapInv'
  BY <1>1, <1>8 DEF RetryFires
<1>9. ASSUME NEW a \in Agents, SpawnAgent(a)
      PROVE  MapInv'
  <2> DEFINE new == [agents EXCEPT ![a] = [NoAgent EXCEPT !.status = "queued", !.cap = MaxThreads]]
  <2>1. new \in [Agents -> Agent] /\ past' = past
    BY <1>0, <1>9, QueuedAgentType DEF SpawnAgent
  <2>2. new[a].status = "queued" /\ \A b \in Agents : b # a => new[b] = agents[b]
    BY <1>0 DEF NoAgent
  <2> HIDE DEF new
  <2>3. \A c \in mapped : c.agent \in Agents /\ c.agent # a
    BY <1>0, <1>9 DEF MapInv, Current, Child, SpawnAgent
  <2>4. Current(new) /\ PastGone(new)
    BY <1>9, <2>2, <2>3 DEF MapInv, Current, PastGone, SpawnAgent
  <2>5. CASE CanStart(Cardinality(With("running", agents)), MaxThreads)
    <3>1. PICK out \in StartOutcome :
            Affordable(<<out>>) /\ StartAgents(new, children, <<a>>, <<out>>)
      BY <1>9, <2>5 DEF SpawnAgent, new
    <3>2. a \in With("queued", new)
      BY <2>2 DEF With
    <3> QED BY <2>1, <2>4, <3>1, <3>2, SpawnRun, StartMapped
  <2>6. CASE ~CanStart(Cardinality(With("running", agents)), MaxThreads)
    <3>1. StartAgents(new, children, <<>>, <<>>)
      BY <1>9, <2>6 DEF SpawnAgent, new
    <3> QED BY <2>1, <2>4, <3>1, NoneRun, StartMapped
  <2> QED BY <2>5, <2>6
<1>10. ASSUME NEW a \in Agents, SendInput(a)
       PROVE  MapInv'
  <2>1. /\ agents' = [agents EXCEPT ![a].status = "running", ![a].armed = TRUE]
        /\ mapped' = mapped /\ past' = past /\ agents[a].status # "none"
    BY <1>10 DEF SendInput, Prompted
  <2>2. /\ agents'[a].status = "running" /\ agents'[a].child = agents[a].child
        /\ \A b \in Agents : b # a => agents'[b] = agents[b]
    BY <1>0, <2>1 DEF Agent
  <2>3. \A c \in mapped : c.agent \in Agents
    BY <1>0 DEF Child
  <2> QED BY <2>1, <2>2, <2>3 DEF MapInv, Current, PastGone
<1>11. ASSUME NEW a \in Agents, Close(a)
       PROVE  MapInv'
  <2>1. {"cancelled", "closed"} \subseteq Terminal
    BY DEF Terminal
  <2>2. past' = past /\ agents[a].status # "none"
    BY <1>11 DEF Close
  <2>3. PICK status \in Terminal : \E kids : EndAgent(a, status, kids)
    BY <1>11, <2>1 DEF Close
  <2> QED BY <2>2, <2>3, EndMapped
<1>12. CASE RestoreParent
  <2> DEFINE lost == {a \in Agents : past[a].status # "none"}
             back == {[agent |-> a, n |-> past[a].child] : a \in {b \in lost : Reattached(b)}}
  <2>1. /\ agents' = [a \in Agents |-> IF a \in lost THEN RestoredAgent(a) ELSE agents[a]]
        /\ mapped' = mapped \cup back /\ past' = [a \in Agents |-> NoAgent]
    BY <1>12 DEF RestoreParent
  <2>2. ASSUME NEW c \in mapped
        PROVE  agents'[c.agent].status \notin {"none", "queued"} /\ agents'[c.agent].child = c.n
    BY <1>0, <2>1 DEF MapInv, Current, PastGone, Child
  <2>3. ASSUME NEW a \in lost, Reattached(a)
        PROVE  agents'[a].status = "running" /\ agents'[a].child = past[a].child
    <3>1. past[a] \in Agent /\ agents'[a] = RestoredAgent(a)
      BY <2>1 DEF TypeOK
    <3> QED BY <2>3, <3>1 DEF RestoredAgent, Agent
  <2>4. Current(agents)'
    <3>1. \A c \in back : \E a \in lost : Reattached(a) /\ c = [agent |-> a, n |-> past[a].child]
      OBVIOUS
    <3> HIDE DEF back, lost
    <3> QED BY <2>1, <2>2, <2>3, <3>1 DEF Current
  <2>5. PastGone(agents)'
    BY <2>1 DEF PastGone, NoAgent
  <2> QED BY <2>4, <2>5 DEF MapInv
<1>13. ASSUME NEW S \in SUBSET Watched, Wait(S)
       PROVE  MapInv'
  BY <1>1, <1>13 DEF Wait
<1>14. CASE WaitTimeout
  BY <1>1, <1>14 DEF WaitTimeout
<1>15. ASSUME NEW c \in Child, ChildWorks(c) \/ ChildPublishes(c)
       PROVE  MapInv'
  BY <1>1, <1>15 DEF ChildWorks, ChildPublishes
<1>16. CASE ManagerRestarts
  BY <1>16 DEF ManagerRestarts, NoAgent, MapInv, Current, PastGone
<1>17. CASE UNCHANGED vars
  BY <1>1, <1>17 DEF vars
<1> QED BY <1>2, <1>3, <1>4, <1>5, <1>6, <1>7, <1>8, <1>9, <1>10, <1>11, <1>12, <1>13,
           <1>14, <1>15, <1>16, <1>17 DEF Next, Handle, Fires, Client

\* The body of SupersededAttemptIsMute.
Mute ==
  Receive("event") /\ mailbox' = Tail(mailbox) /\ spent'.restarts = spent.restarts
    => m.child = ChildOf(Sender) \/ agents'[Sender] = agents[Sender]

LEMMA MuteStep ==
  ASSUME TypeOK, MapInv, Next
  PROVE  Mute
<1> SUFFICES ASSUME Receive("event"), mailbox' = Tail(mailbox), spent'.restarts = spent.restarts
             PROVE  m.child = ChildOf(Sender) \/ agents' = agents
  BY DEF Mute
<1>1. /\ Len(Tail(mailbox)) = Len(mailbox) - 1 /\ m.op = "event"
      /\ mailbox \in Seq(Message) /\ Len(mailbox) \in Nat
  BY ReceiveFacts, LenProperties
<1>2. ~UNCHANGED mailbox
  BY <1>1
<1>3. CASE Handle
  <2>1. CASE HandleTransportFailure
    BY <2>1, HeardIsCurrent DEF HandleTransportFailure
  <2>2. CASE HandleTurnStatus
    BY <2>2, HeardIsCurrent DEF HandleTurnStatus
  <2>3. CASE HandleOtherEvent
    BY <2>3 DEF HandleOtherEvent
  <2>4. ~HandleTimeout /\ ~HandleRetry
    BY <1>1 DEF HandleTimeout, HandleRetry, Receive
  <2> QED BY <1>3, <2>1, <2>2, <2>3, <2>4 DEF Handle
<1>4. ~Fires
  <2>1. \A msg : mailbox' # Append(mailbox, msg)
    BY <1>1, <1>2, AppendProperties
  <2> QED BY <2>1 DEF Fires, TimeoutFires, RetryFires
<1>5. CASE Client
  <2>1. ASSUME NEW a \in Agents, Close(a)
        PROVE  FALSE
    <3>1. Len(mailbox \o InterruptEvents(ChildOf(a))) >= Len(mailbox)
      BY <1>1, InterruptType, ConcatProperties, LenProperties
    <3> QED BY <1>1, <1>2, <2>1, <3>1 DEF Close
  <2> QED BY <1>2, <1>5, <2>1 DEF Client, SpawnAgent, SendInput, Wait, WaitTimeout, RestoreParent
<1>6. ASSUME NEW c \in Child, ChildWorks(c) \/ ChildPublishes(c)
      PROVE  agents' = agents
  BY <1>6 DEF ChildWorks, ChildPublishes
<1>7. ~ManagerRestarts
  BY DEF ManagerRestarts, TypeOK
<1> QED BY <1>3, <1>4, <1>5, <1>6, <1>7 DEF Next

\* What a superseded attempt still has to say changes nothing: the child that
\* is listened to is always the one its agent holds.
THEOREM SupersededAttemptIsMuteCorrect == Spec => SupersededAttemptIsMute
<1>1. Init => MapInv
  BY DEF Init, MapInv, Current, PastGone, NoAgent
<1>2. TypeOK /\ MapInv /\ [Next]_vars => [Mute]_vars
  BY MuteStep
<1>3. SupersededAttemptIsMute <=> [][Mute]_vars
  BY DEF SupersededAttemptIsMute, Mute
<1> QED BY <1>1, <1>2, <1>3, MapStep, TypeCorrect, PTL DEF Spec

-----------------------------------------------------------------------------
(* Blocked clients. *)

\* Only known agents are waited for.  The one path that ends agents without
\* a look at the waiters is a wake-up whose start fails.
WaitInv ==
  /\ \A a \in waiting : agents[a].status # "none"
  /\ spent.failures = 0 => WaiterIsAnswered

Answered(ag) == waiting # {} => \E a \in waiting : ag[a].status \notin Terminal

\* Without a failed start nobody who was waited for is terminal all at once.
LEMMA StartWaiters ==
  ASSUME TypeOK, NEW ag, NEW kids \in [Child -> ChildSession], NEW q, NEW o,
         Run(ag, q, o), StartAgents(ag, kids, q, o),
         \A a \in waiting : ag[a].status # "none"
  PROVE  /\ \A a \in waiting : agents'[a].status # "none"
         /\ spent'.failures = 0 /\ (spent.failures = 0 => Answered(ag)) => Answered(agents')
<1>1. \A a \in waiting : a \in Agents
  BY DEF TypeOK
<1>2. ASSUME NEW i \in 1..Len(o)
      PROVE  /\ agents'[q[i]].status = IF o[i] = "started" THEN "running" ELSE "failed"
             /\ o[i] \in StartOutcome
  <2>1. agents'[q[i]] = Attempted(ag[q[i]], o[i]) /\ ag[q[i]] \in Agent
    BY StartFacts DEF Run, With
  <2>2. o[i] \in StartOutcome
    BY ElementOfSeq DEF Run
  <2> QED BY <2>1, <2>2, AttemptedType
<1>3. \A a \in waiting : agents'[a].status # "none"
  BY <1>1, <1>2, StartFacts
<1>4. ASSUME spent'.failures = 0
      PROVE  spent.failures = 0 /\ \A i \in 1..Len(o) : o[i] = "started"
  <2> DEFINE F == {i \in 1..Len(o) : o[i] \in {"no_session", "stopped"}}
  <2>1. IsFiniteSet(F) /\ Count(o, {"no_session", "stopped"}) = Cardinality(F)
        /\ Count(o, {"no_session", "stopped"}) \in Nat
    BY CountType DEF Run, Count
  <2>2. spent'.failures = spent.failures + Count(o, {"no_session", "stopped"})
        /\ spent.failures \in Nat
    BY DEF StartAgents, TypeOK
  <2>3. spent.failures = 0 /\ Cardinality(F) = 0
    BY <1>4, <2>1, <2>2
  <2>4. F = {}
    BY <2>1, <2>3, FS_EmptySet
  <2> QED BY <1>2, <2>3, <2>4 DEF StartOutcome
<1>5. ASSUME spent'.failures = 0, spent.failures = 0 => Answered(ag), waiting # {}
      PROVE  \E a \in waiting : agents'[a].status \notin Terminal
  <2>1. PICK a \in waiting : ag[a].status \notin Terminal
    BY <1>4, <1>5 DEF Answered
  <2>2. \/ agents'[a] = ag[a]
        \/ \E i \in 1..Len(o) : a = q[i]
    BY <1>1, <2>1, StartFacts
  <2>3. (\E i \in 1..Len(o) : a = q[i]) => agents'[a].status = "running"
    BY <1>2, <1>4, <1>5
  <2> QED BY <2>1, <2>2, <2>3 DEF Terminal
<1> QED BY <1>3, <1>5 DEF Answered

LEMMA EndWaiters ==
  ASSUME TypeOK, WaitInv, NEW a \in Agents, NEW status \in Terminal,
         NEW kids \in [Child -> ChildSession], EndAgent(a, status, kids)
  PROVE  WaitInv'
<1> DEFINE ag == Ended(a, status)
<1>1. ag \in [Agents -> Agent]
  BY EndedType
<1>2. PICK q \in Queues(ag) : \E o \in QueueRuns(ag, q) : StartAgents(ag, kids, q, o)
  BY DEF EndAgent, StartQueued
<1>3. PICK o \in QueueRuns(ag, q) : StartAgents(ag, kids, q, o)
  BY <1>2
<1>4. \A b \in waiting : ag[b].status # "none"
  <2>1. /\ ag[a].status = status /\ status # "none"
        /\ \A b \in Agents : b # a => ag[b] = agents[b]
    BY DEF Ended, TypeOK, Agent, Terminal
  <2> QED BY <2>1 DEF WaitInv, TypeOK
<1>5. \A b \in waiting : agents'[b].status # "none"
  <2> HIDE DEF ag
  <2> QED BY <1>1, <1>3, <1>4, QueueRun, StartWaiters
<1>6. waiting' = IF \A b \in waiting : agents'[b].status \in Terminal THEN {} ELSE waiting
  BY DEF EndAgent, ReplyWaiters
<1> QED BY <1>5, <1>6 DEF WaitInv, WaiterIsAnswered

LEMMA WaitStep ==
  ASSUME TypeOK, MapInv, WaitInv, [Next]_vars
  PROVE  WaitInv'
<1>0. /\ agents \in [Agents -> Agent] /\ children \in [Child -> ChildSession]
      /\ waiting \subseteq Agents
  BY DEF TypeOK
\* Agents whose statuses are what they were, or went from one that is not
\* terminal to another.
<1>1. ASSUME waiting' = waiting, spent'.failures = spent.failures,
             \A a \in waiting : /\ agents'[a].status # "none"
                                /\ agents[a].status \notin Terminal => agents'[a].status \notin Terminal
      PROVE  WaitInv'
  BY <1>1 DEF WaitInv, WaiterIsAnswered
<1>2. ASSUME waiting' = waiting, spent' = spent, agents' = agents
      PROVE  WaitInv'
  BY <1>1, <1>2 DEF WaitInv
<1>3. CASE HandleTransportFailure
  <2>1. Sender \in Agents
    BY <1>3, HeardIsCurrent DEF HandleTransportFailure
  <2>2. agents' = [agents EXCEPT ![Sender].status = "queued", ![Sender].armed = FALSE,
                                 ![Sender].retry = agents[Sender].retry + 1]
        /\ waiting' = waiting /\ spent' = spent
    BY <1>3 DEF HandleTransportFailure
  <2> HIDE DEF Sender
  <2>3. /\ agents'[Sender].status = "queued"
        /\ \A b \in Agents : b # Sender => agents'[b] = agents[b]
    BY <1>0, <2>1, <2>2 DEF Agent
  <2> QED BY <1>0, <1>1, <2>2, <2>3 DEF WaitInv, Terminal
<1>4. CASE HandleTurnStatus
  <2>1. Sender \in Agents
    BY <1>4, HeardIsCurrent DEF HandleTurnStatus
  <2>2. PICK status \in StatusesOf(m.event) : EndAgent(Sender, status, children)
    BY <1>4 DEF HandleTurnStatus
  <2>3. status \in Terminal
    BY <2>2 DEF StatusesOf, Terminal
  <2> HIDE DEF Sender
  <2> QED BY <1>0, <2>1, <2>2, <2>3, EndWaiters
<1>5. CASE HandleTimeout
  <2>1. CASE agents[m.agent].status = "running"
    <3>1. /\ EndAgent(m.agent, "timed_out", Interrupted(ChildOf(m.agent)))
          /\ "timed_out" \in Terminal
      BY <1>5, <2>1 DEF HandleTimeout, Terminal
    <3>2. m.agent \in Agents
      BY <1>5, SignalFacts DEF HandleTimeout
    <3>3. Interrupted(ChildOf(m.agent)) \in [Child -> ChildSession]
      BY InterruptType
    <3> HIDE DEF m
    <3> QED BY <3>1, <3>2, <3>3, EndWaiters
  <2>2. CASE agents[m.agent].status # "running"
    BY <1>2, <1>5, <2>2 DEF HandleTimeout
  <2> QED BY <2>1, <2>2
<1>6. CASE HandleRetry
  <2>1. CASE agents[m.agent].status = "queued"
    <3>1. StartQueued(agents, children) /\ waiting' = waiting
      BY <1>6, <2>1 DEF HandleRetry
    <3>2. PICK q \in Queues(agents) : \E o \in QueueRuns(agents, q) :
                 StartAgents(agents, children, q, o)
      BY <3>1 DEF StartQueued
    <3>3. PICK o \in QueueRuns(agents, q) : StartAgents(agents, children, q, o)
      BY <3>2
    <3>4. /\ \A a \in waiting : agents'[a].status # "none"
          /\ spent'.failures = 0 /\ (spent.failures = 0 => Answered(agents)) => Answered(agents')
      BY <1>0, <3>3, QueueRun, StartWaiters DEF WaitInv
    <3> QED BY <3>1, <3>4 DEF WaitInv, WaiterIsAnswered, Answered
  <2>2. CASE agents[m.agent].status # "queued"
    BY <1>2, <1>6, <2>2 DEF HandleRetry
  <2> QED BY <2>1, <2>2
<1>7. ASSUME NEW a \in Agents, SpawnAgent(a)
      PROVE  WaitInv'
  <2> DEFINE new == [agents EXCEPT ![a] = [NoAgent EXCEPT !.status = "queued", !.cap = MaxThreads]]
  <2>1. new \in [Agents -> Agent] /\ waiting' = waiting
    BY <1>0, <1>7, QueuedAgentType DEF SpawnAgent
  <2>2. new[a].status = "queued" /\ \A b \in Agents : b # a => new[b] = agents[b]
    BY <1>0 DEF NoAgent
  <2> HIDE DEF new
  <2>3. a \notin waiting
    BY <1>7 DEF SpawnAgent, WaitInv
  <2>4. PICK q, o : Run(new, q, o) /\ StartAgents(new, children, q, o)
    <3>1. CASE CanStart(Cardinality(With("running", agents)), MaxThreads)
      <4>1. PICK out \in StartOutcome :
              Affordable(<<out>>) /\ StartAgents(new, children, <<a>>, <<out>>)
        BY <1>7, <3>1 DEF SpawnAgent, new
      <4>2. a \in With("queued", new)
        BY <2>2 DEF With
      <4>3. Run(new, <<a>>, <<out>>)
        BY <2>1, <4>1, <4>2, SpawnRun
      <4> QED BY <4>1, <4>3
    <3>2. CASE ~CanStart(Cardinality(With("running", agents)), MaxThreads)
      <4>1. StartAgents(new, children, <<>>, <<>>)
        BY <1>7, <3>2 DEF SpawnAgent, new
      <4> QED BY <2>1, <4>1, NoneRun
    <3> QED BY <3>1, <3>2
  <2>5. \A b \in waiting : new[b] = agents[b]
    BY <1>0, <2>2, <2>3
  <2>6. /\ \A b \in waiting : agents'[b].status # "none"
        /\ spent'.failures = 0 /\ (spent.failures = 0 => Answered(new)) => Answered(agents')
    BY <1>0, <2>4, <2>5, StartWaiters DEF WaitInv
  <2>7. spent.failures = 0 => Answered(new)
    BY <2>5 DEF WaitInv, WaiterIsAnswered, Answered
  <2> QED BY <2>1, <2>6, <2>7 DEF WaitInv, WaiterIsAnswered, Answered
<1>8. ASSUME NEW a \in Agents, SendInput(a)
      PROVE  WaitInv'
  <2>1. /\ agents' = [agents EXCEPT ![a].status = "running", ![a].armed = TRUE]
        /\ waiting' = waiting /\ spent'.failures = spent.failures
    BY <1>8 DEF SendInput, Prompted, TypeOK
  <2>2. /\ agents'[a].status = "running"
        /\ \A b \in Agents : b # a => agents'[b] = agents[b]
    BY <1>0, <2>1 DEF Agent
  <2> QED BY <1>0, <1>1, <2>1, <2>2 DEF WaitInv, Terminal
<1>9. ASSUME NEW a \in Agents, Close(a)
      PROVE  WaitInv'
  <2>1. {"cancelled", "closed"} \subseteq Terminal
    BY DEF Terminal
  <2>2. Interrupted(ChildOf(a)) \in [Child -> ChildSession]
    BY InterruptType
  <2> QED BY <1>0, <1>9, <2>1, <2>2, EndWaiters DEF Close
<1>10. ASSUME NEW a \in Agents, TimeoutFires(a)
       PROVE  WaitInv'
  <2>1. \A b \in Agents : agents'[b].status = agents[b].status
    BY <1>0, <1>10 DEF TimeoutFires, Agent
  <2> QED BY <1>0, <1>1, <1>10, <2>1 DEF TimeoutFires, WaitInv
<1>11. CASE RestoreParent
  <2>1. \A a \in waiting : past[a].status = "none"
    BY <1>0 DEF MapInv, PastGone, WaitInv
  <2>2. \A a \in waiting : agents'[a] = agents[a]
    BY <1>0, <1>11, <2>1 DEF RestoreParent
  <2>3. waiting' = waiting /\ spent' = spent
    BY <1>11 DEF RestoreParent
  <2> QED BY <1>1, <2>2, <2>3 DEF WaitInv
<1>12. ASSUME NEW S \in SUBSET Watched, Wait(S)
       PROVE  WaitInv'
  BY <1>12 DEF Wait, WaitInv, WaiterIsAnswered
<1>13. CASE WaitTimeout \/ ManagerRestarts
  BY <1>13 DEF WaitTimeout, ManagerRestarts, WaitInv, WaiterIsAnswered
<1>14. CASE HandleOtherEvent \/ UNCHANGED vars
  BY <1>2, <1>14 DEF HandleOtherEvent, vars
<1>15. ASSUME NEW a \in Agents, RetryFires(a)
       PROVE  WaitInv'
  BY <1>2, <1>15 DEF RetryFires
<1>16. ASSUME NEW c \in Child, ChildWorks(c) \/ ChildPublishes(c)
       PROVE  WaitInv'
  BY <1>2, <1>16 DEF ChildWorks, ChildPublishes
<1> QED BY <1>3, <1>4, <1>5, <1>6, <1>7, <1>8, <1>9, <1>10, <1>11, <1>12, <1>13,
           <1>14, <1>15, <1>16 DEF Next, Handle, Fires, Client

\* As long as no child start has failed, no client is left blocked on agents
\* that are all terminal: every other path that ends one answers it, and a
\* retry or a follow-up prompt that revives an agent keeps it waiting.
THEOREM WaiterIsAnsweredCorrect == Spec => [](spent.failures = 0 => WaiterIsAnswered)
<1>1. Init => MapInv /\ WaitInv
  BY DEF Init, MapInv, Current, PastGone, NoAgent, WaitInv, WaiterIsAnswered
<1>2. WaitInv => (spent.failures = 0 => WaiterIsAnswered)
  BY DEF WaitInv
<1> QED BY <1>1, <1>2, MapStep, WaitStep, TypeCorrect, PTL DEF Spec
-----------------------------------------------------------------------------
(* No Turn runs on behind its agent. *)

\* Whoever has spoken, or is about to, has left "run".
Late == {"failing", "ending", "idle", "stopped"}

SaidLate(kids) == \A c \in Child : kids[c].said # "none" => kids[c].turn \in Late

HeardLate(kids, mail) ==
  \A x \in ToSet(mail) : x.op = "event" => kids[x.child].turn \in Late

\* What is known of an agent, in this process or in the Log.
Record(ag, a) == IF ag[a].status # "none" THEN ag[a] ELSE past[a]

\* Child Sessions belong to attempts that were made: the next attempt of an
\* agent in the queue has none yet.
Born(ag, kids) ==
  \A c \in Child : kids[c].turn # "none" =>
    /\ Record(ag, c.agent).status # "none"
    /\ Record(ag, c.agent).status = "queued" => c.n <= Record(ag, c.agent).retry
    /\ c.n <= Record(ag, c.agent).retry + 1

Held(ag, kids) ==
  \A c \in Child : kids[c].turn = "run" =>
    \/ ag[c.agent].status = "running" /\ ag[c.agent].child = c.n
    \/ ~restored /\ past[c.agent].status = "running" /\ past[c.agent].child = c.n

OrphanInv ==
  /\ SaidLate(children)
  /\ Born(agents, children)
  /\ spent.inputs = 0 => Held(agents, children) /\ HeardLate(children, mailbox)

LEMMA MailFacts ==
  ASSUME NEW s \in Seq(Message), NEW t \in Seq(Message)
  PROVE  /\ s # <<>> => ToSet(Tail(s)) \subseteq ToSet(s)
         /\ s # <<>> => Head(s) \in ToSet(s)
         /\ ToSet(s \o t) \subseteq ToSet(s) \cup ToSet(t)
         /\ \A x \in Message : ToSet(Append(s, x)) \subseteq ToSet(s) \cup {x}
<1>0. /\ Len(s) \in Nat /\ Len(t) \in Nat
      /\ DOMAIN s = 1..Len(s) /\ DOMAIN t = 1..Len(t)
  BY LenProperties
<1>1. ASSUME s # <<>>
      PROVE  ToSet(Tail(s)) \subseteq ToSet(s) /\ Head(s) \in ToSet(s)
  <2>1. Len(s) > 0 /\ Tail(s) \in Seq(Message) /\ Len(Tail(s)) = Len(s) - 1
    BY <1>0, <1>1
  <2>2. \A i \in 1..Len(Tail(s)) : Tail(s)[i] = s[i+1] /\ i + 1 \in 1..Len(s)
    BY <1>0, <2>1
  <2>3. DOMAIN Tail(s) = 1..Len(Tail(s)) /\ 1 \in 1..Len(s) /\ Head(s) = s[1]
    BY <1>0, <2>1, LenProperties
  <2> QED BY <1>0, <2>2, <2>3 DEF ToSet
<1>2. ToSet(s \o t) \subseteq ToSet(s) \cup ToSet(t)
  <2>1. s \o t \in Seq(Message) /\ Len(s \o t) = Len(s) + Len(t)
    BY ConcatProperties
  <2>2. ASSUME NEW i \in 1..Len(s \o t)
        PROVE  \/ \E j \in 1..Len(s) : (s \o t)[i] = s[j]
               \/ \E j \in 1..Len(t) : (s \o t)[i] = t[j]
    <3>1. CASE i <= Len(s)
      BY <1>0, <2>1, <3>1
    <3>2. CASE i > Len(s)
      <4>1. (s \o t)[i] = t[i - Len(s)] /\ i - Len(s) \in 1..Len(t)
        BY <1>0, <2>1, <3>2
      <4> QED BY <4>1
    <3> QED BY <1>0, <2>1, <3>1, <3>2
  <2>3. DOMAIN (s \o t) = 1..Len(s \o t)
    BY <2>1, LenProperties
  <2> QED BY <1>0, <2>2, <2>3 DEF ToSet
<1>3. ASSUME NEW x \in Message
      PROVE  ToSet(Append(s, x)) \subseteq ToSet(s) \cup {x}
  <2>1. /\ Append(s, x) \in Seq(Message) /\ Len(Append(s, x)) = Len(s) + 1
        /\ \A i \in 1..Len(s) : Append(s, x)[i] = s[i]
        /\ Append(s, x)[Len(s) + 1] = x
    BY AppendProperties
  <2>2. DOMAIN Append(s, x) = 1..Len(s) + 1
    BY <2>1, LenProperties
  <2>3. \A i \in 1..Len(s) + 1 : i \in 1..Len(s) \/ i = Len(s) + 1
    BY <1>0
  <2> QED BY <1>0, <2>1, <2>2, <2>3 DEF ToSet
<1> QED BY <1>1, <1>2, <1>3

\* A started child is a new one: nobody has heard of it.
LEMMA StartOrphans ==
  ASSUME TypeOK, NEW ag, NEW kids \in [Child -> ChildSession], NEW q, NEW o,
         Run(ag, q, o), StartAgents(ag, kids, q, o), past' = past, restored' = restored,
         mailbox' \in Seq(Message), SaidLate(kids), Born(ag, kids),
         spent.inputs = 0 => Held(ag, kids) /\ HeardLate(kids, mailbox')
  PROVE  OrphanInv'
<1> DEFINE New == {c \in Child : \E i \in 1..Len(o) : c = [agent |-> q[i], n |-> ag[q[i]].retry + 1]}
<1>1. ASSUME NEW i \in 1..Len(o)
      PROVE  /\ q[i] \in Agents /\ ag[q[i]].status = "queued"
             /\ ag[q[i]] \in Agent /\ ag[q[i]].retry \in Nat
             /\ agents'[q[i]].status = IF o[i] = "started" THEN "running" ELSE "failed"
             /\ agents'[q[i]].retry = ag[q[i]].retry
             /\ o[i] = "started" => agents'[q[i]].child = ag[q[i]].retry + 1
  <2>1. /\ agents'[q[i]] = Attempted(ag[q[i]], o[i]) /\ ag[q[i]] \in Agent
        /\ q[i] \in Agents /\ ag[q[i]].status = "queued"
    <3>1. q[i] \in With("queued", ag) /\ agents'[q[i]] = Attempted(ag[q[i]], o[i])
      BY StartFacts
    <3>2. ag \in [Agents -> Agent]
      BY DEF Run
    <3> QED BY <3>1, <3>2 DEF With
  <2>2. agents'[q[i]].retry = ag[q[i]].retry /\ ag[q[i]].retry \in Nat
    BY <2>1 DEF Attempted, Agent
  <2> QED BY <2>1, <2>2, AttemptedType
<1>2. ASSUME NEW c \in New
      PROVE  kids[c].turn = "none" /\ c \in Child
  <2>1. PICK i \in 1..Len(o) : c = [agent |-> q[i], n |-> ag[q[i]].retry + 1]
    OBVIOUS
  <2>2. Record(ag, c.agent) = ag[q[i]] /\ c.agent = q[i] /\ c.n = ag[q[i]].retry + 1
    BY <1>1, <2>1 DEF Record
  <2>3. ag[q[i]].status = "queued" /\ ag[q[i]].retry \in Nat
    BY <1>1
  <2>4. ~(c.n <= ag[q[i]].retry)
    BY <2>2, <2>3
  <2> QED BY <2>2, <2>3, <2>4 DEF Born
<1>3. ASSUME NEW c \in Child
      PROVE  \/ children'[c] = kids[c]
             \/ /\ children'[c].said = "none" /\ kids[c].turn = "none"
                /\ children'[c].turn \in {"run", "stopped"}
                /\ \E i \in 1..Len(o) : /\ c = [agent |-> q[i], n |-> ag[q[i]].retry + 1]
                                        /\ children'[c].turn = "run" => o[i] = "started"
  <2> DEFINE ChildAt(i) == [agent |-> q[i], n |-> ag[q[i]].retry + 1]
             Born1(outcome) == {ChildAt(i) : i \in {j \in 1..Len(o) : o[j] = outcome}}
  <2>1. children' = [d \in Child |->
           IF d \in Born1("started") THEN [turn |-> "run", said |-> "none"]
           ELSE IF d \in Born1("stopped") THEN [turn |-> "stopped", said |-> "none"]
           ELSE kids[d]]
    BY DEF StartAgents
  <2>2. children'[c] = IF c \in Born1("started") THEN [turn |-> "run", said |-> "none"]
                       ELSE IF c \in Born1("stopped") THEN [turn |-> "stopped", said |-> "none"]
                       ELSE kids[c]
    <3> HIDE DEF Born1
    <3> QED BY <2>1
  <2>3. \A outcome : c \in Born1(outcome) =>
           \E i \in 1..Len(o) : c = [agent |-> q[i], n |-> ag[q[i]].retry + 1] /\ o[i] = outcome
    OBVIOUS
  <2> HIDE DEF Born1
  <2>4. CASE c \in Born1("started")
    <3>1. children'[c].turn = "run" /\ children'[c].said = "none"
      BY <2>2, <2>4
    <3>2. PICK i \in 1..Len(o) : c = [agent |-> q[i], n |-> ag[q[i]].retry + 1] /\ o[i] = "started"
      BY <2>3, <2>4
    <3> QED BY <3>1, <3>2, <1>2
  <2>5. CASE c \notin Born1("started") /\ c \in Born1("stopped")
    <3>1. children'[c].turn = "stopped" /\ children'[c].said = "none"
      BY <2>2, <2>5
    <3>2. PICK i \in 1..Len(o) : c = [agent |-> q[i], n |-> ag[q[i]].retry + 1]
      BY <2>3, <2>5
    <3> QED BY <3>1, <3>2, <1>2
  <2> QED BY <2>2, <2>4, <2>5
<1> HIDE DEF New
<1>4. SaidLate(children)'
  BY <1>3 DEF SaidLate
\* Agents that are not started keep their record.
<1>5. \A a \in Agents : \/ Record(ag, a)' = Record(ag, a) /\ agents'[a] = ag[a]
                        \/ \E i \in 1..Len(o) : a = q[i]
  BY StartFacts DEF Record
<1>6. Born(agents, children)'
  <2> SUFFICES ASSUME NEW c \in Child, children'[c].turn # "none"
               PROVE  /\ Record(agents, c.agent)'.status # "none"
                      /\ Record(agents, c.agent)'.status = "queued" => c.n <= Record(agents, c.agent)'.retry
                      /\ c.n <= Record(agents, c.agent)'.retry + 1
    BY DEF Born
  <2>1. c.agent \in Agents /\ c.n \in Nat
    BY ManagerAssumption DEF Child
  <2>2. ASSUME NEW i \in 1..Len(o), c.agent = q[i], c.n <= ag[q[i]].retry + 1
        PROVE  /\ Record(agents, c.agent)'.status \notin {"none", "queued"}
               /\ c.n <= Record(agents, c.agent)'.retry + 1
    BY <1>1, <2>2 DEF Record
  <2>3. CASE \E i \in 1..Len(o) : c.agent = q[i]
    <3>1. PICK i \in 1..Len(o) : c.agent = q[i]
      BY <2>3
    <3>2. ag[q[i]].retry \in Nat /\ Record(ag, c.agent) = ag[q[i]]
      BY <1>1, <3>1 DEF Record
    <3>3. c.n <= ag[q[i]].retry + 1
      <4>1. CASE kids[c].turn # "none"
        BY <3>1, <3>2, <4>1 DEF Born
      <4>2. CASE kids[c].turn = "none"
        <5>1. PICK j \in 1..Len(o) : c = [agent |-> q[j], n |-> ag[q[j]].retry + 1]
          BY <1>3, <4>2
        <5>2. q[j] = q[i] /\ c.n = ag[q[j]].retry + 1
          BY <3>1, <5>1
        <5> QED BY <2>1, <3>2, <5>2
      <4> QED BY <4>1, <4>2
    <3> QED BY <2>2, <3>1, <3>3
  <2>4. CASE ~\E i \in 1..Len(o) : c.agent = q[i]
    <3>1. kids[c].turn # "none"
      BY <1>3, <2>4
    <3>2. agents'[c.agent] = ag[c.agent]
      BY <2>1, <2>4, StartFacts
    <3>3. Record(agents, c.agent)' = Record(ag, c.agent)
      BY <3>2 DEF Record
    <3> QED BY <3>1, <3>3 DEF Born
  <2> QED BY <2>3, <2>4
<1>7. ASSUME spent.inputs = 0
      PROVE  Held(agents, children)'
  <2> SUFFICES ASSUME NEW c \in Child, children'[c].turn = "run"
               PROVE  \/ agents'[c.agent].status = "running" /\ agents'[c.agent].child = c.n
                      \/ ~restored /\ past[c.agent].status = "running" /\ past[c.agent].child = c.n
    BY DEF Held
  <2>1. CASE kids[c].turn = "run"
    <3>1. \/ ag[c.agent].status = "running" /\ ag[c.agent].child = c.n
          \/ ~restored /\ past[c.agent].status = "running" /\ past[c.agent].child = c.n
      BY <1>7, <2>1 DEF Held
    <3>2. ag[c.agent].status = "running" => agents'[c.agent] = ag[c.agent]
      BY <1>1, StartFacts DEF Child
    <3> QED BY <3>1, <3>2
  <2>2. CASE kids[c].turn # "run"
    <3>1. PICK i \in 1..Len(o) : c = [agent |-> q[i], n |-> ag[q[i]].retry + 1] /\ o[i] = "started"
      BY <1>3, <2>2
    <3>2. c.agent = q[i] /\ c.n = ag[q[i]].retry + 1
      BY <3>1
    <3> QED BY <1>1, <3>1, <3>2
  <2> QED BY <2>1, <2>2
<1>8. ASSUME spent.inputs = 0
      PROVE  HeardLate(children, mailbox)'
  <2> SUFFICES ASSUME NEW x \in ToSet(mailbox'), x.op = "event"
               PROVE  children'[x.child].turn \in Late
    BY DEF HeardLate
  <2>1. x \in Message
    BY LenProperties DEF ToSet
  <2>2. x.child \in Child
    BY <2>1 DEF Message
  <2>3. kids[x.child].turn \in Late
    BY <1>8 DEF HeardLate
  <2> QED BY <1>3, <2>2, <2>3 DEF Late
<1>9. spent'.inputs = spent.inputs
  BY StartType
<1> QED BY <1>4, <1>6, <1>7, <1>8, <1>9 DEF OrphanInv

LEMMA QueueOrphans ==
  ASSUME TypeOK, NEW ag \in [Agents -> Agent], NEW kids \in [Child -> ChildSession],
         StartQueued(ag, kids), past' = past, restored' = restored,
         mailbox' \in Seq(Message), SaidLate(kids), Born(ag, kids),
         spent.inputs = 0 => Held(ag, kids) /\ HeardLate(kids, mailbox')
  PROVE  OrphanInv'
<1>1. PICK q \in Queues(ag) : \E o \in QueueRuns(ag, q) : StartAgents(ag, kids, q, o)
  BY DEF StartQueued
<1>2. PICK o \in QueueRuns(ag, q) : StartAgents(ag, kids, q, o)
  BY <1>1
<1> QED BY <1>2, QueueRun, StartOrphans

\* An agent may end once none of its children runs a Turn.
LEMMA EndOrphans ==
  ASSUME TypeOK, OrphanInv, NEW a \in Agents, agents[a].status # "none",
         NEW status \in Terminal, NEW kids \in [Child -> ChildSession],
         EndAgent(a, status, kids), past' = past, restored' = restored,
         mailbox' \in Seq(Message), SaidLate(kids),
         \A c \in Child : /\ kids[c].turn = "none" <=> children[c].turn = "none"
                          /\ kids[c].turn = "run" => children[c].turn = "run",
         spent.inputs = 0 => /\ \A c \in Child : c.agent = a => kids[c].turn # "run"
                             /\ HeardLate(kids, mailbox')
  PROVE  OrphanInv'
<1> DEFINE ag == Ended(a, status)
<1>1. ag \in [Agents -> Agent]
  BY EndedType
<1>2. /\ ag[a].status = status /\ status \notin {"none", "queued"}
      /\ ag[a].retry = agents[a].retry
      /\ \A b \in Agents : b # a => ag[b] = agents[b]
  BY DEF Ended, TypeOK, Agent, Terminal
<1>3. StartQueued(ag, kids)
  BY DEF EndAgent
<1> HIDE DEF ag
<1>4. \A c \in Child : c.agent \in Agents
  BY DEF Child
<1>5. Born(ag, kids)
  <2> SUFFICES ASSUME NEW c \in Child, kids[c].turn # "none"
               PROVE  /\ Record(ag, c.agent).status # "none"
                      /\ Record(ag, c.agent).status = "queued" => c.n <= Record(ag, c.agent).retry
                      /\ c.n <= Record(ag, c.agent).retry + 1
    BY DEF Born
  <2>1. /\ Record(agents, c.agent).status # "none"
        /\ Record(agents, c.agent).status = "queued" => c.n <= Record(agents, c.agent).retry
        /\ c.n <= Record(agents, c.agent).retry + 1
    BY DEF OrphanInv, Born
  <2>2. CASE c.agent = a
    BY <1>2, <2>1, <2>2 DEF Record
  <2>3. CASE c.agent # a
    BY <1>2, <1>4, <2>1, <2>3 DEF Record
  <2> QED BY <2>2, <2>3
<1>6. spent.inputs = 0 => Held(ag, kids)
  BY <1>2, <1>4 DEF OrphanInv, Held
<1> QED BY <1>1, <1>3, <1>5, <1>6, QueueOrphans

\* An interrupt leaves no Turn behind, and its event tells of no running one.
LEMMA InterruptOrphans ==
  ASSUME TypeOK, OrphanInv, MapInv, NEW a \in Agents, agents[a].status = "running",
         NEW mail \in Seq(Message), ToSet(mail) \subseteq ToSet(mailbox)
  PROVE  LET kids == Interrupted(ChildOf(a))
             sent == mail \o InterruptEvents(ChildOf(a))
         IN /\ kids \in [Child -> ChildSession]
            /\ sent \in Seq(Message)
            /\ SaidLate(kids)
            /\ \A c \in Child : /\ kids[c].turn = "none" <=> children[c].turn = "none"
                                /\ kids[c].turn = "run" => children[c].turn = "run"
            /\ spent.inputs = 0 => /\ \A c \in Child : c.agent = a => kids[c].turn # "run"
                                   /\ HeardLate(kids, sent)
<1> DEFINE kid == ChildOf(a)
           kids == Interrupted(kid)
           events == InterruptEvents(kid)
           sent == mail \o events
<1>1. kids \in [Child -> ChildSession] /\ events \in Seq(Message)
  BY InterruptType
<1>2. sent \in Seq(Message)
  BY <1>1, ConcatProperties
<1>3. ASSUME NEW c \in Child
      PROVE  /\ kids[c].said = children[c].said
             /\ c # kid => kids[c] = children[c]
             /\ kids[c].turn = children[c].turn \/ (kids[c].turn = "idle" /\ children[c].turn \in Busy)
             /\ kids[kid].turn # "run" \/ c # kid
  BY DEF TypeOK, Interrupted, ChildSession, Busy
<1>4. SaidLate(kids)
  BY <1>3 DEF OrphanInv, SaidLate, Late
<1>5. \A c \in Child : /\ kids[c].turn = "none" <=> children[c].turn = "none"
                       /\ kids[c].turn = "run" => children[c].turn = "run"
  BY <1>3 DEF Busy
<1>6. ASSUME spent.inputs = 0, NEW c \in Child, c.agent = a, kids[c].turn = "run"
      PROVE  FALSE
  <2>1. children[c].turn = "run" /\ past[a].status = "none"
    BY <1>5, <1>6 DEF MapInv, PastGone
  <2>2. agents[a].child = c.n
    BY <1>6, <2>1 DEF OrphanInv, Held
  <2>3. c = kid
    BY <1>6, <2>2 DEF Child, ChildOf
  <2> QED BY <1>3, <1>6, <2>3
<1>7. ASSUME spent.inputs = 0
      PROVE  HeardLate(kids, sent)
  <2> SUFFICES ASSUME NEW x \in ToSet(sent), x.op = "event"
               PROVE  kids[x.child].turn \in Late
    BY DEF HeardLate
  <2>1. x \in ToSet(mailbox) \/ x \in ToSet(events)
    BY <1>1, MailFacts
  <2>2. CASE x \in ToSet(mailbox)
    <3>1. x \in Message
      BY <2>2, LenProperties DEF ToSet, TypeOK
    <3>2. x.child \in Child
      BY <3>1 DEF Message
    <3>3. children[x.child].turn \in Late
      BY <1>7, <2>2 DEF OrphanInv, HeardLate
    <3> QED BY <1>3, <3>2, <3>3 DEF Late
  <2>3. CASE x \in ToSet(events)
    <3>1. children[kid].turn \in Busy /\ kid \in subscribed /\ x = Event(kid, "interrupted")
      BY <2>3 DEF InterruptEvents, ToSet
    <3>2. kid \in Child /\ x.child = kid
      BY <3>1 DEF TypeOK, Event
    <3>3. kids[kid].turn = "idle"
      BY <3>1, <3>2 DEF Interrupted, TypeOK, ChildSession
    <3> QED BY <3>2, <3>3 DEF Late
  <2> QED BY <2>1, <2>2, <2>3
<1> QED BY <1>1, <1>2, <1>4, <1>5, <1>6, <1>7

LEMMA OrphanStep ==
  ASSUME TypeOK, MapInv, OrphanInv, [Next]_vars
  PROVE  OrphanInv'
<1>0. /\ agents \in [Agents -> Agent] /\ children \in [Child -> ChildSession]
      /\ past \in [Agents -> Agent] /\ mailbox \in Seq(Message) /\ spent.inputs \in Nat
      /\ \A c \in Child : c.agent \in Agents
  BY DEF TypeOK, Child
<1>a. \A x \in ToSet(mailbox) : x.op = "event" => x.child \in Child
  BY <1>0, LenProperties DEF ToSet, Message
\* Steps that move no agent and leave nothing new in the mailbox.
<1>1. ASSUME agents' = agents, children' = children, past' = past, restored' = restored,
             spent' = spent, ToSet(mailbox') \subseteq ToSet(mailbox)
      PROVE  OrphanInv'
  BY <1>1 DEF OrphanInv, SaidLate, Born, Record, Held, HeardLate
<1>2. CASE HandleTransportFailure
  <2>1. /\ Sender \in Agents /\ m.child = ChildOf(Sender) /\ m.child \in Child
        /\ agents[Sender].status \notin {"none", "queued"} /\ Receive("event")
    BY <1>2, HeardIsCurrent DEF HandleTransportFailure, Heard
  <2>2. /\ agents' = [agents EXCEPT ![Sender].status = "queued", ![Sender].armed = FALSE,
                                    ![Sender].retry = agents[Sender].retry + 1]
        /\ UNCHANGED <<children, past, restored, spent>> /\ mailbox' = Tail(mailbox)
    BY <1>2 DEF HandleTransportFailure
  <2>3. m \in ToSet(mailbox) /\ m.op = "event" /\ ToSet(mailbox') \subseteq ToSet(mailbox)
    BY <1>0, <2>1, <2>2, MailFacts DEF Receive, m
  <2>4. spent.inputs = 0 => children[ChildOf(Sender)].turn \in Late
    BY <2>1, <2>3 DEF OrphanInv, HeardLate
  <2>5. \A c \in Child : c.agent = Sender /\ c.n = agents[Sender].child => c = ChildOf(Sender)
    BY DEF Child, ChildOf
  <2>6. past[Sender].status = "none"
    BY <2>1 DEF MapInv, PastGone
  <2> HIDE DEF Sender, m
  <2>7. /\ agents'[Sender].status = "queued" /\ agents'[Sender].retry = agents[Sender].retry + 1
        /\ \A b \in Agents : b # Sender => agents'[b] = agents[b]
    BY <1>0, <2>1, <2>2 DEF Agent
  <2>8. Born(agents, children)'
    <3> SUFFICES ASSUME NEW c \in Child, children[c].turn # "none"
                 PROVE  /\ Record(agents, c.agent)'.status # "none"
                        /\ Record(agents, c.agent)'.status = "queued" => c.n <= Record(agents, c.agent)'.retry
                        /\ c.n <= Record(agents, c.agent)'.retry + 1
      BY <2>2 DEF Born
    <3>1. /\ Record(agents, c.agent).status # "none"
          /\ Record(agents, c.agent).status = "queued" => c.n <= Record(agents, c.agent).retry
          /\ c.n <= Record(agents, c.agent).retry + 1
      BY DEF OrphanInv, Born
    <3>2. CASE c.agent = Sender
      <4>1. c.n <= agents[Sender].retry + 1 /\ c.n \in Nat /\ agents[Sender].retry \in Nat
        BY <1>0, <2>1, <3>1, <3>2 DEF Record, Child, Agent
      <4>2. Record(agents, c.agent)' = agents'[Sender]
        BY <2>7, <3>2 DEF Record
      <4> QED BY <2>7, <4>1, <4>2
    <3>3. CASE c.agent # Sender
      <4>1. Record(agents, c.agent)' = Record(agents, c.agent)
        BY <1>0, <2>2, <2>7, <3>3 DEF Record
      <4> QED BY <3>1, <4>1
    <3> QED BY <3>2, <3>3
  <2>9. spent.inputs = 0 => Held(agents, children)'
    <3> SUFFICES ASSUME spent.inputs = 0, NEW c \in Child, children[c].turn = "run"
                 PROVE  \/ agents'[c.agent].status = "running" /\ agents'[c.agent].child = c.n
                        \/ ~restored /\ past[c.agent].status = "running" /\ past[c.agent].child = c.n
      BY <2>2 DEF Held
    <3>1. \/ agents[c.agent].status = "running" /\ agents[c.agent].child = c.n
          \/ ~restored /\ past[c.agent].status = "running" /\ past[c.agent].child = c.n
      BY DEF OrphanInv, Held
    <3>2. c.agent # Sender
      BY <2>4, <2>5, <2>6, <3>1 DEF Late
    <3> QED BY <1>0, <2>7, <3>1, <3>2
  <2>10. spent.inputs = 0 => HeardLate(children, mailbox)'
    BY <2>2, <2>3 DEF OrphanInv, HeardLate
  <2> QED BY <2>2, <2>8, <2>9, <2>10 DEF OrphanInv, SaidLate
<1>3. CASE HandleTurnStatus
  <2>1. /\ Sender \in Agents /\ m.child = ChildOf(Sender) /\ Receive("event")
        /\ agents[Sender].status # "none"
    BY <1>3, HeardIsCurrent DEF HandleTurnStatus, Heard
  <2>2. PICK status \in StatusesOf(m.event) : EndAgent(Sender, status, children)
    BY <1>3 DEF HandleTurnStatus
  <2>3. /\ status \in Terminal /\ UNCHANGED <<past, restored>> /\ mailbox' = Tail(mailbox)
    BY <1>3, <2>2 DEF StatusesOf, Terminal, HandleTurnStatus
  <2>4. m \in ToSet(mailbox) /\ m.op = "event" /\ ToSet(mailbox') \subseteq ToSet(mailbox)
        /\ mailbox' \in Seq(Message)
    BY <1>0, <2>1, <2>3, MailFacts, ReceiveFacts DEF Receive, m
  <2>5. spent.inputs = 0 => children[ChildOf(Sender)].turn \in Late
    BY <2>1, <2>4 DEF OrphanInv, HeardLate
  <2>6. \A c \in Child : c.agent = Sender /\ c.n = agents[Sender].child => c = ChildOf(Sender)
    BY DEF Child, ChildOf
  <2>7. past[Sender].status = "none"
    BY <2>1 DEF MapInv, PastGone
  <2> HIDE DEF Sender, m
  <2>8. spent.inputs = 0 => \A c \in Child : c.agent = Sender => children[c].turn # "run"
    BY <2>5, <2>6, <2>7 DEF OrphanInv, Held, Late
  <2>9. SaidLate(children) /\ (spent.inputs = 0 => HeardLate(children, mailbox'))
    BY <2>4 DEF OrphanInv, HeardLate
  <2> QED BY <1>0, <2>1, <2>2, <2>3, <2>4, <2>8, <2>9, EndOrphans
<1>4. CASE HandleTimeout
  <2>1. /\ m.agent \in Agents /\ ToSet(Tail(mailbox)) \subseteq ToSet(mailbox)
        /\ Tail(mailbox) \in Seq(Message) /\ UNCHANGED <<past, restored>>
    BY <1>0, <1>4, SignalFacts, ReceiveFacts, MailFacts DEF HandleTimeout
  <2>2. CASE agents[m.agent].status = "running"
    <3>1. /\ EndAgent(m.agent, "timed_out", Interrupted(ChildOf(m.agent)))
          /\ mailbox' = Tail(mailbox) \o InterruptEvents(ChildOf(m.agent))
          /\ "timed_out" \in Terminal
      BY <1>4, <2>2 DEF HandleTimeout, Terminal
    <3> HIDE DEF m
    <3> QED BY <2>1, <2>2, <3>1, InterruptOrphans, EndOrphans
  <2>3. CASE agents[m.agent].status # "running"
    BY <1>1, <1>4, <2>1, <2>3 DEF HandleTimeout
  <2> QED BY <2>2, <2>3
<1>5. CASE HandleRetry
  <2>1. /\ ToSet(Tail(mailbox)) \subseteq ToSet(mailbox) /\ mailbox' = Tail(mailbox)
        /\ Tail(mailbox) \in Seq(Message) /\ UNCHANGED <<past, restored>>
    BY <1>0, <1>5, ReceiveFacts, MailFacts DEF HandleRetry
  <2>2. CASE agents[m.agent].status = "queued"
    <3>1. StartQueued(agents, children)
      BY <1>5, <2>2 DEF HandleRetry
    <3>2. spent.inputs = 0 => HeardLate(children, mailbox')
      BY <2>1 DEF OrphanInv, HeardLate
    <3> QED BY <1>0, <2>1, <3>1, <3>2, QueueOrphans DEF OrphanInv
  <2>3. CASE agents[m.agent].status # "queued"
    BY <1>1, <1>5, <2>1, <2>3 DEF HandleRetry
  <2> QED BY <2>2, <2>3
<1>6. CASE HandleOtherEvent
  BY <1>0, <1>1, <1>6, MailFacts DEF HandleOtherEvent, Receive
<1>7. ASSUME NEW a \in Agents, SpawnAgent(a)
      PROVE  OrphanInv'
  <2> DEFINE new == [agents EXCEPT ![a] = [NoAgent EXCEPT !.status = "queued", !.cap = MaxThreads]]
  <2>1. new \in [Agents -> Agent] /\ UNCHANGED <<past, restored, mailbox>>
    BY <1>0, <1>7, QueuedAgentType DEF SpawnAgent
  <2>2. new[a].status = "queued" /\ \A b \in Agents : b # a => new[b] = agents[b]
    BY <1>0 DEF NoAgent
  <2> HIDE DEF new
  <2>3. Record(agents, a).status = "none" /\ agents[a].status = "none" /\ past[a].status = "none"
    BY <1>7 DEF SpawnAgent, Record
  <2>4. \A c \in Child : c.agent = a => children[c].turn = "none"
    BY <2>3 DEF OrphanInv, Born
  <2>5. \A c \in Child : c.agent # a => Record(new, c.agent) = Record(agents, c.agent)
    BY <1>0, <2>2 DEF Record
  <2>6. Born(new, children)
    BY <2>4, <2>5 DEF OrphanInv, Born
  <2>7. spent.inputs = 0 => Held(new, children)
    BY <1>0, <2>2, <2>4 DEF OrphanInv, Held
  <2>8. SaidLate(children) /\ (spent.inputs = 0 => HeardLate(children, mailbox'))
    BY <2>1 DEF OrphanInv
  <2>9. CASE CanStart(Cardinality(With("running", agents)), MaxThreads)
    <3>1. PICK out \in StartOutcome :
            Affordable(<<out>>) /\ StartAgents(new, children, <<a>>, <<out>>)
      BY <1>7, <2>9 DEF SpawnAgent, new
    <3>2. Run(new, <<a>>, <<out>>)
      BY <2>1, <2>2, <3>1, SpawnRun DEF With
    <3> QED BY <1>0, <2>1, <2>6, <2>7, <2>8, <3>1, <3>2, StartOrphans
  <2>10. CASE ~CanStart(Cardinality(With("running", agents)), MaxThreads)
    <3>1. StartAgents(new, children, <<>>, <<>>)
      BY <1>7, <2>10 DEF SpawnAgent, new
    <3>2. Run(new, <<>>, <<>>)
      BY <2>1, NoneRun
    <3> QED BY <1>0, <2>1, <2>6, <2>7, <2>8, <3>1, <3>2, StartOrphans
  <2> QED BY <2>9, <2>10
<1>8. ASSUME NEW a \in Agents, SendInput(a)
      PROVE  OrphanInv'
  <2>1. /\ agents' = [agents EXCEPT ![a].status = "running", ![a].armed = TRUE]
        /\ agents[a].status \notin {"none", "queued"}
        /\ UNCHANGED <<past, restored, mailbox>>
        /\ Step(ChildOf(a), "run", "none") /\ children[ChildOf(a)].turn = "idle"
    BY <1>8 DEF SendInput, Prompted
  <2>2. /\ agents'[a].status = "running" /\ agents'[a].retry = agents[a].retry
        /\ \A b \in Agents : b # a => agents'[b] = agents[b]
    BY <1>0, <2>1 DEF Agent
  <2>3. \A c \in Child : \/ children'[c] = children[c]
                         \/ children'[c].said = "none" /\ children[c].turn # "none"
    BY <1>0, <2>1 DEF Step
  <2>4. spent'.inputs # 0
    <3>1. spent'.inputs = spent.inputs + 1
      BY <1>8 DEF SendInput, TypeOK
    <3> QED BY <1>0, <3>1
  <2>5. Born(agents, children)'
    <3> SUFFICES ASSUME NEW c \in Child, children[c].turn # "none"
                 PROVE  /\ Record(agents, c.agent)'.status # "none"
                        /\ Record(agents, c.agent)'.status = "queued" => c.n <= Record(agents, c.agent)'.retry
                        /\ c.n <= Record(agents, c.agent)'.retry + 1
      BY <2>3 DEF Born
    <3>1. /\ Record(agents, c.agent).status # "none"
          /\ Record(agents, c.agent).status = "queued" => c.n <= Record(agents, c.agent).retry
          /\ c.n <= Record(agents, c.agent).retry + 1
      BY DEF OrphanInv, Born
    <3>2. CASE c.agent = a
      BY <2>1, <2>2, <3>1, <3>2 DEF Record
    <3>3. CASE c.agent # a
      BY <1>0, <2>1, <2>2, <3>1, <3>3 DEF Record
    <3> QED BY <3>2, <3>3
  <2>6. SaidLate(children)'
    BY <2>3 DEF OrphanInv, SaidLate
  <2> QED BY <2>4, <2>5, <2>6 DEF OrphanInv
<1>9. ASSUME NEW a \in Agents, Close(a)
      PROVE  OrphanInv'
  <2>1. UNCHANGED <<past, restored>> /\ agents[a].status # "none"
    BY <1>9 DEF Close
  <2>2. CASE /\ agents[a].status = "running"
             /\ mailbox' = mailbox \o InterruptEvents(ChildOf(a))
             /\ EndAgent(a, "cancelled", Interrupted(ChildOf(a)))
    <3>1. "cancelled" \in Terminal
      BY DEF Terminal
    <3> QED BY <1>0, <2>1, <2>2, <3>1, InterruptOrphans, EndOrphans
  <2>3. CASE /\ agents[a].status \notin {"none", "running", "detached"}
             /\ mailbox' = mailbox /\ EndAgent(a, "closed", children)
    <3>1. "closed" \in Terminal /\ past[a].status = "none"
      BY <2>1 DEF Terminal, MapInv, PastGone
    <3>2. spent.inputs = 0 => \A c \in Child : c.agent = a => children[c].turn # "run"
      BY <2>3, <3>1 DEF OrphanInv, Held
    <3>3. SaidLate(children) /\ (spent.inputs = 0 => HeardLate(children, mailbox'))
      BY <2>3 DEF OrphanInv
    <3> QED BY <1>0, <2>1, <2>3, <3>1, <3>2, <3>3, EndOrphans
  <2> QED BY <1>9, <2>2, <2>3 DEF Close
<1>10. ASSUME NEW a \in Agents, TimeoutFires(a) \/ RetryFires(a)
       PROVE  OrphanInv'
  <2>1. /\ UNCHANGED <<children, past, restored, spent>>
        /\ \A b \in Agents : /\ agents'[b].status = agents[b].status
                             /\ agents'[b].child = agents[b].child
                             /\ agents'[b].retry = agents[b].retry
    BY <1>0, <1>10 DEF TimeoutFires, RetryFires, Agent
  <2>2. PICK op \in {"timeout", "retry"} : mailbox' = Append(mailbox, Signal(op, a))
    BY <1>10 DEF TimeoutFires, RetryFires
  <2>3. Signal(op, a) \in Message /\ Signal(op, a).op # "event"
    BY DEF Signal, Message
  <2>4. ToSet(mailbox') \subseteq ToSet(mailbox) \cup {Signal(op, a)}
    BY <1>0, <2>2, <2>3, MailFacts
  <2>5. spent.inputs = 0 => HeardLate(children, mailbox)'
    BY <2>1, <2>3, <2>4 DEF OrphanInv, HeardLate
  <2>6. \A b \in Agents : /\ Record(agents, b)'.status = Record(agents, b).status
                          /\ Record(agents, b)'.retry = Record(agents, b).retry
    BY <2>1 DEF Record
  <2>7. Born(agents, children)' /\ (spent.inputs = 0 => Held(agents, children)')
    BY <1>0, <2>1, <2>6 DEF OrphanInv, Born, Held
  <2> QED BY <2>1, <2>5, <2>7 DEF OrphanInv, SaidLate
<1>11. CASE RestoreParent
  <2> DEFINE lost == {a \in Agents : past[a].status # "none"}
  <2>1. /\ agents' = [a \in Agents |-> IF a \in lost THEN RestoredAgent(a) ELSE agents[a]]
        /\ past' = [a \in Agents |-> NoAgent] /\ restored' = TRUE
        /\ UNCHANGED <<mailbox, children, spent>>
    BY <1>11 DEF RestoreParent
  <2>2. ASSUME NEW a \in Agents, a \in lost
        PROVE  /\ Record(agents, a) = past[a] /\ Record(agents, a)' = agents'[a]
               /\ agents'[a].retry = past[a].retry /\ agents'[a].child = past[a].child
               /\ agents'[a].status \notin {"none", "queued"}
               /\ Reattached(a) => agents'[a].status = "running"
               /\ agents[a].status = "none"
    <3>1. agents'[a] = RestoredAgent(a) /\ past[a] \in Agent /\ agents[a].status = "none"
      BY <1>0, <2>1, <2>2 DEF MapInv, PastGone
    <3>2. /\ agents'[a].retry = past[a].retry /\ agents'[a].child = past[a].child
          /\ agents'[a].status = IF Reattached(a) THEN "running"
                                 ELSE IF past[a].status \in {"running", "queued"} THEN "detached"
                                 ELSE past[a].status
      BY <3>1 DEF RestoredAgent, Agent
    <3>3. past[a].status # "none"
      BY <2>2
    <3> QED BY <3>1, <3>2, <3>3 DEF Record
  <2>3. ASSUME NEW a \in Agents, a \notin lost
        PROVE  /\ agents'[a] = agents[a] /\ past[a].status = "none"
               /\ agents[a].status # "none" => Record(agents, a)' = Record(agents, a)
               /\ agents[a].status = "none" => Record(agents, a).status = "none"
    BY <2>1, <2>3 DEF Record
  <2> HIDE DEF lost
  <2>4. Born(agents, children)'
    <3> SUFFICES ASSUME NEW c \in Child, children[c].turn # "none"
                 PROVE  /\ Record(agents, c.agent)'.status # "none"
                        /\ Record(agents, c.agent)'.status = "queued" => c.n <= Record(agents, c.agent)'.retry
                        /\ c.n <= Record(agents, c.agent)'.retry + 1
      BY <2>1 DEF Born
    <3>1. /\ Record(agents, c.agent).status # "none"
          /\ Record(agents, c.agent).status = "queued" => c.n <= Record(agents, c.agent).retry
          /\ c.n <= Record(agents, c.agent).retry + 1
      BY DEF OrphanInv, Born
    <3>2. CASE c.agent \in lost
      BY <1>0, <2>2, <3>1, <3>2
    <3>3. CASE c.agent \notin lost
      BY <1>0, <2>3, <3>1, <3>3
    <3> QED BY <3>2, <3>3
  <2>5. spent.inputs = 0 => Held(agents, children)'
    <3> SUFFICES ASSUME spent.inputs = 0, NEW c \in Child, children[c].turn = "run"
                 PROVE  agents'[c.agent].status = "running" /\ agents'[c.agent].child = c.n
      BY <2>1 DEF Held
    <3>1. \/ agents[c.agent].status = "running" /\ agents[c.agent].child = c.n
          \/ past[c.agent].status = "running" /\ past[c.agent].child = c.n
      BY DEF OrphanInv, Held
    <3>2. CASE c.agent \in lost
      <4>1. past[c.agent].status = "running" /\ past[c.agent].child = c.n
        BY <1>0, <2>2, <3>1, <3>2
      <4>2. c.n # 0 /\ c = [agent |-> c.agent, n |-> c.n]
        BY ManagerAssumption DEF Child
      <4>3. Reattached(c.agent)
        BY <4>1, <4>2 DEF Reattached, Busy
      <4> QED BY <1>0, <2>2, <3>2, <4>1, <4>3
    <3>3. CASE c.agent \notin lost
      BY <1>0, <2>3, <3>1, <3>3
    <3> QED BY <3>2, <3>3
  <2> QED BY <2>1, <2>4, <2>5 DEF OrphanInv, SaidLate, HeardLate
<1>12. CASE ManagerRestarts
  <2>1. /\ past' = [a \in Agents |-> IF agents[a].status = "none" THEN past[a] ELSE agents[a]]
        /\ agents' = [a \in Agents |-> NoAgent] /\ restored' = FALSE /\ mailbox' = <<>>
        /\ children' = children /\ spent'.inputs = spent.inputs
    BY <1>12 DEF ManagerRestarts, TypeOK
  <2>2. \A a \in Agents : /\ Record(agents, a)' = Record(agents, a)
                          /\ past'[a] = Record(agents, a)
    BY <2>1 DEF Record, NoAgent
  <2>3. Born(agents, children)'
    BY <1>0, <2>1, <2>2 DEF OrphanInv, Born
  <2>4. spent.inputs = 0 => Held(agents, children)'
    <3> SUFFICES ASSUME spent.inputs = 0, NEW c \in Child, children[c].turn = "run"
                 PROVE  past'[c.agent].status = "running" /\ past'[c.agent].child = c.n
      BY <2>1 DEF Held
    <3>1. \/ agents[c.agent].status = "running" /\ agents[c.agent].child = c.n
          \/ past[c.agent].status = "running" /\ past[c.agent].child = c.n
      BY DEF OrphanInv, Held
    <3>2. past[c.agent].status = "running" => agents[c.agent].status = "none"
      BY <1>0 DEF MapInv, PastGone
    <3> QED BY <1>0, <2>1, <3>1, <3>2
  <2>5. HeardLate(children, mailbox)'
    BY <2>1 DEF HeardLate, ToSet
  <2> QED BY <2>1, <2>3, <2>4, <2>5 DEF OrphanInv, SaidLate
<1>13. ASSUME NEW S \in SUBSET Watched, Wait(S)
       PROVE  OrphanInv'
  BY <1>1, <1>13 DEF Wait
<1>14. CASE WaitTimeout \/ UNCHANGED vars
  BY <1>1, <1>14 DEF WaitTimeout, vars
\* A child that works, or is about to be heard, leaves "run" first.
<1>15. ASSUME UNCHANGED <<agents, past, restored, spent>>,
              \A c \in Child : \/ children'[c] = children[c]
                               \/ /\ children[c].turn # "none"
                                  /\ children'[c].turn \in Late
                               \/ children'[c].said = "none" /\ children'[c].turn = children[c].turn,
              \A x \in ToSet(mailbox') : \/ x \in ToSet(mailbox)
                                          \/ /\ x.child \in Child /\ children[x.child].said # "none"
                                             /\ children'[x.child].turn = children[x.child].turn
       PROVE  OrphanInv'
  <2>1. SaidLate(children)'
    BY <1>15 DEF OrphanInv, SaidLate
  <2>2. \A c \in Child : /\ children'[c].turn # "none" => children[c].turn # "none"
                         /\ children'[c].turn = "run" => children[c].turn = "run"
                         /\ children[c].turn \in Late => children'[c].turn \in Late
    BY <1>15 DEF Late
  <2>3. Born(agents, children)'
    BY <1>15, <2>2 DEF OrphanInv, Born, Record
  <2>4. spent.inputs = 0 => Held(agents, children)'
    BY <1>15, <2>2 DEF OrphanInv, Held
  <2>5. spent.inputs = 0 => HeardLate(children, mailbox)'
    BY <1>15, <1>a, <2>2 DEF OrphanInv, SaidLate, HeardLate
  <2> QED BY <1>15, <2>1, <2>3, <2>4, <2>5 DEF OrphanInv
<1>16. ASSUME NEW c \in Child, ChildWorks(c)
       PROVE  OrphanInv'
  <2>1. UNCHANGED <<agents, past, restored, spent, mailbox>>
    BY <1>16 DEF ChildWorks
  <2>2. PICK turn \in Late, said \in {"none", "turn_failed", "done", "error"} :
          Step(c, turn, said) /\ children[c].turn # "none"
    BY <1>0, <1>16 DEF ChildWorks, Late, Busy, ChildSession
  <2>3. /\ children'[c].turn \in Late /\ children[c].turn # "none"
        /\ \A d \in Child : d # c => children'[d] = children[d]
    BY <1>0, <2>2 DEF Step
  <2>4. \A d \in Child : \/ children'[d] = children[d]
                         \/ children[d].turn # "none" /\ children'[d].turn \in Late
    BY <2>3
  <2>5. \A x \in ToSet(mailbox') : x \in ToSet(mailbox)
    BY <2>1
  <2> QED BY <1>15, <2>1, <2>4, <2>5
<1>17. ASSUME NEW c \in Child, ChildPublishes(c)
       PROVE  OrphanInv'
  <2>1. UNCHANGED <<agents, past, restored, spent>> /\ children[c].said # "none"
        /\ children' = [children EXCEPT ![c] = [turn |-> children[c].turn, said |-> "none"]]
    BY <1>17 DEF ChildPublishes, Step
  <2>2. /\ children'[c].turn = children[c].turn /\ children'[c].said = "none"
        /\ \A d \in Child : d # c => children'[d] = children[d]
    BY <1>0, <2>1
  <2>3. \A x \in ToSet(mailbox') : x \in ToSet(mailbox) \/ x = Event(c, children[c].said)
    <3>1. Event(c, children[c].said) \in Message
      BY <1>0, <2>1 DEF Event, Message, ChildEvent, ChildSession
    <3> QED BY <1>0, <1>17, <3>1, MailFacts DEF ChildPublishes
  <2>4. Event(c, children[c].said).child = c
    BY DEF Event
  <2>5. \A d \in Child : \/ children'[d] = children[d]
                         \/ children'[d].said = "none" /\ children'[d].turn = children[d].turn
    BY <2>2
  <2>6. \A x \in ToSet(mailbox') : \/ x \in ToSet(mailbox)
                                    \/ /\ x.child \in Child /\ children[x.child].said # "none"
                                       /\ children'[x.child].turn = children[x.child].turn
    BY <2>1, <2>2, <2>3, <2>4
  <2> QED BY <1>15, <2>1, <2>5, <2>6
<1> QED BY <1>2, <1>3, <1>4, <1>5, <1>6, <1>7, <1>8, <1>9, <1>10, <1>11, <1>12, <1>13,
           <1>14, <1>16, <1>17 DEF Next, Handle, Fires, Client

\* Until the first follow-up prompt no Turn runs on behind a terminal agent or
\* one that is back in the queue, through interrupts, timeouts, retries and
\* restarts of the Manager: the Manager hears of an end only from a child
\* whose Turn is over.
THEOREM NoOrphanBeforePromptCorrect == Spec => []NoOrphanBeforePrompt
<1>1. Init => MapInv /\ OrphanInv
  <2> SUFFICES ASSUME Init
               PROVE  MapInv /\ OrphanInv
    OBVIOUS
  <2>1. \A c \in Child : children[c].turn = "none" /\ children[c].said = "none"
    BY DEF Init, NoSession
  <2>2. ToSet(mailbox) = {}
    BY DEF Init, ToSet
  <2>3. MapInv
    BY DEF Init, MapInv, Current, PastGone, NoAgent
  <2> QED BY <2>1, <2>2, <2>3 DEF OrphanInv, SaidLate, HeardLate, Born, Held
<1>2. OrphanInv => NoOrphanBeforePrompt
  BY DEF OrphanInv, Held, NoOrphanBeforePrompt, NoOrphanTurn
<1> QED BY <1>1, <1>2, MapStep, OrphanStep, TypeCorrect, PTL DEF Spec

-----------------------------------------------------------------------------
(***************************************************************************)
(* Theorems about the queue of SubagentManager: its limit, and that it     *)
(* moves, for every value of the constants.                                *)
(***************************************************************************)
(* Counting. *)

LEMMA WithType ==
  ASSUME NEW status, NEW ag
  PROVE  /\ With(status, ag) \subseteq Agents
         /\ IsFiniteSet(With(status, ag))
         /\ Cardinality(With(status, ag)) \in Nat
BY ManagerAssumption, FS_Subset, FS_CardinalityType DEF With

\* Distinct members of a sequence are as many as their positions.
LEMMA ImageCount ==
  ASSUME NEW S, NEW q \in Seq(S), \A i, j \in 1..Len(q) : q[i] = q[j] => i = j,
         NEW J \in SUBSET (1..Len(q)), NEW Q, \A x : x \in Q <=> \E i \in J : x = q[i]
  PROVE  /\ IsFiniteSet(J) /\ IsFiniteSet(Q)
         /\ Cardinality(Q) = Cardinality(J)
<1> DEFINE f == [i \in J |-> q[i]]
<1>1. IsFiniteSet(J)
  <2>1. IsFiniteSet(1..Len(q))
    BY FS_Interval, LenProperties
  <2> QED BY <2>1, FS_Subset
<1>2. f \in Injection(J, Q) /\ f \in Surjection(J, Q)
  BY DEF Injection, IsInjective, Surjection
<1>3. ExistsBijection(J, Q)
  <2> HIDE DEF f
  <2> QED BY <1>2 DEF ExistsBijection, Bijection
<1> QED BY <1>1, <1>3, FS_Bijection

Started(o) == {i \in 1..Len(o) : o[i] \in {"started"}}

\* A run adds to the running agents those it started.
LEMMA RunCount ==
  ASSUME NEW ag, NEW kids, NEW q, NEW o, Run(ag, q, o), StartAgents(ag, kids, q, o)
  PROVE  Cardinality(With("running", agents'))
           = Cardinality(With("running", ag)) + Count(o, {"started"})
<1> DEFINE R == With("running", ag)
           Q == {q[i] : i \in Started(o)}
<1>1. Started(o) \subseteq 1..Len(o) /\ 1..Len(o) \subseteq 1..Len(q)
  BY LenProperties DEF Run, Started
<1>2. IsFiniteSet(Q) /\ Cardinality(Q) = Cardinality(Started(o))
  <2>1. /\ q \in Seq(With("queued", ag)) /\ \A i, j \in 1..Len(q) : q[i] = q[j] => i = j
        /\ Started(o) \in SUBSET (1..Len(q))
    BY <1>1 DEF Run
  <2>2. \A x : x \in Q <=> \E i \in Started(o) : x = q[i]
    OBVIOUS
  <2> HIDE DEF Q
  <2> QED BY <2>1, <2>2, ImageCount
<1>3. \A i \in 1..Len(o) : (agents'[q[i]].status = "running") <=> i \in Started(o)
  <2> TAKE i \in 1..Len(o)
  <2>1. agents'[q[i]] = Attempted(ag[q[i]], o[i]) /\ ag[q[i]] \in Agent
    BY StartFacts DEF Run, With
  <2> QED BY <2>1, AttemptedType DEF Started
<1>4. \A a \in R : \A i \in 1..Len(o) : a # q[i]
  BY StartFacts DEF With
<1>5. R \cap Q = {}
  BY <1>1, <1>4
<1>6. With("running", agents') = R \cup Q
  <2>1. \A a \in Agents : a \in With("running", agents') => a \in R \cup Q
    BY <1>3, StartFacts DEF With
  <2>2. \A a \in R : a \in With("running", agents')
    BY <1>4, StartFacts DEF With
  <2>3. \A i \in Started(o) : q[i] \in With("running", agents')
    BY <1>1, <1>3, StartFacts DEF With
  <2> QED BY <2>1, <2>2, <2>3, WithType
<1>7. Cardinality(R \cup Q) = Cardinality(R) + Cardinality(Q) - Cardinality({})
  <2> HIDE DEF R, Q
  <2>1. IsFiniteSet(R)
    BY WithType DEF R
  <2> QED BY <1>2, <1>5, <2>1, FS_Union
<1>8. Cardinality(R) \in Nat /\ Cardinality(Q) \in Nat
  BY <1>2, WithType, FS_CardinalityType
<1> QED BY <1>2, <1>6, <1>7, <1>8, FS_EmptySet DEF Count, Started

\* The last outcome adds one at most.
LEMMA CountStep ==
  ASSUME NEW o \in Seq(StartOutcome), Len(o) >= 1
  PROVE  /\ Count(SubSeq(o, 1, Len(o) - 1), {"started"}) \in Nat
         /\ Count(o, {"started"}) <= Count(SubSeq(o, 1, Len(o) - 1), {"started"}) + 1
<1> DEFINE p == SubSeq(o, 1, Len(o) - 1)
<1>1. Len(o) \in Nat
  BY LenProperties
<1>2. \A i \in 1..Len(o) - 1 : o[i] \in StartOutcome
  BY <1>1, ElementOfSeq
<1>3. /\ p \in Seq(StartOutcome) /\ Len(p) = Len(o) - 1
      /\ \A i \in 1..Len(o) - 1 : p[i] = o[i]
  <2>1. /\ p \in Seq(StartOutcome)
        /\ Len(p) = IF 1 <= Len(o) - 1 THEN Len(o) - 1 - 1 + 1 ELSE 0
        /\ \A i \in 1..(Len(o) - 1) - 1 + 1 : p[i] = o[1 + i - 1]
    <3>1. 1 \in Int /\ Len(o) - 1 \in Int
      BY <1>1
    <3> QED BY <1>2, <3>1, SubSeqProperties
  <2> HIDE DEF p
  <2>2. Len(p) = Len(o) - 1
    <3>0. \A n \in Nat : n >= 1 => (1 <= n - 1 \/ n = 1)
      OBVIOUS
    <3>1. (1 <= Len(o) - 1) \/ Len(o) = 1
      BY <1>1, <3>0
    <3>2. CASE 1 <= Len(o) - 1
      BY <1>1, <2>1, <3>2
    <3>3. CASE Len(o) = 1
      BY <2>1, <3>3
    <3> QED BY <3>1, <3>2, <3>3
  <2>3. (Len(o) - 1) - 1 + 1 = Len(o) - 1 /\ \A i \in 1..Len(o) - 1 : 1 + i - 1 = i
    BY <1>1
  <2> QED BY <2>1, <2>2, <2>3
<1> HIDE DEF p
<1>4. Started(o) \subseteq Started(p) \cup {Len(o)}
  BY <1>1, <1>3 DEF Started
<1>5. IsFiniteSet(Started(p)) /\ Count(p, {"started"}) = Cardinality(Started(p))
      /\ Count(p, {"started"}) \in Nat
  BY <1>3, CountType DEF Started, Count
<1>6. IsFiniteSet(Started(p) \cup {Len(o)})
      /\ Cardinality(Started(p) \cup {Len(o)}) <= Cardinality(Started(p)) + 1
  <2>1. /\ IsFiniteSet(Started(p) \cup {Len(o)})
        /\ \/ Cardinality(Started(p) \cup {Len(o)}) = Cardinality(Started(p))
           \/ Cardinality(Started(p) \cup {Len(o)}) = Cardinality(Started(p)) + 1
    BY <1>5, FS_AddElement
  <2> QED BY <1>5, <2>1
<1>7. Count(o, {"started"}) <= Cardinality(Started(p) \cup {Len(o)})
  BY <1>4, <1>6, FS_Subset DEF Count, Started
<1>8. Count(o, {"started"}) \in Nat /\ Cardinality(Started(p) \cup {Len(o)}) \in Nat
  BY <1>6, CountType, FS_CardinalityType
<1> QED BY <1>5, <1>6, <1>7, <1>8 DEF p

\* A run of the queue that starts anyone ends within the limit.
LEMMA QueueLimit ==
  ASSUME NEW ag \in [Agents -> Agent], NEW kids, NEW q \in Queues(ag), NEW o \in QueueRuns(ag, q),
         StartAgents(ag, kids, q, o), Len(o) # 0
  PROVE  Cardinality(With("running", agents')) <= MaxThreads
<1> DEFINE p == SubSeq(o, 1, Len(o) - 1)
<1>1. Run(ag, q, o)
  BY QueueRun
<1>2. Len(o) \in Nat /\ Len(q) \in Nat /\ Len(o) \in 1..Len(o) /\ Len(o) \in 1..Len(q)
  BY <1>1, LenProperties DEF Run
<1>3. Cardinality(With("running", ag)) + Count(p, {"started"}) < ag[q[Len(o)]].cap
  BY <1>2 DEF QueueRuns, CanStart
<1>4. ag[q[Len(o)]].cap \in {0, MaxThreads}
  <2>1. q[Len(o)] \in Agents
    BY <1>1, <1>2, ElementOfSeq DEF Run, With
  <2> QED BY <2>1 DEF Agent
<1>5. /\ Count(p, {"started"}) \in Nat /\ Count(o, {"started"}) \in Nat
      /\ Count(o, {"started"}) <= Count(p, {"started"}) + 1
  <2>1. o \in Seq(StartOutcome) /\ Len(o) >= 1
    BY <1>1, <1>2 DEF Run
  <2> QED BY <2>1, CountStep, CountType
<1>6. Cardinality(With("running", ag)) \in Nat
  BY WithType
<1> HIDE DEF p
<1> QED BY <1>1, <1>3, <1>4, <1>5, <1>6, RunCount, ManagerAssumption

LEMMA NoneStarted ==
  ASSUME NEW ag, NEW kids, NEW q, NEW o, Run(ag, q, o), StartAgents(ag, kids, q, o), Len(o) = 0
  PROVE  \A a \in Agents : agents'[a] = ag[a]
BY StartFacts

\* What a run leaves in the queue was there, and was not tried.
LEMMA QueuedAfter ==
  ASSUME NEW ag, NEW kids, NEW q, NEW o, Run(ag, q, o), StartAgents(ag, kids, q, o)
  PROVE  /\ With("queued", agents') \subseteq With("queued", ag)
         /\ \A i \in 1..Len(o) : q[i] \notin With("queued", agents')
<1>1. \A i \in 1..Len(o) : q[i] \notin With("queued", agents')
  <2> TAKE i \in 1..Len(o)
  <2>1. agents'[q[i]] = Attempted(ag[q[i]], o[i]) /\ ag[q[i]] \in Agent
    BY StartFacts DEF Run, With
  <2> QED BY <2>1, AttemptedType DEF With
<1>2. \A a \in With("queued", agents') : a \in With("queued", ag)
  BY <1>1, StartFacts DEF With
<1> QED BY <1>1, <1>2

\* The queue is empty once every one of its agents was tried.
LEMMA AllTried ==
  ASSUME NEW ag, NEW kids, NEW q, NEW o, Run(ag, q, o), StartAgents(ag, kids, q, o),
         Len(q) = Cardinality(With("queued", ag)), Len(o) = Len(q)
  PROVE  With("queued", agents') = {}
<1> DEFINE S == With("queued", ag)
           Q == {q[i] : i \in 1..Len(q)}
<1>1. /\ q \in Seq(S) /\ \A i, j \in 1..Len(q) : q[i] = q[j] => i = j
      /\ Len(q) \in Nat
  BY LenProperties DEF Run
<1>2. Q \subseteq S
  BY <1>1, ElementOfSeq
<1>3. Cardinality(Q) = Cardinality(1..Len(q))
  <2>1. \A x : x \in Q <=> \E i \in 1..Len(q) : x = q[i]
    OBVIOUS
  <2> HIDE DEF Q, S
  <2> QED BY <1>1, <2>1, ImageCount
<1>4. Cardinality(1..Len(q)) = Len(q)
  <2>1. 1 \in Int /\ Len(q) \in Int
    BY <1>1
  <2>2. Cardinality(1..Len(q)) = IF 1 > Len(q) THEN 0 ELSE Len(q) - 1 + 1
    BY ONLY <2>1, FS_Interval
  <2> QED BY <1>1, <2>2
<1>5. Q = S
  <2> HIDE DEF Q
  <2> QED BY <1>2, <1>3, <1>4, WithType, FS_Subset
<1>6. \A a \in S : \E i \in 1..Len(o) : a = q[i]
  BY <1>5
<1> HIDE DEF Q
<1> QED BY <1>6, QueuedAfter

Waits == With("queued", agents) # {} => Cardinality(With("running", agents)) >= MaxThreads

\* maybe_start_queued/2 leaves no free slot beside a queued agent that has
\* its spec.
LEMMA QueueEmptiesOrFills ==
  ASSUME NEW ag \in [Agents -> Agent], NEW kids, StartQueued(ag, kids),
         \A a \in With("queued", ag) : ag[a].cap = MaxThreads
  PROVE  Waits'
<1>1. PICK q \in Queues(ag) : \E o \in QueueRuns(ag, q) : StartAgents(ag, kids, q, o)
  BY DEF StartQueued
<1>2. PICK o \in QueueRuns(ag, q) : StartAgents(ag, kids, q, o)
  BY <1>1
<1>3. Run(ag, q, o) /\ Len(q) = Cardinality(With("queued", ag))
  BY QueueRun
<1>4. CASE Len(o) = Len(q)
  BY <1>2, <1>3, <1>4, AllTried DEF Waits
<1>5. CASE Len(o) # Len(q)
  <2>1. Len(o) \in Nat /\ Len(q) \in Nat /\ Len(o) < Len(q) /\ Len(o) + 1 \in 1..Len(q)
    BY <1>3, <1>5, LenProperties DEF Run
  <2>2. ~(Cardinality(With("running", ag)) + Count(o, {"started"}) < ag[q[Len(o) + 1]].cap)
    BY <2>1 DEF QueueRuns, CanStart
  <2>3. q[Len(o) + 1] \in With("queued", ag)
    BY <1>3, <2>1, ElementOfSeq DEF Run
  <2>4. Cardinality(With("running", agents'))
          = Cardinality(With("running", ag)) + Count(o, {"started"})
    BY <1>2, <1>3, RunCount
  <2>5. Cardinality(With("running", ag)) \in Nat /\ Count(o, {"started"}) \in Nat
    BY <1>3, WithType, CountType DEF Run
  <2> QED BY <2>2, <2>3, <2>4, <2>5, ManagerAssumption DEF Waits
<1> QED BY <1>4, <1>5

-----------------------------------------------------------------------------
(* Before the first restart of the Manager. *)

\* Nothing is to be restored, and every agent has its spec.
FirstLife ==
  spent.restarts = 0 =>
    /\ restored
    /\ \A a \in Agents : agents[a].status # "none" => agents[a].cap = MaxThreads

Capped(ag) == \A a \in Agents : ag[a].status # "none" => ag[a].cap = MaxThreads

LEMMA StartCapped ==
  ASSUME NEW ag, NEW kids, NEW q, NEW o, Run(ag, q, o), StartAgents(ag, kids, q, o), Capped(ag)
  PROVE  Capped(agents')
<1> SUFFICES ASSUME NEW a \in Agents, agents'[a].status # "none"
             PROVE  agents'[a].cap = MaxThreads
  BY DEF Capped
<1>1. CASE agents'[a] = ag[a]
  BY <1>1 DEF Capped
<1>2. ASSUME NEW i \in 1..Len(o), a = q[i]
      PROVE  agents'[a].cap = MaxThreads
  <2>1. agents'[a] = Attempted(ag[a], o[i]) /\ ag[a] \in Agent /\ ag[a].status = "queued"
    BY <1>2, StartFacts DEF Run, With
  <2> QED BY <2>1, AttemptedType DEF Capped
<1> QED BY <1>1, <1>2, StartFacts

LEMMA QueueCapped ==
  ASSUME TypeOK, NEW ag \in [Agents -> Agent], NEW kids \in [Child -> ChildSession],
         StartQueued(ag, kids)
  PROVE  /\ Capped(ag) => Capped(agents')
         /\ spent'.restarts = spent.restarts
<1>1. PICK q \in Queues(ag) : \E o \in QueueRuns(ag, q) : StartAgents(ag, kids, q, o)
  BY DEF StartQueued
<1>2. PICK o \in QueueRuns(ag, q) : StartAgents(ag, kids, q, o)
  BY <1>1
<1> QED BY <1>2, QueueRun, StartType, StartCapped

LEMMA EndCapped ==
  ASSUME TypeOK, NEW a \in Agents, agents[a].status # "none", NEW status \in Terminal,
         NEW kids \in [Child -> ChildSession], EndAgent(a, status, kids)
  PROVE  /\ Capped(agents) => Capped(agents') /\ Waits'
         /\ spent'.restarts = spent.restarts
<1>1. Ended(a, status) \in [Agents -> Agent]
  BY EndedType
<1>2. \A b \in Agents : /\ Ended(a, status)[b].cap = agents[b].cap
                        /\ b # a => Ended(a, status)[b].status = agents[b].status
  BY DEF Ended, TypeOK, Agent
<1>3. Capped(agents) => Capped(Ended(a, status))
  BY <1>2 DEF Capped
<1>4. Capped(agents) => \A b \in With("queued", Ended(a, status)) : Ended(a, status)[b].cap = MaxThreads
  BY <1>3 DEF Capped, With
<1> QED BY <1>1, <1>3, <1>4, QueueCapped, QueueEmptiesOrFills DEF EndAgent

\* The agents that end, and how, in a step.
Ends ==
  \E a \in Agents, status \in Terminal, kids \in [Child -> ChildSession] :
    agents[a].status # "none" /\ EndAgent(a, status, kids)

WakesUp(a) == retry_timers[a] > 0 \/ Signal("retry", a) \in ToSet(mailbox)

\* Wake-ups stay where they are while the mailbox only grows.
LEMMA WakesKept ==
  ASSUME TypeOK, retry_timers' = retry_timers,
         \A x \in ToSet(mailbox) : x \in ToSet(mailbox') \/ x.op # "retry"
  PROVE  \A a \in Agents : WakesUp(a) => WakesUp(a)'
<1>1. \A a \in Agents : Signal("retry", a).op = "retry"
  BY DEF Signal
<1> QED BY <1>1 DEF WakesUp, Signal

\* A step that changes no agent and loses no wake-up of a queued one.
Quiet ==
  /\ UNCHANGED <<agents, restored, spent>>
  /\ \A a \in With("queued", agents) : WakesUp(a) => WakesUp(a)'

LEMMA QuietMail ==
  ASSUME TypeOK, UNCHANGED <<agents, restored, spent, retry_timers>>,
         \A x \in ToSet(mailbox) : x \in ToSet(mailbox') \/ x.op # "retry"
  PROVE  Quiet
BY WakesKept DEF Quiet, With

\* Every step ends an agent, runs the queue, is quiet, or is one of those
\* listed.
LEMMA Steps ==
  ASSUME TypeOK, MapInv, [Next]_vars
  PROVE  \/ Ends
         \/ HandleRetry /\ StartQueued(agents, children)
         \/ \E a \in Agents : SpawnAgent(a) \/ SendInput(a) \/ TimeoutFires(a)
         \/ HandleTransportFailure
         \/ ManagerRestarts
         \/ RestoreParent
         \/ Quiet
<1>0. children \in [Child -> ChildSession] /\ mailbox \in Seq(Message)
  BY DEF TypeOK
<1>1. CASE HandleTurnStatus
  <2>1. Sender \in Agents /\ agents[Sender].status # "none"
    BY <1>1, HeardIsCurrent DEF HandleTurnStatus
  <2>2. PICK status \in StatusesOf(m.event) : EndAgent(Sender, status, children)
    BY <1>1 DEF HandleTurnStatus
  <2>3. status \in Terminal
    BY <2>2 DEF StatusesOf, Terminal
  <2> HIDE DEF Sender
  <2> QED BY <1>0, <2>1, <2>2, <2>3 DEF Ends
<1>2. CASE HandleTimeout
  <2>1. CASE agents[m.agent].status = "running"
    <3>1. /\ EndAgent(m.agent, "timed_out", Interrupted(ChildOf(m.agent)))
          /\ "timed_out" \in Terminal
      BY <1>2, <2>1 DEF HandleTimeout, Terminal
    <3>2. m.agent \in Agents
      BY <1>2, SignalFacts DEF HandleTimeout
    <3>3. Interrupted(ChildOf(m.agent)) \in [Child -> ChildSession]
      BY InterruptType
    <3> HIDE DEF m
    <3> QED BY <2>1, <3>1, <3>2, <3>3 DEF Ends
  <2>2. CASE agents[m.agent].status # "running"
    <3>1. /\ Receive("timeout") /\ mailbox' = Tail(mailbox)
          /\ UNCHANGED <<agents, restored, spent, retry_timers>>
      BY <1>2, <2>2 DEF HandleTimeout
    <3>2. \A y \in ToSet(mailbox) : y \in ToSet(mailbox') \/ y.op # "retry"
      BY <3>1, ReceiveFacts, TailKeeps DEF m
    <3> QED BY <3>1, <3>2, QuietMail
  <2> QED BY <2>1, <2>2
<1>3. CASE HandleRetry
  <2>1. CASE agents[m.agent].status = "queued"
    BY <1>3, <2>1 DEF HandleRetry
  <2>2. CASE agents[m.agent].status # "queued"
    <3>1. /\ Receive("retry") /\ mailbox' = Tail(mailbox)
          /\ UNCHANGED <<agents, restored, spent, retry_timers>>
      BY <1>3, <2>2 DEF HandleRetry
    <3>2. \A y \in ToSet(mailbox) : y \in ToSet(mailbox') \/ y = m
      BY <3>1, ReceiveFacts, TailKeeps DEF m
    <3>3. m = Signal("retry", m.agent)
      BY <3>1, SignalFacts
    <3>4. \A a \in With("queued", agents) : Signal("retry", a) # m
      BY <2>2, <3>3 DEF Signal, With
    <3> QED BY <3>1, <3>2, <3>4 DEF Quiet, WakesUp, Signal
  <2> QED BY <2>1, <2>2
<1>4. ASSUME NEW a \in Agents, Close(a)
      PROVE  Ends
  <2>1. {"cancelled", "closed"} \subseteq Terminal
    BY DEF Terminal
  <2>2. Interrupted(ChildOf(a)) \in [Child -> ChildSession]
    BY InterruptType
  <2>3. agents[a].status # "none"
    BY <1>4 DEF Close
  <2> QED BY <1>0, <1>4, <2>1, <2>2, <2>3 DEF Close, Ends
<1>5. CASE HandleOtherEvent
  <2>1. /\ Receive("event") /\ mailbox' = Tail(mailbox)
        /\ UNCHANGED <<agents, restored, spent, retry_timers>>
    BY <1>5 DEF HandleOtherEvent
  <2>2. \A y \in ToSet(mailbox) : y \in ToSet(mailbox') \/ y.op # "retry"
    BY <2>1, ReceiveFacts, TailKeeps DEF m
  <2> QED BY <2>1, <2>2, QuietMail
<1>6. ASSUME NEW a \in Agents, RetryFires(a)
      PROVE  Quiet
  <2>1. /\ retry_timers' = [retry_timers EXCEPT ![a] = retry_timers[a] - 1]
        /\ mailbox' = Append(mailbox, Signal("retry", a))
        /\ UNCHANGED <<agents, restored, spent>>
    BY <1>6 DEF RetryFires
  <2>2. Signal("retry", a) \in Message
    BY DEF Signal, Message
  <2>3. /\ \A y \in ToSet(mailbox) : y \in ToSet(mailbox')
        /\ Signal("retry", a) \in ToSet(mailbox')
    BY <1>0, <2>1, <2>2, AppendKeeps
  <2>4. \A b \in Agents : b # a => retry_timers'[b] = retry_timers[b]
    BY <2>1 DEF TypeOK
  <2>5. \A b \in Agents : WakesUp(b) => WakesUp(b)'
    BY <2>3, <2>4 DEF WakesUp, Signal
  <2> QED BY <2>1, <2>5 DEF Quiet, With
<1>7. ASSUME NEW S \in SUBSET Watched, Wait(S)
      PROVE  Quiet
  BY <1>7, QuietMail DEF Wait
<1>8. CASE WaitTimeout
  BY <1>8, QuietMail DEF WaitTimeout
<1>9. ASSUME NEW c \in Child, ChildWorks(c)
      PROVE  Quiet
  BY <1>9, QuietMail DEF ChildWorks
<1>10. ASSUME NEW c \in Child, ChildPublishes(c)
       PROVE  Quiet
  <2>1. Event(c, children[c].said) \in Message
    BY <1>10 DEF ChildPublishes, Event, Message, ChildEvent, ChildSession, TypeOK
  <2>2. \A y \in ToSet(mailbox) : y \in ToSet(mailbox')
    BY <1>0, <1>10, <2>1, AppendKeeps DEF ChildPublishes
  <2> QED BY <1>10, <2>2, QuietMail DEF ChildPublishes
<1>11. CASE UNCHANGED vars
  BY <1>11, QuietMail DEF vars
<1> QED BY <1>1, <1>2, <1>3, <1>4, <1>5, <1>6, <1>7, <1>8, <1>9, <1>10, <1>11
        DEF Next, Handle, Fires, Client

\* A spawned agent is queued first, then perhaps tried.
LEMMA SpawnFacts ==
  ASSUME TypeOK, NEW a \in Agents, SpawnAgent(a)
  PROVE  \E new \in [Agents -> Agent] : \E q, o :
           /\ new = [agents EXCEPT ![a] = [NoAgent EXCEPT !.status = "queued", !.cap = MaxThreads]]
           /\ Run(new, q, o) /\ StartAgents(new, children, q, o)
           /\ With("running", new) = With("running", agents)
           /\ With("queued", new) = With("queued", agents) \cup {a}
           /\ new[a].cap = MaxThreads /\ \A b \in Agents : b # a => new[b] = agents[b]
           /\ \/ /\ Cardinality(With("running", agents)) >= MaxThreads
                 /\ o = <<>>
              \/ /\ Cardinality(With("running", agents)) < MaxThreads
                 /\ \E out \in StartOutcome : o = <<out>>
                 /\ q = <<a>>
<1> DEFINE new == [agents EXCEPT ![a] = [NoAgent EXCEPT !.status = "queued", !.cap = MaxThreads]]
<1>0. agents \in [Agents -> Agent] /\ agents[a].status = "none"
  BY DEF TypeOK, SpawnAgent
<1>1. new \in [Agents -> Agent]
  BY <1>0, QueuedAgentType
<1>2. /\ new[a].status = "queued" /\ new[a].cap = MaxThreads
      /\ \A b \in Agents : b # a => new[b] = agents[b]
  BY <1>0 DEF NoAgent
<1> HIDE DEF new
<1>3. With("running", new) = With("running", agents)
  BY <1>0, <1>2 DEF With
<1>4. With("queued", new) = With("queued", agents) \cup {a} /\ a \in With("queued", new)
  BY <1>0, <1>2 DEF With
<1>5. CASE CanStart(Cardinality(With("running", agents)), MaxThreads)
  <2>1. PICK out \in StartOutcome :
          Affordable(<<out>>) /\ StartAgents(new, children, <<a>>, <<out>>)
    BY <1>5 DEF SpawnAgent, new
  <2>2. Run(new, <<a>>, <<out>>)
    BY <1>1, <1>4, <2>1, SpawnRun
  <2> QED BY <1>1, <1>2, <1>3, <1>4, <1>5, <2>1, <2>2 DEF CanStart, new
<1>6. CASE ~CanStart(Cardinality(With("running", agents)), MaxThreads)
  <2>1. StartAgents(new, children, <<>>, <<>>)
    BY <1>6 DEF SpawnAgent, new
  <2>2. Run(new, <<>>, <<>>)
    BY <1>1, NoneRun
  <2>3. Cardinality(With("running", agents)) >= MaxThreads
    BY <1>6, WithType, ManagerAssumption DEF CanStart
  <2> QED BY <1>1, <1>2, <1>3, <1>4, <2>1, <2>2, <2>3 DEF new
<1> QED BY <1>5, <1>6

LEMMA FirstLifeStep ==
  ASSUME TypeOK, MapInv, FirstLife, [Next]_vars
  PROVE  FirstLife'
<1>0. agents \in [Agents -> Agent] /\ spent.restarts \in 0..MaxRestarts
  BY DEF TypeOK
<1>1. FirstLife <=> (spent.restarts = 0 => restored /\ Capped(agents))
  BY DEF FirstLife, Capped
<1>2. FirstLife' <=> (spent'.restarts = 0 => restored' /\ Capped(agents'))
  BY DEF FirstLife, Capped
<1>3. CASE Ends
  <2>1. PICK a \in Agents : \E status \in Terminal, kids \in [Child -> ChildSession] :
               agents[a].status # "none" /\ EndAgent(a, status, kids)
    BY <1>3 DEF Ends
  <2>2. (Capped(agents) => Capped(agents')) /\ spent'.restarts = spent.restarts
    BY <2>1, EndCapped
  <2>3. (restored' = restored) \/ restored' \/ spent'.restarts = spent.restarts + 1
    BY DEF TypeOK, Next, vars, Handle, Fires, Client, HandleTransportFailure, HandleTurnStatus,
           HandleOtherEvent, HandleTimeout, HandleRetry, TimeoutFires, RetryFires,
           SpawnAgent, SendInput, Close, Wait, WaitTimeout, RestoreParent, ChildWorks,
           ChildPublishes, ManagerRestarts
  <2> QED BY <1>0, <1>1, <1>2, <2>2, <2>3, ManagerAssumption
<1>4. CASE HandleRetry /\ StartQueued(agents, children)
  <2>1. children \in [Child -> ChildSession] /\ restored' = restored
    BY <1>4 DEF TypeOK, HandleRetry
  <2> QED BY <1>0, <1>1, <1>2, <1>4, <2>1, QueueCapped
<1>5. ASSUME NEW a \in Agents, SpawnAgent(a)
      PROVE  FirstLife'
  <2>1. PICK new \in [Agents -> Agent] : \E q, o :
           /\ Run(new, q, o) /\ StartAgents(new, children, q, o)
           /\ new[a].cap = MaxThreads /\ \A b \in Agents : b # a => new[b] = agents[b]
    BY <1>5, SpawnFacts
  <2>2. PICK q : \E o : Run(new, q, o) /\ StartAgents(new, children, q, o)
    BY <2>1
  <2>3. PICK o : Run(new, q, o) /\ StartAgents(new, children, q, o)
    BY <2>2
  <2>4. Capped(agents) => Capped(new)
    BY <2>1 DEF Capped
  <2>5. restored' = restored /\ children \in [Child -> ChildSession]
    BY <1>5 DEF SpawnAgent, TypeOK
  <2>6. spent'.restarts = spent.restarts
    BY <2>3, <2>5, StartType
  <2> QED BY <1>1, <1>2, <2>3, <2>4, <2>5, <2>6, StartCapped
<1>6. ASSUME NEW a \in Agents, SendInput(a)
      PROVE  FirstLife'
  <2>1. /\ agents' = [agents EXCEPT ![a].status = "running", ![a].armed = TRUE]
        /\ restored' = restored /\ agents[a].status # "none"
    BY <1>6 DEF SendInput, Prompted
  <2>2. /\ agents'[a].cap = agents[a].cap
        /\ \A b \in Agents : b # a => agents'[b] = agents[b]
    BY <1>0, <2>1 DEF Agent
  <2>3. Capped(agents) => Capped(agents')
    BY <2>1, <2>2 DEF Capped
  <2>4. spent'.restarts = spent.restarts
    BY <1>6 DEF SendInput, TypeOK
  <2> QED BY <1>1, <1>2, <2>1, <2>3, <2>4
<1>7. ASSUME NEW a \in Agents, TimeoutFires(a)
      PROVE  FirstLife'
  <2>1. /\ agents' = [agents EXCEPT ![a].armed = FALSE] /\ restored' = restored /\ spent' = spent
    BY <1>7 DEF TimeoutFires
  <2>2. \A b \in Agents : agents'[b].cap = agents[b].cap /\ agents'[b].status = agents[b].status
    BY <1>0, <2>1 DEF Agent
  <2> QED BY <1>1, <1>2, <2>1, <2>2 DEF Capped
<1>8. CASE HandleTransportFailure
  <2>1. Sender \in Agents /\ agents[Sender].status # "none"
    BY <1>8, HeardIsCurrent DEF HandleTransportFailure
  <2>2. agents' = [agents EXCEPT ![Sender].status = "queued", ![Sender].armed = FALSE,
                                 ![Sender].retry = agents[Sender].retry + 1]
        /\ restored' = restored /\ spent' = spent
    BY <1>8 DEF HandleTransportFailure
  <2> HIDE DEF Sender
  <2>3. /\ agents'[Sender].cap = agents[Sender].cap
        /\ \A b \in Agents : b # Sender => agents'[b] = agents[b]
    BY <1>0, <2>1, <2>2 DEF Agent
  <2>4. Capped(agents) => Capped(agents')
    BY <2>1, <2>3 DEF Capped
  <2> QED BY <1>1, <1>2, <2>2, <2>4
<1>9. CASE ManagerRestarts
  <2>1. spent'.restarts = spent.restarts + 1
    BY <1>9 DEF ManagerRestarts, TypeOK
  <2> QED BY <1>0, <1>2, <2>1, ManagerAssumption
<1>10. CASE RestoreParent
  <2>1. spent' = spent /\ ~restored
    BY <1>10 DEF RestoreParent
  <2> QED BY <1>1, <1>2, <2>1
<1>11. CASE Quiet
  BY <1>11 DEF FirstLife, Quiet
<1> QED BY <1>3, <1>4, <1>5, <1>6, <1>7, <1>8, <1>9, <1>10, <1>11, Steps

QueueInv == TypeOK /\ MapInv /\ FirstLife

LEMMA QueueInvCorrect == Spec => []QueueInv
<1>1. Init => MapInv /\ FirstLife
  BY DEF Init, MapInv, Current, PastGone, NoAgent, FirstLife
<1> QED BY <1>1, MapStep, FirstLifeStep, TypeCorrect, PTL DEF Spec, QueueInv

-----------------------------------------------------------------------------
(* The limit. *)

\* An agent that ends takes no slot and leaves the others alone.
LEMMA EndedRuns ==
  ASSUME TypeOK, NEW a \in Agents, NEW status \in Terminal
  PROVE  /\ With("running", Ended(a, status)) \subseteq With("running", agents)
         /\ With("queued", Ended(a, status)) \subseteq With("queued", agents)
<1>1. /\ Ended(a, status)[a].status = status /\ status \notin {"queued", "running"}
      /\ \A b \in Agents : b # a => Ended(a, status)[b] = agents[b]
  BY DEF Ended, TypeOK, Agent, Terminal
<1> QED BY <1>1 DEF With

\* A run of the queue stays within the limit it found, or the limit itself.
LEMMA QueueRunLimit ==
  ASSUME NEW ag \in [Agents -> Agent], NEW kids, StartQueued(ag, kids)
  PROVE  \/ \A a \in Agents : agents'[a] = ag[a]
         \/ Cardinality(With("running", agents')) <= MaxThreads
<1>1. PICK q \in Queues(ag) : \E o \in QueueRuns(ag, q) : StartAgents(ag, kids, q, o)
  BY DEF StartQueued
<1>2. PICK o \in QueueRuns(ag, q) : StartAgents(ag, kids, q, o)
  BY <1>1
<1>3. CASE Len(o) = 0
  BY <1>2, <1>3, QueueRun, NoneStarted
<1>4. CASE Len(o) # 0
  BY <1>2, <1>4, QueueLimit
<1> QED BY <1>3, <1>4

LEMMA EndLimit ==
  ASSUME TypeOK, Ends
  PROVE  \/ /\ With("running", agents') \subseteq With("running", agents)
            /\ With("queued", agents') \subseteq With("queued", agents)
         \/ Cardinality(With("running", agents')) <= MaxThreads
<1>1. PICK a \in Agents : \E status \in Terminal, kids \in [Child -> ChildSession] :
             EndAgent(a, status, kids)
  BY DEF Ends
<1>2. PICK status \in Terminal : \E kids \in [Child -> ChildSession] : EndAgent(a, status, kids)
  BY <1>1
<1>3. PICK kids \in [Child -> ChildSession] : EndAgent(a, status, kids)
  BY <1>2
<1>4. StartQueued(Ended(a, status), kids) /\ Ended(a, status) \in [Agents -> Agent]
  BY <1>3, EndedType DEF EndAgent
<1>5. CASE \A b \in Agents : agents'[b] = Ended(a, status)[b]
  <2>1. /\ With("running", agents') = With("running", Ended(a, status))
        /\ With("queued", agents') = With("queued", Ended(a, status))
    BY <1>5 DEF With
  <2> QED BY <2>1, EndedRuns
<1> QED BY <1>4, <1>5, QueueRunLimit

LEMMA LimitStep ==
  ASSUME MaxInputs = 0, MaxRestarts = 0, QueueInv, ActiveWithinLimit, [Next]_vars
  PROVE  ActiveWithinLimit'
<1>0. /\ TypeOK /\ MapInv /\ restored /\ agents \in [Agents -> Agent]
      /\ spent.inputs = 0 /\ spent.restarts = 0
  BY DEF QueueInv, TypeOK, FirstLife
<1>1. ASSUME With("running", agents') \subseteq With("running", agents)
      PROVE  ActiveWithinLimit'
  <2>1. Cardinality(With("running", agents')) <= Cardinality(With("running", agents))
    BY <1>1, WithType, FS_Subset
  <2> QED BY <2>1, WithType, ManagerAssumption DEF ActiveWithinLimit
<1>2. CASE Ends
  BY <1>0, <1>1, <1>2, EndLimit DEF ActiveWithinLimit
<1>3. CASE StartQueued(agents, children)
  BY <1>0, <1>1, <1>3, QueueRunLimit DEF ActiveWithinLimit, With
<1>4. ASSUME NEW a \in Agents, SpawnAgent(a)
      PROVE  ActiveWithinLimit'
  <2>1. PICK new \in [Agents -> Agent] : \E q, o :
           /\ Run(new, q, o) /\ StartAgents(new, children, q, o)
           /\ With("running", new) = With("running", agents)
           /\ \/ o = <<>>
              \/ /\ Cardinality(With("running", agents)) < MaxThreads
                 /\ \E out \in StartOutcome : o = <<out>>
    BY <1>0, <1>4, SpawnFacts
  <2>2. PICK q : \E o :
           /\ Run(new, q, o) /\ StartAgents(new, children, q, o)
           /\ \/ o = <<>>
              \/ /\ Cardinality(With("running", agents)) < MaxThreads
                 /\ \E out \in StartOutcome : o = <<out>>
    BY <2>1
  <2>3. PICK o :
           /\ Run(new, q, o) /\ StartAgents(new, children, q, o)
           /\ \/ o = <<>>
              \/ /\ Cardinality(With("running", agents)) < MaxThreads
                 /\ \E out \in StartOutcome : o = <<out>>
    BY <2>2
  <2>4. Cardinality(With("running", agents'))
          = Cardinality(With("running", agents)) + Count(o, {"started"})
    BY <2>1, <2>3, RunCount
  <2>5. Count(o, {"started"}) \in Nat /\ Cardinality(With("running", agents)) \in Nat
    BY <2>3, WithType, CountType DEF Run
  <2>6. CASE o = <<>>
    BY <1>1, <2>1, <2>3, <2>6, NoneStarted DEF With
  <2>7. ASSUME NEW out \in StartOutcome, o = <<out>>,
               Cardinality(With("running", agents)) < MaxThreads
        PROVE  ActiveWithinLimit'
    <3>1. Started(o) \subseteq {1}
      BY <2>7 DEF Started
    <3>2. Count(o, {"started"}) <= 1
      <4>1. IsFiniteSet({1}) /\ Cardinality({1}) = 1
        BY FS_Singleton
      <4>2. Cardinality(Started(o)) <= 1
        BY <3>1, <4>1, FS_Subset
      <4> QED BY <4>2 DEF Count, Started
    <3> QED BY <2>4, <2>5, <2>7, <3>2, ManagerAssumption DEF ActiveWithinLimit
  <2> QED BY <2>3, <2>6, <2>7
<1>5. \A a \in Agents : ~SendInput(a)
  BY <1>0 DEF SendInput
<1>6. ASSUME NEW a \in Agents, TimeoutFires(a)
      PROVE  ActiveWithinLimit'
  <2>1. \A b \in Agents : agents'[b].status = agents[b].status
    BY <1>0, <1>6 DEF TimeoutFires, Agent
  <2> QED BY <1>1, <2>1 DEF With
<1>7. CASE HandleTransportFailure
  <2>1. Sender \in Agents
    BY <1>0, <1>7, HeardIsCurrent DEF HandleTransportFailure
  <2>2. agents' = [agents EXCEPT ![Sender].status = "queued", ![Sender].armed = FALSE,
                                 ![Sender].retry = agents[Sender].retry + 1]
    BY <1>7 DEF HandleTransportFailure
  <2> HIDE DEF Sender
  <2>3. /\ agents'[Sender].status = "queued"
        /\ \A b \in Agents : b # Sender => agents'[b] = agents[b]
    BY <1>0, <2>1, <2>2 DEF Agent
  <2> QED BY <1>1, <2>1, <2>3 DEF With
<1>8. ~ManagerRestarts /\ ~RestoreParent
  BY <1>0 DEF ManagerRestarts, RestoreParent
<1>9. CASE Quiet
  BY <1>9 DEF ActiveWithinLimit, With, Quiet
<1> QED BY <1>0, <1>2, <1>3, <1>4, <1>5, <1>6, <1>7, <1>8, <1>9, Steps

\* max_threads holds over every path that makes an agent running, while no
\* follow-up prompt and no restart goes around it.
THEOREM ActiveWithinLimitCorrect ==
  ASSUME MaxInputs = 0, MaxRestarts = 0
  PROVE  Spec => []ActiveWithinLimit
<1>1. Init => ActiveWithinLimit
  <2>1. ASSUME Init PROVE With("running", agents) = {}
    BY <2>1 DEF Init, With, NoAgent
  <2> QED BY <2>1, FS_EmptySet, ManagerAssumption DEF ActiveWithinLimit
<1>2. QueueInv /\ ActiveWithinLimit /\ [Next]_vars => ActiveWithinLimit'
  BY LimitStep
<1> QED BY <1>1, <1>2, QueueInvCorrect, PTL DEF Spec

\* The body of QueueStartsWithinLimit.
StartsFit ==
  (\E a \in Agents : agents[a].status = "queued" /\ agents'[a].status = "running")
     => Cardinality(With("running", agents')) <= MaxThreads

LEMMA StartsFitStep ==
  ASSUME QueueInv, [Next]_vars
  PROVE  StartsFit
<1> SUFFICES ASSUME NEW x \in Agents, agents[x].status = "queued", agents'[x].status = "running"
             PROVE  Cardinality(With("running", agents')) <= MaxThreads
  BY DEF StartsFit
<1>0. TypeOK /\ MapInv /\ agents \in [Agents -> Agent]
  BY DEF QueueInv, TypeOK
<1>1. x \in With("running", agents') /\ x \notin With("running", agents)
  BY DEF With
<1>2. CASE Ends
  BY <1>0, <1>1, <1>2, EndLimit
<1>3. CASE StartQueued(agents, children)
  BY <1>0, <1>3, QueueRunLimit
<1>4. ASSUME NEW a \in Agents, SpawnAgent(a)
      PROVE  FALSE
  <2>1. PICK new \in [Agents -> Agent] : \E q, o :
           /\ Run(new, q, o) /\ StartAgents(new, children, q, o)
           /\ \A b \in Agents : b # a => new[b] = agents[b]
           /\ o = <<>> \/ (q = <<a>> /\ \E out \in StartOutcome : o = <<out>>)
    BY <1>0, <1>4, SpawnFacts
  <2>2. PICK q : \E o :
           /\ Run(new, q, o) /\ StartAgents(new, children, q, o)
           /\ o = <<>> \/ (q = <<a>> /\ \E out \in StartOutcome : o = <<out>>)
    BY <2>1
  <2>3. PICK o :
           /\ Run(new, q, o) /\ StartAgents(new, children, q, o)
           /\ o = <<>> \/ (q = <<a>> /\ \E out \in StartOutcome : o = <<out>>)
    BY <2>2
  <2>4. x # a
    BY <1>4 DEF SpawnAgent
  <2>5. \A i \in 1..Len(o) : q[i] = a
    BY <2>3
  <2>6. agents'[x] = new[x]
    BY <2>3, <2>4, <2>5, StartFacts
  <2> QED BY <2>1, <2>4, <2>6
<1>5. ASSUME NEW a \in Agents, SendInput(a)
      PROVE  FALSE
  <2>1. agents' = [agents EXCEPT ![a].status = "running", ![a].armed = TRUE]
        /\ agents[a].status # "queued"
    BY <1>5 DEF SendInput, Prompted
  <2> QED BY <1>0, <2>1
<1>6. ASSUME NEW a \in Agents, TimeoutFires(a)
      PROVE  FALSE
  BY <1>0, <1>6 DEF TimeoutFires, Agent
<1>7. ~HandleTransportFailure
  <2> SUFFICES ASSUME HandleTransportFailure PROVE FALSE
    OBVIOUS
  <2>1. Sender \in Agents
    BY <1>0, HeardIsCurrent DEF HandleTransportFailure
  <2>2. agents' = [agents EXCEPT ![Sender].status = "queued", ![Sender].armed = FALSE,
                                 ![Sender].retry = agents[Sender].retry + 1]
    BY DEF HandleTransportFailure
  <2> HIDE DEF Sender
  <2> QED BY <1>0, <2>1, <2>2 DEF Agent
<1>8. ~ManagerRestarts
  BY DEF ManagerRestarts, NoAgent
<1>9. ~RestoreParent
  BY <1>0 DEF RestoreParent, MapInv, PastGone
<1>10. CASE Quiet
  BY <1>10 DEF Quiet
<1> QED BY <1>0, <1>2, <1>3, <1>4, <1>5, <1>6, <1>7, <1>8, <1>9, <1>10, Steps

\* A queued agent is started only into a free slot, also when follow-up
\* prompts have filled the slots past the limit or the Manager has restarted.
THEOREM QueueStartsWithinLimitCorrect == Spec => QueueStartsWithinLimit
<1>1. QueueInv /\ [Next]_vars => [StartsFit]_vars
  BY StartsFitStep
<1>2. QueueStartsWithinLimit <=> [][StartsFit]_vars
  BY DEF QueueStartsWithinLimit, StartsFit
<1> QED BY <1>1, <1>2, QueueInvCorrect, PTL DEF Spec

-----------------------------------------------------------------------------
(* The queue moves. *)

LEMMA StallDef ==
  QueueNeverStalls <=>
    (With("queued", agents) # {} =>
       \/ Cardinality(With("running", agents)) >= MaxThreads
       \/ \E a \in With("queued", agents) : WakesUp(a))
BY DEF QueueNeverStalls, WakesUp

\* A step that leaves the queue as it was, frees no slot and loses no
\* wake-up of a queued agent.
LEMMA StallKept ==
  ASSUME QueueNeverStalls, With("queued", agents') = With("queued", agents),
         With("running", agents) \subseteq With("running", agents'),
         \A a \in With("queued", agents) : WakesUp(a) => WakesUp(a)'
  PROVE  QueueNeverStalls'
<1>1. Cardinality(With("running", agents)) <= Cardinality(With("running", agents'))
  BY WithType, FS_Subset
<1>2. /\ Cardinality(With("running", agents)) \in Nat
      /\ Cardinality(With("running", agents')) \in Nat
  BY WithType
<1>3. QueueNeverStalls' <=>
        (With("queued", agents') # {} =>
           \/ Cardinality(With("running", agents')) >= MaxThreads
           \/ \E a \in With("queued", agents') : WakesUp(a)')
  BY DEF QueueNeverStalls, WakesUp, With, Signal
<1> QED BY <1>1, <1>2, <1>3, StallDef, ManagerAssumption

LEMMA StallStep ==
  ASSUME QueueInv, QueueNeverStallsBeforeRestart, [Next]_vars
  PROVE  QueueNeverStallsBeforeRestart'
<1> SUFFICES ASSUME spent'.restarts = 0
             PROVE  QueueNeverStalls'
  BY DEF QueueNeverStallsBeforeRestart
<1>0. TypeOK /\ MapInv /\ FirstLife /\ agents \in [Agents -> Agent]
      /\ children \in [Child -> ChildSession] /\ spent.restarts \in Nat
  BY ManagerAssumption DEF QueueInv, TypeOK
<1>1. Waits' => QueueNeverStalls'
  BY DEF Waits, QueueNeverStalls, With
\* What holds while the Manager has not restarted.
<1>2. ASSUME spent'.restarts = spent.restarts
      PROVE  restored /\ Capped(agents) /\ QueueNeverStalls
  BY <1>2 DEF QueueInv, FirstLife, Capped, QueueNeverStallsBeforeRestart
<1>3. CASE Ends
  <2>1. PICK a \in Agents : \E status \in Terminal, kids \in [Child -> ChildSession] :
               agents[a].status # "none" /\ EndAgent(a, status, kids)
    BY <1>3 DEF Ends
  <2>2. /\ Capped(agents) => Capped(agents') /\ Waits'
        /\ spent'.restarts = spent.restarts
    BY <1>0, <2>1, EndCapped
  <2> QED BY <1>1, <1>2, <2>2
<1>4. CASE HandleRetry /\ StartQueued(agents, children)
  <2>1. spent'.restarts = spent.restarts
    BY <1>0, <1>4, QueueCapped
  <2>2. \A a \in With("queued", agents) : agents[a].cap = MaxThreads
    BY <1>2, <2>1 DEF Capped, With
  <2> QED BY <1>0, <1>1, <1>4, <2>2, QueueEmptiesOrFills
<1>5. ASSUME NEW a \in Agents, SpawnAgent(a)
      PROVE  QueueNeverStalls'
  <2>1. PICK new \in [Agents -> Agent] : \E q, o :
           /\ Run(new, q, o) /\ StartAgents(new, children, q, o)
           /\ With("running", new) = With("running", agents)
           /\ With("queued", new) = With("queued", agents) \cup {a}
           /\ \/ /\ Cardinality(With("running", agents)) >= MaxThreads
                 /\ o = <<>>
              \/ /\ Cardinality(With("running", agents)) < MaxThreads
                 /\ \E out \in StartOutcome : o = <<out>>
                 /\ q = <<a>>
    BY <1>0, <1>5, SpawnFacts
  <2>2. PICK q : \E o :
           /\ Run(new, q, o) /\ StartAgents(new, children, q, o)
           /\ \/ /\ Cardinality(With("running", agents)) >= MaxThreads
                 /\ o = <<>>
              \/ /\ Cardinality(With("running", agents)) < MaxThreads
                 /\ \E out \in StartOutcome : o = <<out>>
                 /\ q = <<a>>
    BY <2>1
  <2>3. PICK o :
           /\ Run(new, q, o) /\ StartAgents(new, children, q, o)
           /\ \/ /\ Cardinality(With("running", agents)) >= MaxThreads
                 /\ o = <<>>
              \/ /\ Cardinality(With("running", agents)) < MaxThreads
                 /\ \E out \in StartOutcome : o = <<out>>
                 /\ q = <<a>>
    BY <2>2
  <2>4. CASE o = <<>>
    <3>1. \A b \in Agents : agents'[b] = new[b]
      BY <2>3, <2>4, NoneStarted
    <3>2. Cardinality(With("running", agents)) >= MaxThreads
      BY <2>3, <2>4
    <3>3. With("running", agents') = With("running", agents)
      BY <2>1, <3>1 DEF With
    <3> QED BY <1>1, <3>2, <3>3 DEF Waits
  <2>5. ASSUME NEW out \in StartOutcome, o = <<out>>, q = <<a>>,
               Cardinality(With("running", agents)) < MaxThreads
        PROVE  QueueNeverStalls'
    <3>1. 1 \in 1..Len(o) /\ q[1] = a
      BY <2>5
    <3>2. \A i \in 1..Len(o) : q[i] = a
      BY <2>5
    <3>3. /\ With("queued", agents') \subseteq With("queued", new) /\ a \notin With("queued", agents')
      BY <2>3, <3>1, QueuedAfter
    <3>4. \A b \in Agents : b # a => agents'[b] = new[b]
      BY <2>3, <3>2, StartFacts
    <3>5. With("queued", agents) \subseteq With("queued", new) /\ a \notin With("queued", agents)
      BY <1>5, <2>1 DEF SpawnAgent, With
    <3>6. With("queued", agents') = With("queued", agents)
      BY <2>1, <3>3, <3>4, <3>5 DEF With
    <3>7. With("running", agents) \subseteq With("running", agents')
      BY <1>5, <2>1, <3>4 DEF SpawnAgent, With
    <3>8. UNCHANGED <<retry_timers, mailbox>> /\ spent'.restarts = spent.restarts
      BY <1>0, <1>5, <2>3, StartType DEF SpawnAgent
    <3>9. \A b \in With("queued", agents) : WakesUp(b) => WakesUp(b)'
      BY <3>8 DEF WakesUp, Signal
    <3> QED BY <1>2, <3>6, <3>7, <3>8, <3>9, StallKept
  <2> QED BY <2>3, <2>4, <2>5
<1>6. ASSUME NEW a \in Agents, SendInput(a)
      PROVE  QueueNeverStalls'
  <2>1. /\ agents' = [agents EXCEPT ![a].status = "running", ![a].armed = TRUE]
        /\ UNCHANGED <<retry_timers, mailbox>> /\ spent'.restarts = spent.restarts
        /\ agents[a].status # "queued"
    BY <1>0, <1>6 DEF SendInput, Prompted, TypeOK
  <2>2. /\ agents'[a].status = "running"
        /\ \A b \in Agents : b # a => agents'[b] = agents[b]
    BY <1>0, <2>1 DEF Agent
  <2>3. /\ With("queued", agents') = With("queued", agents)
        /\ With("running", agents) \subseteq With("running", agents')
    BY <2>1, <2>2 DEF With
  <2>4. \A b \in With("queued", agents) : WakesUp(b) => WakesUp(b)'
    BY <2>1 DEF WakesUp, Signal
  <2> QED BY <1>2, <2>1, <2>3, <2>4, StallKept
<1>7. ASSUME NEW a \in Agents, TimeoutFires(a)
      PROVE  QueueNeverStalls'
  <2>1. /\ agents' = [agents EXCEPT ![a].armed = FALSE] /\ spent' = spent
        /\ retry_timers' = retry_timers /\ mailbox' = Append(mailbox, Signal("timeout", a))
    BY <1>7 DEF TimeoutFires
  <2>2. \A b \in Agents : agents'[b].status = agents[b].status
    BY <1>0, <2>1 DEF Agent
  <2>3. Signal("timeout", a) \in Message /\ mailbox \in Seq(Message)
    BY <1>0 DEF Signal, Message, TypeOK
  <2>4. \A b \in Agents : WakesUp(b) => WakesUp(b)'
    BY <1>0, <2>1, <2>3, AppendKeeps, WakesKept
  <2>5. /\ With("queued", agents') = With("queued", agents)
        /\ With("running", agents) = With("running", agents')
    BY <2>2 DEF With
  <2> QED BY <1>2, <2>1, <2>4, <2>5, StallKept DEF With
<1>8. CASE HandleTransportFailure
  <2>1. Sender \in Agents
    BY <1>0, <1>8, HeardIsCurrent DEF HandleTransportFailure
  <2>2. agents' = [agents EXCEPT ![Sender].status = "queued", ![Sender].armed = FALSE,
                                 ![Sender].retry = agents[Sender].retry + 1]
        /\ retry_timers' = [retry_timers EXCEPT ![Sender] = retry_timers[Sender] + 1]
    BY <1>8 DEF HandleTransportFailure, WakeUp
  <2> HIDE DEF Sender
  <2>3. agents'[Sender].status = "queued"
    BY <1>0, <2>1, <2>2 DEF Agent
  <2>4. retry_timers'[Sender] > 0
    BY <1>0, <2>1, <2>2 DEF TypeOK
  <2> QED BY <2>1, <2>3, <2>4 DEF QueueNeverStalls, With
<1>9. ~ManagerRestarts
  BY <1>0 DEF ManagerRestarts, TypeOK
<1>10. ~RestoreParent
  <2> SUFFICES ASSUME RestoreParent PROVE FALSE
    OBVIOUS
  <2>1. spent' = spent /\ ~restored
    BY DEF RestoreParent
  <2> QED BY <1>2, <2>1
<1>11. CASE Quiet
  <2>1. spent' = spent /\ agents' = agents
    BY <1>11 DEF Quiet
  <2>2. With("queued", agents') = With("queued", agents)
        /\ With("running", agents') = With("running", agents)
    BY <2>1
  <2> QED BY <1>2, <1>11, <2>1, <2>2, StallKept DEF Quiet
<1> QED BY <1>0, <1>3, <1>4, <1>5, <1>6, <1>7, <1>8, <1>9, <1>10, <1>11, Steps

\* Until the Manager restarts nobody waits beside a free slot, except for the
\* wake-up of a retried agent: every path that frees a slot moves the queue.
THEOREM QueueNeverStallsBeforeRestartCorrect == Spec => []QueueNeverStallsBeforeRestart
<1>1. Init => QueueNeverStallsBeforeRestart
  BY DEF Init, QueueNeverStallsBeforeRestart, QueueNeverStalls, With, NoAgent
<1> QED BY <1>1, StallStep, QueueInvCorrect, PTL DEF Spec

=============================================================================
